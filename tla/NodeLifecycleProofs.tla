------------------------- MODULE NodeLifecycleProofs -------------------------
(***************************************************************************)
(* Theorems about the lifecycle of a node, for every set of nodes,         *)
(* requests and upgrades.                                                  *)
(***************************************************************************)
EXTENDS NodeLifecycle, TLAPS

\* Zenon proves the steps that name no other prover.
USE ZenonT(30)

(* A node that is not registered has the row it will be registered with.   *)
NewRows == \A n \in Node : ~nodes[n].present => nodes[n] = NoNode

(* A request expects a record version the row has had.  One that returns a *)
(* node to service read, when it found the node in maintenance, a version  *)
(* between the expected one and the current one.  One that completes an    *)
(* upgrade works on the upgrade's node, and is past the comparison of      *)
(* versions only if the node has run the target.                           *)
RequestSound(r) ==
  /\ r.kind = "idle" => r.pc = "idle"
  /\ r.kind # "idle" => r.node \in Node /\ r.expected <= nodes[r.node].rv
  /\ r.kind \in {"poll", "test", "update", "start"} => r.version \in 1 .. MaxVersion
  /\ r.pc = "validate" =>
       /\ r.kind \in {"return", "complete"}
       /\ r.expected <= r.read /\ r.read <= nodes[r.node].rv
       /\ 1 <= r.check
  /\ r.kind = "complete" =>
       /\ r.upgrade \in Upgrade
       /\ upgrades[r.upgrade].status # "none" /\ upgrades[r.upgrade].node = r.node
       /\ r.pc \in {"return", "validate"} \/ r.flag => r.upgrade \in reached
  /\ r.kind # "complete" => r.upgrade = None
RequestsSound == \A s \in Slot : RequestSound(req[s])

(* Running the target of an upgrade is never missed. *)
TargetsNoticed ==
  \A u \in Upgrade :
    upgrades[u].status # "none" =>
      /\ upgrades[u].node \in Node
      /\ installed[upgrades[u].node] = upgrades[u].target => u \in reached

IInv ==
  /\ TypeOK /\ NewRows /\ RequestsSound /\ TargetsNoticed
  /\ DisabledIsDisabled /\ UpgradeReachedTarget

-----------------------------------------------------------------------------
\* What the tables do, and what that keeps

(* Record versions grow, an upgrade keeps its node and target once it is   *)
(* created, and what was reached stays so.                                 *)
RowsAdvance ==
  /\ \A n \in Node : nodes[n].rv <= nodes'[n].rv
  /\ \A u \in Upgrade : upgrades[u].status # "none" =>
       /\ upgrades'[u].status # "none"
       /\ upgrades'[u].node = upgrades[u].node /\ upgrades'[u].target = upgrades[u].target
  /\ reached \subseteq reached'

(* The evidence for a return comes from four checks. *)
LEMMA GatherLength == Len(Gather) = 4
BY DEF Gather

(* The version of a row is a number within the bound. *)
LEMMA RecordVersion ==
  ASSUME IInv, NEW n \in Node
  PROVE  nodes[n] \in NodeRow /\ nodes[n].rv \in 1 .. MaxRecord /\ nodes[n].rv \in Nat
<1>1. nodes[n] \in NodeRow
  BY DEF IInv, TypeOK
<1> QED
  BY <1>1, LifecycleConstants, SMTT(30) DEF NodeRow

(* A request in flight is typed and its versions are numbers. *)
LEMMA SlotType ==
  ASSUME IInv, NEW s \in Slot
  PROVE  /\ req[s] \in RequestRow /\ RequestSound(req[s])
         /\ req[s].expected \in Nat /\ req[s].read \in Nat
BY LifecycleConstants, SMTT(30) DEF IInv, TypeOK, RequestRow, RequestsSound

(* What a request was let in with stays true of it. *)
LEMMA SoundWhileAdvancing ==
  ASSUME IInv, TypeOK', RowsAdvance, NEW r \in RequestRow, RequestSound(r)
  PROVE  RequestSound(r)'
<1> r.expected \in Nat /\ r.read \in Nat
  BY SMTT(30) DEF RequestRow
<1> \A n \in Node : nodes[n].rv \in Nat /\ nodes'[n].rv \in Nat
  BY LifecycleConstants, SMTT(30) DEF IInv, TypeOK, NodeRow
<1>1. ASSUME r.kind # "idle" PROVE r.expected <= nodes'[r.node].rv
  <2>1. r.node \in Node /\ r.expected <= nodes[r.node].rv /\ nodes[r.node].rv <= nodes'[r.node].rv
    BY <1>1 DEF RequestSound, RowsAdvance
  <2> QED
    BY <2>1, SMTT(30)
<1>2. ASSUME r.pc = "validate" PROVE r.read <= nodes'[r.node].rv
  <2>1. r.node \in Node /\ r.read <= nodes[r.node].rv /\ nodes[r.node].rv <= nodes'[r.node].rv
    BY <1>2 DEF RequestSound, RowsAdvance
  <2> QED
    BY <2>1, SMTT(30)
<1> QED
  BY <1>1, <1>2 DEF RequestSound, RowsAdvance

(* A slot without a request claims nothing. *)
LEMMA IdleSound == Idle \in RequestRow /\ RequestSound(Idle) /\ RequestSound(Idle)'
<1>1. Idle \in RequestRow
  BY LifecycleConstants, GatherLength, SMTT(30) DEF Idle, RequestRow, Kind, Call
<1> QED
  BY <1>1 DEF Idle, RequestSound

(* Requests stay sound if all but one go on unchanged and that one, if     *)
(* any, is sound in its new form.                                          *)
LEMMA RequestsStaySound ==
  ASSUME IInv, TypeOK', RowsAdvance,
         \A t \in Slot : req'[t] \in {req[t], Idle} \/ RequestSound(req[t])'
  PROVE  RequestsSound'
<1> SUFFICES ASSUME NEW t \in Slot, req'[t] \in {req[t], Idle} PROVE RequestSound(req[t])'
  BY DEF RequestsSound
<1>1. CASE req'[t] = req[t]
  <2>1. PICK r \in RequestRow : r = req[t]
    BY SlotType
  <2>2. RequestSound(r)'
    BY <2>1, SlotType, SoundWhileAdvancing
  <2> QED
    BY <1>1, <2>1, <2>2 DEF RequestSound
<1>2. CASE req'[t] = Idle
  BY <1>2, IdleSound DEF RequestSound
<1> QED
  BY <1>1, <1>2

(* A step that ends requests, and changes neither rows nor upgrades nor    *)
(* what runs on the nodes.                                                 *)
LEMMA EndKeeps ==
  ASSUME IInv, TypeOK', \A t \in Slot : req'[t] \in {req[t], Idle},
         UNCHANGED <<nodes, upgrades, installed, reached>>
  PROVE  IInv'
<1>1. RowsAdvance
  BY RecordVersion, SMTT(30) DEF RowsAdvance
<1>2. RequestsSound'
  BY <1>1, RequestsStaySound
<1>3. NewRows' /\ TargetsNoticed' /\ DisabledIsDisabled' /\ UpgradeReachedTarget'
  BY DEF IInv, NewRows, TargetsNoticed, DisabledIsDisabled, UpgradeReachedTarget
<1> QED
  BY <1>2, <1>3 DEF IInv

(* A step of one request that changes nothing but the request. *)
LEMMA GotoKeeps ==
  ASSUME IInv, NEW s \in Slot, NEW r \in RequestRow, RequestSound(r), Goto(s, r), UNCHANGED <<nodes, Others>>
  PROVE  IInv'
<1>1. TypeOK'
  BY DEF IInv, TypeOK, Goto, Others, world
<1>2. \A t \in Slot : req'[t] = req[t] \/ req'[t] = r
  BY DEF IInv, TypeOK, Goto
<1>3. RequestSound(r)'
  BY DEF RequestSound, Others, world
<1>4. RequestsSound'
  BY <1>2, <1>3, SMTT(30) DEF IInv, RequestsSound, RequestSound, Others, world
<1>5. NewRows' /\ TargetsNoticed' /\ DisabledIsDisabled' /\ UpgradeReachedTarget'
  BY DEF IInv, NewRows, TargetsNoticed, DisabledIsDisabled, UpgradeReachedTarget, Others, world
<1> QED
  BY <1>1, <1>4, <1>5 DEF IInv

(* A request that ends without a write keeps the invariant. *)
LEMMA DoneKeeps ==
  ASSUME IInv, NEW s \in Slot, Done(s), UNCHANGED <<nodes, Others>>
  PROVE  IInv'
BY GotoKeeps, IdleSound DEF Done, Goto

(* A write of one row that is not older than the row was, while at most    *)
(* requests end.                                                           *)
LEMMA WriteKeeps ==
  ASSUME IInv, NEW n \in Node, NEW row \in NodeRow, nodes' = [nodes EXCEPT ![n] = row],
         row.present, nodes[n].rv <= row.rv, row.health = "disabled" <=> ~row.enabled,
         req' \in [Slot -> RequestRow],
         \A t \in Slot : req'[t] \in {req[t], Idle} \/ RequestSound(req[t])',
         cluster' \in [deployment : BOOLEAN, dhcp : SUBSET Node, drift : SUBSET Node],
         UNCHANGED <<settings, probed, upgrades, installed, failing, reached, changes>>
  PROVE  IInv'
<1>1. TypeOK'
  BY DEF IInv, TypeOK
<1>2. RowsAdvance
  BY RecordVersion, SMTT(30) DEF IInv, TypeOK, RowsAdvance
<1>3. RequestsSound'
  BY <1>1, <1>2, RequestsStaySound
<1>4. NewRows' /\ DisabledIsDisabled'
  BY DEF IInv, TypeOK, NewRows, DisabledIsDisabled
<1>5. TargetsNoticed' /\ UpgradeReachedTarget'
  BY DEF IInv, TargetsNoticed, UpgradeReachedTarget
<1> QED
  BY <1>1, <1>3, <1>4, <1>5 DEF IInv

-----------------------------------------------------------------------------
\* Outside the controller

(* What the checks would find may change at any time. *)
LEMMA CheckChangesInv ==
  ASSUME IInv, NEW n \in Node, NEW c \in Defect, CheckChanges(n, c)
  PROVE  IInv'
<1>1. changes' \in 0 .. MaxChanges
  BY LifecycleConstants, SMTT(30) DEF CheckChanges, Change, IInv, TypeOK
<1>2. failing' \in [Node -> SUBSET Defect]
  BY DEF CheckChanges, IInv, TypeOK
<1>3. TypeOK'
  BY <1>1, <1>2 DEF CheckChanges, IInv, TypeOK
<1> QED
  BY <1>3, EndKeeps DEF CheckChanges

(* A node that comes to run another version may reach the target of an     *)
(* upgrade.                                                                *)
LEMMA InstallInv ==
  ASSUME IInv, NEW n \in Node, NEW v \in 1 .. MaxVersion, Install(n, v)
  PROVE  IInv'
<1>1. changes' \in 0 .. MaxChanges
  BY LifecycleConstants, SMTT(30) DEF Install, Change, IInv, TypeOK
<1>2. installed' \in [Node -> 1 .. MaxVersion] /\ reached' \subseteq Upgrade
  BY DEF Install, IInv, TypeOK
<1>3. TypeOK'
  BY <1>1, <1>2 DEF Install, IInv, TypeOK
<1>4. RowsAdvance
  BY RecordVersion, SMTT(30) DEF Install, RowsAdvance
<1>5. RequestsSound'
  BY <1>3, <1>4, RequestsStaySound DEF Install
<1>6. TargetsNoticed'
  BY DEF Install, IInv, TypeOK, TargetsNoticed
<1>7. NewRows' /\ DisabledIsDisabled' /\ UpgradeReachedTarget'
  BY DEF Install, IInv, NewRows, DisabledIsDisabled, UpgradeReachedTarget
<1> QED
  BY <1>3, <1>5, <1>6, <1>7 DEF IInv

(* A deployment, DHCP service or drift that comes or goes touches no row. *)
LEMMA ClusterChangesInv ==
  ASSUME IInv, ClusterChanges
  PROVE  IInv'
<1>1. changes' \in 0 .. MaxChanges
  BY LifecycleConstants, SMTT(30) DEF ClusterChanges, Change, IInv, TypeOK
<1>2. cluster \in [deployment : BOOLEAN, dhcp : SUBSET Node, drift : SUBSET Node]
  BY DEF IInv, TypeOK
<1>3. cluster' \in [deployment : BOOLEAN, dhcp : SUBSET Node, drift : SUBSET Node]
  <2>1. CASE cluster' = [cluster EXCEPT !.deployment = ~@]
    BY <1>2, <2>1
  <2>2. ASSUME NEW n \in Node, cluster' = [cluster EXCEPT !.dhcp = IF n \in @ THEN @ \ {n} ELSE @ \cup {n}]
        PROVE  cluster' \in [deployment : BOOLEAN, dhcp : SUBSET Node, drift : SUBSET Node]
    BY <1>2, <2>2
  <2>3. ASSUME NEW n \in Node, cluster' = [cluster EXCEPT !.drift = IF n \in @ THEN @ \ {n} ELSE @ \cup {n}]
        PROVE  cluster' \in [deployment : BOOLEAN, dhcp : SUBSET Node, drift : SUBSET Node]
    BY <1>2, <2>3
  <2> QED
    BY <2>1, <2>2, <2>3 DEF ClusterChanges
<1>4. TypeOK'
  BY <1>1, <1>3 DEF ClusterChanges, IInv, TypeOK
<1> QED
  BY <1>4, EndKeeps DEF ClusterChanges

(* New DNS probe evidence says nothing about rows or requests. *)
LEMMA ProbeEvidenceInv ==
  ASSUME IInv, NEW n \in Node, ProbeEvidence(n)
  PROVE  IInv'
<1>1. changes' \in 0 .. MaxChanges
  BY LifecycleConstants, SMTT(30) DEF ProbeEvidence, Change, IInv, TypeOK
<1>2. probed' \in [Node -> BOOLEAN]
  BY DEF ProbeEvidence, IInv, TypeOK
<1>3. TypeOK'
  BY <1>1, <1>2 DEF ProbeEvidence, IInv, TypeOK
<1> QED
  BY <1>3, EndKeeps DEF ProbeEvidence

(* Neither do the settings of the workflow. *)
LEMMA UpdateSettingsInv ==
  ASSUME IInv, NEW n \in Node, NEW g \in BOOLEAN, UpdateSettings(n, g)
  PROVE  IInv'
<1>1. settings[n].rv \in 0 .. MaxSettings
  BY DEF IInv, TypeOK
<1>2. [rv |-> settings[n].rv + 1, guided |-> g] \in [rv : 0 .. MaxSettings, guided : BOOLEAN]
  BY <1>1, LifecycleConstants, SMTT(30) DEF UpdateSettings, SaveNodeLifecycleSettings
<1>3. TypeOK'
  BY <1>2 DEF UpdateSettings, SaveNodeLifecycleSettings, IInv, TypeOK, world
<1> QED
  BY <1>3, EndKeeps DEF UpdateSettings, world

-----------------------------------------------------------------------------
\* Requests that are let in

(* A new request, and the fields it starts from. *)
Fresh(q, kind, pc, n) ==
  /\ q \in RequestRow /\ q.kind = kind /\ q.pc = pc /\ q.node = n
  /\ q.expected = 0 /\ q.flag = FALSE /\ q.upgrade = None

(* A request starts fresh. *)
LEMMA RequestFields ==
  ASSUME NEW kind \in Kind, NEW pc \in Call, NEW n \in Node
  PROVE  Fresh(Request(kind, pc, n), kind, pc, n)
<1> PICK q : q = Request(kind, pc, n)
  OBVIOUS
<1>1. PICK i : i = Idle
  OBVIOUS
<1>2. i \in RequestRow /\ i.expected = 0 /\ i.flag = FALSE /\ i.upgrade = None
  BY <1>1, IdleSound DEF Idle
<1>3. q = [i EXCEPT !.kind = kind, !.pc = pc, !.node = n]
  BY <1>1 DEF Request
<1>4. Fresh(q, kind, pc, n)
  BY <1>2, <1>3 DEF RequestRow, Fresh
<1> QED
  BY <1>4

(* The version a client sends is one the row has had. *)
LEMMA ExpectedType ==
  ASSUME IInv, NEW n \in Node, NEW e \in Expected(n)
  PROVE  e \in 0 .. MaxRecord /\ e \in Nat /\ e <= nodes[n].rv
BY RecordVersion, LifecycleConstants, SMTT(30) DEF Expected

(* A poll or a test starts from the row of a stored node. *)
LEMMA BeginPollTestInv ==
  ASSUME IInv, NEW s \in Slot, NEW n \in Node, BeginPoll(s, n) \/ BeginTest(s, n)
  PROVE  IInv'
<1>1. PICK kind \in {"poll", "test"} :
        /\ Begin(s, [Request(kind, "status", n) EXCEPT !.version = nodes[n].version])
        /\ UNCHANGED <<nodes, Others>>
  BY DEF BeginPoll, BeginTest
<1>2. PICK q : q = Request(kind, "status", n)
  OBVIOUS
<1>3. q \in RequestRow /\ q.kind = kind /\ q.pc = "status" /\ q.node = n /\ q.expected = 0 /\ q.upgrade = None
  <2>1. kind \in Kind /\ "status" \in Call
    BY DEF Kind, Call
  <2>2. Fresh(q, kind, "status", n)
    BY <1>2, <2>1, RequestFields
  <2> QED
    BY <2>2 DEF Fresh
<1>4. PICK r : r = [q EXCEPT !.version = nodes[n].version]
  OBVIOUS
<1>5. nodes[n].version \in 1 .. MaxVersion
  BY RecordVersion DEF NodeRow
<1>6. /\ r \in RequestRow /\ r.kind = kind /\ r.pc = "status" /\ r.node = n /\ r.expected = 0
      /\ r.upgrade = None /\ r.version = nodes[n].version
  BY <1>3, <1>4, <1>5, LifecycleConstants, SMTT(30) DEF RequestRow
<1>7. RequestSound(r)
  BY <1>5, <1>6, RecordVersion, SMTT(30) DEF RequestSound
<1> QED
  BY <1>1, <1>2, <1>4, <1>6, <1>7, GotoKeeps DEF Begin, Goto

(* An update carries a version its client has seen. *)
LEMMA BeginUpdateInv ==
  ASSUME IInv, NEW s \in Slot, NEW n \in Node, NEW enabled \in BOOLEAN, NEW e \in Expected(n),
         BeginUpdate(s, n, enabled, e)
  PROVE  IInv'
<1>1. PICK pc \in {"status", "write"} :
        /\ Begin(s, [Request("update", pc, n) EXCEPT !.flag = enabled, !.expected = e,
                                                     !.version = nodes[n].version])
        /\ UNCHANGED <<nodes, Others>>
  <2>1. CASE enabled
    BY <2>1 DEF BeginUpdate
  <2>2. CASE ~enabled
    BY <2>2 DEF BeginUpdate
  <2> QED
    BY <2>1, <2>2
<1>2. PICK q : q = Request("update", pc, n)
  OBVIOUS
<1>3. q \in RequestRow /\ q.kind = "update" /\ q.pc = pc /\ q.node = n /\ q.upgrade = None
  <2>1. "update" \in Kind /\ pc \in Call
    BY DEF Kind, Call
  <2>2. Fresh(q, "update", pc, n)
    BY <1>2, <2>1, RequestFields
  <2> QED
    BY <2>2 DEF Fresh
<1>4. PICK r : r = [q EXCEPT !.flag = enabled, !.expected = e, !.version = nodes[n].version]
  OBVIOUS
<1>5. nodes[n].version \in 1 .. MaxVersion /\ nodes[n].version \in 0 .. MaxVersion
  BY RecordVersion, LifecycleConstants, SMTT(30) DEF NodeRow
<1>6. /\ r \in RequestRow /\ r.kind = "update" /\ r.pc = pc /\ r.node = n /\ r.expected = e
      /\ r.upgrade = None /\ r.version = nodes[n].version
  BY <1>3, <1>4, <1>5, ExpectedType DEF RequestRow
<1>7. RequestSound(r)
  BY <1>5, <1>6, ExpectedType DEF RequestSound
<1> QED
  BY <1>1, <1>2, <1>4, <1>6, <1>7, GotoKeeps DEF Begin, Goto

(* So does a request to enter maintenance. *)
LEMMA EnterMaintenanceInv ==
  ASSUME IInv, NEW s \in Slot, NEW n \in Node, NEW b \in BOOLEAN, NEW e \in Expected(n),
         EnterMaintenance(s, n, e, b)
  PROVE  IInv'
<1>1. PICK q : q = Request("enter", "preflight", n)
  OBVIOUS
<1>2. q \in RequestRow /\ q.kind = "enter" /\ q.pc = "preflight" /\ q.node = n /\ q.upgrade = None
  <2>1. "enter" \in Kind /\ "preflight" \in Call
    BY DEF Kind, Call
  <2>2. Fresh(q, "enter", "preflight", n)
    BY <1>1, <2>1, RequestFields
  <2> QED
    BY <2>2 DEF Fresh
<1>3. PICK r : r = [q EXCEPT !.expected = e, !.flag = b]
  OBVIOUS
<1>4. /\ r \in RequestRow /\ r.kind = "enter" /\ r.pc = "preflight" /\ r.node = n /\ r.expected = e
      /\ r.upgrade = None
  BY <1>2, <1>3, ExpectedType DEF RequestRow
<1>5. RequestSound(r)
  BY <1>4, ExpectedType DEF RequestSound
<1> QED
  BY <1>1, <1>3, <1>4, <1>5, GotoKeeps DEF EnterMaintenance, Begin, Goto

(* So does a return to service, which notes the period it found. *)
LEMMA BeginReturnInv ==
  ASSUME IInv, NEW s \in Slot, NEW n \in Node, NEW e \in Expected(n), BeginReturn(s, n, e)
  PROVE  IInv'
<1>1. PICK q : q = Request("return", "validate", n)
  OBVIOUS
<1>2. q \in RequestRow /\ q.kind = "return" /\ q.pc = "validate" /\ q.node = n /\ q.upgrade = None
  <2>1. "return" \in Kind /\ "validate" \in Call
    BY DEF Kind, Call
  <2>2. Fresh(q, "return", "validate", n)
    BY <1>1, <2>1, RequestFields
  <2> QED
    BY <2>2 DEF Fresh
<1>3. PICK r : r = [q EXCEPT !.expected = e, !.read = nodes[n].rv, !.check = 1]
  OBVIOUS
<1>4. nodes[n].rv \in 0 .. MaxRecord /\ nodes[n].rv \in Nat /\ 1 \in 0 .. Len(Gather) + 1
  BY RecordVersion, LifecycleConstants, GatherLength, SMTT(30)
<1>5. /\ r \in RequestRow /\ r.kind = "return" /\ r.pc = "validate" /\ r.node = n /\ r.expected = e
      /\ r.upgrade = None /\ r.read = nodes[n].rv /\ r.check = 1
  BY <1>2, <1>3, <1>4, ExpectedType DEF RequestRow
<1>6. RequestSound(r)
  BY <1>4, <1>5, ExpectedType, SMTT(30) DEF RequestSound
<1> QED
  BY <1>1, <1>3, <1>5, <1>6, GotoKeeps DEF BeginReturn, Begin, Goto

(* The start of an upgrade passes its preflight and names a target. *)
LEMMA StartUpgradeInv ==
  ASSUME IInv, NEW s \in Slot, NEW n \in Node, NEW v \in 1 .. MaxVersion, StartUpgrade(s, n, v)
  PROVE  IInv'
<1>1. PICK q : q = Request("start", "create", n)
  OBVIOUS
<1>2. q \in RequestRow /\ q.kind = "start" /\ q.pc = "create" /\ q.node = n /\ q.expected = 0 /\ q.upgrade = None
  <2>1. "start" \in Kind /\ "create" \in Call
    BY DEF Kind, Call
  <2>2. Fresh(q, "start", "create", n)
    BY <1>1, <2>1, RequestFields
  <2> QED
    BY <2>2 DEF Fresh
<1>3. PICK r : r = [q EXCEPT !.version = v]
  OBVIOUS
<1>4. /\ r \in RequestRow /\ r.kind = "start" /\ r.pc = "create" /\ r.node = n /\ r.expected = 0
      /\ r.upgrade = None /\ r.version = v
  BY <1>2, <1>3, LifecycleConstants, SMTT(30) DEF RequestRow
<1>5. RequestSound(r)
  BY <1>4, RecordVersion, SMTT(30) DEF RequestSound
<1> QED
  BY <1>1, <1>3, <1>4, <1>5, GotoKeeps DEF StartUpgrade, Begin, Goto

(* The completion of an upgrade names the upgrade's node. *)
LEMMA BeginCompleteInv ==
  ASSUME IInv, NEW s \in Slot, NEW u \in Upgrade, upgrades[u].node # None,
         NEW e \in Expected(upgrades[u].node), BeginComplete(s, u, e)
  PROVE  IInv'
<1>1. PICK n \in Node : n = upgrades[u].node
  BY DEF IInv, TypeOK, UpgradeRow
<1>2. PICK q : q = Request("complete", "version", n)
  OBVIOUS
<1>3. q \in RequestRow /\ q.kind = "complete" /\ q.pc = "version" /\ q.node = n /\ q.flag = FALSE
  <2>1. "complete" \in Kind /\ "version" \in Call
    BY DEF Kind, Call
  <2>2. Fresh(q, "complete", "version", n)
    BY <1>2, <2>1, RequestFields
  <2> QED
    BY <2>2 DEF Fresh
<1>4. PICK r : r = [q EXCEPT !.expected = e, !.upgrade = u]
  OBVIOUS
<1>5. /\ r \in RequestRow /\ r.kind = "complete" /\ r.pc = "version" /\ r.node = n /\ r.expected = e
      /\ r.upgrade = u /\ r.flag = FALSE
  BY <1>1, <1>3, <1>4, ExpectedType DEF RequestRow
<1>6. RequestSound(r)
  BY <1>1, <1>5, ExpectedType DEF BeginComplete, RequestSound
<1> QED
  BY <1>1, <1>2, <1>4, <1>5, <1>6, GotoKeeps DEF BeginComplete, Begin, Goto

-----------------------------------------------------------------------------
\* Steps of a request that write nothing

(* A read from the node changes only its request. *)
LEMMA ProbeStatusInv ==
  ASSUME IInv, NEW s \in Slot, ProbeStatus(s)
  PROVE  IInv'
<1>1. PICK q : q = req[s]
  OBVIOUS
<1>2. /\ q \in RequestRow /\ RequestSound(q) /\ q.pc = "status"
      /\ UNCHANGED <<nodes, Others>>
  BY <1>1, SlotType DEF ProbeStatus
<1>3. q.node \in Node /\ q.kind \in Kind
  BY <1>2 DEF RequestSound, RequestRow
<1>4. CASE Done(s)
  BY <1>2, <1>4, DoneKeeps
<1>5. CASE ~Done(s)
  <2>1. PICK failed, version : /\ failed \in {{}, {"api"}} /\ version \in {installed[q.node], q.version}
                               /\ Goto(s, [q EXCEPT !.pc = "write", !.failed = failed, !.version = version])
    BY <1>1, <1>5 DEF ProbeStatus
  <2>2. PICK r : r = [q EXCEPT !.pc = "write", !.failed = failed, !.version = version]
    OBVIOUS
  <2>3. /\ version \in 0 .. MaxVersion
        /\ q.version \in 1 .. MaxVersion => version \in 1 .. MaxVersion
    BY <1>2, <1>3, <2>1, LifecycleConstants, SMTT(30) DEF IInv, TypeOK, RequestRow
  <2>4. failed \in SUBSET (Defect \cup {"dhcp"})
    BY <2>1 DEF Defect
  <2>5. /\ r \in RequestRow /\ r.kind = q.kind /\ r.pc = "write" /\ r.node = q.node
        /\ r.expected = q.expected /\ r.upgrade = q.upgrade /\ r.flag = q.flag /\ r.version = version
    BY <1>2, <2>2, <2>3, <2>4 DEF RequestRow, Call
  <2>6. RequestSound(r)
    BY <1>2, <2>3, <2>5 DEF RequestSound
  <2> QED
    BY <1>2, <2>1, <2>2, <2>5, <2>6, GotoKeeps
<1> QED
  BY <1>4, <1>5

(* The checks change only their request. *)
LEMMA MaintenancePreflightInv ==
  ASSUME IInv, NEW s \in Slot, MaintenancePreflight(s)
  PROVE  IInv'
<1>1. PICK q : q = req[s]
  OBVIOUS
<1>2. /\ q \in RequestRow /\ RequestSound(q) /\ q.kind = "enter"
      /\ UNCHANGED <<nodes, Others>>
  BY <1>1, SlotType DEF MaintenancePreflight, At
<1>3. CASE Done(s)
  BY <1>2, <1>3, DoneKeeps
<1>4. CASE ~Done(s)
  <2>1. PICK r : r = [q EXCEPT !.pc = "set"]
    OBVIOUS
  <2>2. Goto(s, r)
    BY <1>1, <1>4, <2>1 DEF MaintenancePreflight
  <2>3. /\ r \in RequestRow /\ r.kind = "enter" /\ r.pc = "set" /\ r.node = q.node
        /\ r.expected = q.expected /\ r.upgrade = q.upgrade
    BY <1>2, <2>1 DEF RequestRow, Call
  <2>4. RequestSound(r)
    BY <1>2, <2>3 DEF RequestSound
  <2> QED
    BY <1>2, <2>2, <2>3, <2>4, GotoKeeps
<1> QED
  BY <1>3, <1>4

(* Reading the version shows the target only where TargetsNoticed has it   *)
(* as reached.                                                             *)
LEMMA ObserveVersionInv ==
  ASSUME IInv, NEW s \in Slot, ObserveVersion(s)
  PROVE  IInv'
<1>1. PICK q : q = req[s]
  OBVIOUS
<1>2. /\ q \in RequestRow /\ RequestSound(q) /\ q.kind = "complete" /\ q.pc = "version"
      /\ UNCHANGED <<nodes, Others>>
  BY <1>1, SlotType DEF ObserveVersion, At
<1>3. PICK pc \in {"finish", "return"} :
        /\ Goto(s, [q EXCEPT !.pc = pc])
        /\ pc = "return" => installed[q.node] = upgrades[q.upgrade].target
  BY <1>1 DEF ObserveVersion
<1>4. PICK r : r = [q EXCEPT !.pc = pc]
  OBVIOUS
<1>5. /\ r \in RequestRow /\ r.kind = "complete" /\ r.pc = pc /\ r.node = q.node
      /\ r.expected = q.expected /\ r.upgrade = q.upgrade /\ r.flag = q.flag
  BY <1>2, <1>4 DEF RequestRow, Call
<1>6. pc = "return" => q.upgrade \in reached
  BY <1>2, <1>3 DEF IInv, TargetsNoticed, RequestSound
<1>7. RequestSound(r)
  BY <1>2, <1>5, <1>6 DEF RequestSound
<1> QED
  BY <1>2, <1>3, <1>4, <1>5, <1>7, GotoKeeps

(* A completion that has seen the target goes on to end maintenance. *)
LEMMA ReturnUpgradedInv ==
  ASSUME IInv, NEW s \in Slot, ReturnUpgraded(s)
  PROVE  IInv'
<1>1. PICK q : q = req[s]
  OBVIOUS
<1>2. /\ q \in RequestRow /\ RequestSound(q) /\ q.kind = "complete" /\ q.pc = "return"
      /\ UNCHANGED <<nodes, Others>>
  BY <1>1, SlotType DEF ReturnUpgraded, At
<1>3. q.node \in Node /\ q.upgrade \in reached
  BY <1>2 DEF RequestSound
<1>4. /\ nodes[q.node].rv \in 0 .. MaxRecord /\ nodes[q.node].rv \in Nat /\ 1 \in 0 .. Len(Gather) + 1
  BY <1>3, RecordVersion, LifecycleConstants, GatherLength, SMTT(30)
<1>5. PICK r : /\ Goto(s, r)
               /\ \/ r = [q EXCEPT !.pc = "finish"]
                  \/ r = [q EXCEPT !.pc = "validate", !.read = nodes[q.node].rv, !.check = 1]
                  \/ r = [q EXCEPT !.pc = "finish", !.flag = TRUE]
  BY <1>1 DEF ReturnUpgraded
<1>6. /\ r \in RequestRow /\ r.kind = "complete" /\ r.node = q.node
      /\ r.expected = q.expected /\ r.upgrade = q.upgrade
      /\ \/ r.pc = "finish"
         \/ r.pc = "validate" /\ r.read = nodes[q.node].rv /\ r.check = 1
  <2>1. CASE r = [q EXCEPT !.pc = "finish"]
    BY <1>2, <2>1 DEF RequestRow, Call
  <2>2. CASE r = [q EXCEPT !.pc = "validate", !.read = nodes[q.node].rv, !.check = 1]
    BY <1>2, <1>4, <2>2 DEF RequestRow, Call
  <2>3. CASE r = [q EXCEPT !.pc = "finish", !.flag = TRUE]
    BY <1>2, <2>3 DEF RequestRow, Call
  <2> QED
    BY <1>5, <2>1, <2>2, <2>3
<1>7. RequestSound(r)
  BY <1>2, <1>3, <1>4, <1>6, SMTT(30) DEF RequestSound
<1> QED
  BY <1>2, <1>5, <1>6, <1>7, GotoKeeps

(* A check may store a probe result. *)
LEMMA ValidateInv ==
  ASSUME IInv, NEW s \in Slot, Validate(s)
  PROVE  IInv'
<1>1. PICK q : q = req[s]
  OBVIOUS
<1>2. /\ q \in RequestRow /\ RequestSound(q) /\ q.pc = "validate" /\ q.check <= 4
      /\ q.check \in 1 .. 4 /\ q.node \in Node
      /\ UNCHANGED <<nodes, settings, upgrades, world, reached, changes>>
  BY <1>1, SlotType, GatherLength, SMTT(30) DEF Validate, RequestSound, RequestRow
<1>3. PICK failed : failed = q.failed \cup Failed(q.node, Gather[q.check])
  OBVIOUS
<1>4. failed \in SUBSET (Defect \cup {"dhcp"})
  <2>1. q.failed \in SUBSET (Defect \cup {"dhcp"})
    BY <1>2 DEF RequestRow
  <2>2. failing[q.node] \in SUBSET Defect
    BY <1>2 DEF IInv, TypeOK
  <2>3. Gather[q.check] \in {"api", "observation", "dns", "database"}
    BY <1>2, SMTT(30) DEF Gather
  <2>4. Failed(q.node, Gather[q.check]) \in SUBSET (Defect \cup {"dhcp"})
    BY <2>2, <2>3 DEF Failed, ObservationChecks, CollectorChecks, Defect
  <2> QED
    BY <1>3, <2>1, <2>4
<1>5. PICK check : check = q.check + 1
  OBVIOUS
<1>6. check \in 0 .. Len(Gather) + 1 /\ 1 <= check
  BY <1>2, <1>5, GatherLength, SMTT(30)
<1>7. PICK r : r = [q EXCEPT !.check = check, !.failed = failed]
  OBVIOUS
<1>8. /\ r \in RequestRow /\ r.kind = q.kind /\ r.pc = "validate" /\ r.node = q.node /\ r.read = q.read
      /\ r.expected = q.expected /\ r.upgrade = q.upgrade /\ r.flag = q.flag /\ r.check = check
  BY <1>2, <1>4, <1>6, <1>7 DEF RequestRow
<1>9. RequestSound(r)
  BY <1>2, <1>6, <1>8 DEF RequestSound
<1>10. req' = [req EXCEPT ![s] = r]
  BY <1>1, <1>3, <1>5, <1>7 DEF Validate, Goto
<1>11. probed' \in [Node -> BOOLEAN]
  BY <1>1, <1>2 DEF Validate, IInv, TypeOK
<1>12. TypeOK'
  BY <1>2, <1>8, <1>10, <1>11 DEF IInv, TypeOK, world
<1>13. RequestsSound'
  BY <1>2, <1>9, <1>10, SMTT(30) DEF IInv, TypeOK, RequestsSound, RequestSound, world
<1>14. NewRows' /\ TargetsNoticed' /\ DisabledIsDisabled' /\ UpgradeReachedTarget'
  BY <1>2 DEF IInv, NewRows, TargetsNoticed, DisabledIsDisabled, UpgradeReachedTarget, world
<1> QED
  BY <1>12, <1>13, <1>14 DEF IInv

-----------------------------------------------------------------------------
\* Steps that write the nodes table

(* What ends a request, as WriteKeeps asks for it. *)
LEMMA DoneEnds ==
  ASSUME IInv, NEW s \in Slot, Done(s)
  PROVE  req' \in [Slot -> RequestRow] /\ \A t \in Slot : req'[t] \in {req[t], Idle}
BY IdleSound DEF Done, IInv, TypeOK

(* The row of a registered node is disabled exactly if it is not enabled. *)
LEMMA RowConsistent ==
  ASSUME IInv, NEW n \in Node
  PROVE  (nodes[n].health = "disabled") <=> ~nodes[n].enabled
BY DEF IInv, DisabledIsDisabled

(* SetNodeMaintenance writes a new version of the row, on the version      *)
(* expected.                                                               *)
LEMMA MaintenanceWrite ==
  ASSUME IInv, NEW n \in Node, NEW on \in BOOLEAN, NEW e, SetNodeMaintenance(n, on, e)
  PROVE  \E row \in NodeRow :
           /\ nodes' = [nodes EXCEPT ![n] = row] /\ row.present /\ row.rv = nodes[n].rv + 1
           /\ row.health = nodes[n].health /\ row.enabled = nodes[n].enabled
           /\ row.maintenance = on /\ nodes[n].rv = e
<1>1. PICK old : old = nodes[n]
  OBVIOUS
<1>2. old \in NodeRow /\ old.present /\ old.rv = e /\ old.rv < MaxRecord /\ old.rv \in Nat
  BY <1>1, RecordVersion DEF SetNodeMaintenance, CanWrite, Conflict, Stored
<1>3. PICK rv : rv = old.rv + 1
  OBVIOUS
<1>4. rv \in 1 .. MaxRecord
  BY <1>2, <1>3, LifecycleConstants, SMTT(30)
<1>5. PICK row : row = [old EXCEPT !.maintenance = on, !.rv = rv]
  OBVIOUS
<1>6. /\ row \in NodeRow /\ row.present /\ row.rv = rv /\ row.health = old.health
      /\ row.enabled = old.enabled /\ row.maintenance = on
  BY <1>2, <1>4, <1>5 DEF NodeRow
<1>7. nodes \in [Node -> NodeRow]
  BY DEF IInv, TypeOK
<1>8. nodes' = [nodes EXCEPT ![n] = row]
  <2>1. nodes' = [nodes EXCEPT ![n].maintenance = on, ![n].rv = @ + 1]
    BY DEF SetNodeMaintenance
  <2>2. nodes' = [nodes EXCEPT ![n] = [nodes[n] EXCEPT !.maintenance = on, !.rv = nodes[n].rv + 1]]
    BY <1>7, <2>1 DEF NodeRow
  <2> QED
    BY <1>1, <1>3, <1>5, <2>2
<1> QED
  BY <1>1, <1>2, <1>3, <1>6, <1>8

(* The write of the maintenance workflow keeps the invariant. *)
LEMMA SetMaintenanceInv ==
  ASSUME IInv, NEW s \in Slot, SetMaintenance(s)
  PROVE  IInv'
<1>1. PICK n \in Node : n = req[s].node
  BY SlotType DEF SetMaintenance, At, RequestSound
<1>2. Done(s) /\ UNCHANGED Others
  BY DEF SetMaintenance
<1>3. CASE UNCHANGED nodes
  BY <1>2, <1>3, DoneKeeps
<1>4. CASE SetNodeMaintenance(n, TRUE, req[s].expected)
  <2>1. PICK row \in NodeRow :
          /\ nodes' = [nodes EXCEPT ![n] = row] /\ row.present /\ row.rv = nodes[n].rv + 1
          /\ row.health = nodes[n].health /\ row.enabled = nodes[n].enabled
    BY <1>4, MaintenanceWrite
  <2>2. nodes[n].rv <= row.rv /\ ((row.health = "disabled") <=> ~row.enabled)
    BY <2>1, RecordVersion, RowConsistent, SMTT(30)
  <2>3. cluster' \in [deployment : BOOLEAN, dhcp : SUBSET Node, drift : SUBSET Node]
    BY <1>2 DEF Others, world, IInv, TypeOK
  <2> QED
    BY <1>2, <2>1, <2>2, <2>3, DoneEnds, WriteKeeps DEF Others, world
<1> QED
  BY <1>1, <1>3, <1>4 DEF SetMaintenance

(* A poll and a test write a health that fits the row as it is then. *)
LEMMA WriteHealthInv ==
  ASSUME IInv, NEW s \in Slot, WriteHealth(s)
  PROVE  IInv'
<1>1. PICK q : q = req[s]
  OBVIOUS
<1>2. /\ q \in RequestRow /\ RequestSound(q) /\ q.kind \in {"poll", "test"}
      /\ Done(s) /\ UNCHANGED Others
  BY <1>1, SlotType DEF WriteHealth
<1>3. PICK n \in Node : n = q.node
  BY <1>2 DEF RequestSound
<1>4. CASE UNCHANGED nodes
  BY <1>2, <1>4, DoneKeeps
<1>5. CASE ~UNCHANGED nodes
  <2>1. PICK health \in {"healthy", "unreachable", "disabled"} :
          /\ nodes[n].present /\ (health = "disabled" <=> ~nodes[n].enabled)
          /\ nodes' = [nodes EXCEPT ![n].health = health, ![n].version = q.version]
    <3>1. Health(q) \in {"healthy", "unreachable"}
      BY DEF Health
    <3>2. CASE q.kind = "poll"
      BY <1>1, <1>3, <1>5, <3>1, <3>2 DEF WriteHealth, UpdateNodeHealth, Stored
    <3>3. CASE q.kind = "test"
      BY <1>1, <1>3, <1>5, <3>1, <3>3 DEF WriteHealth, RecordNodeTestResult, Stored
    <3> QED
      BY <1>2, <3>2, <3>3
  <2>2. PICK old : old = nodes[n]
    OBVIOUS
  <2>3. old \in NodeRow /\ q.version \in 1 .. MaxVersion
    BY <1>2, <2>2, RecordVersion DEF RequestSound
  <2>4. PICK row : row = [old EXCEPT !.health = health, !.version = q.version]
    OBVIOUS
  <2>5. /\ row \in NodeRow /\ row.present = old.present /\ row.rv = old.rv /\ row.health = health
        /\ row.enabled = old.enabled
    BY <2>3, <2>4 DEF NodeRow
  <2>6. nodes' = [nodes EXCEPT ![n] = row]
    <3>1. nodes \in [Node -> NodeRow]
      BY DEF IInv, TypeOK
    <3> QED
      BY <2>1, <2>2, <2>4, <3>1
  <2>7. row.present /\ nodes[n].rv <= row.rv /\ ((row.health = "disabled") <=> ~row.enabled)
    BY <2>1, <2>2, <2>5, RecordVersion, SMTT(30)
  <2>8. cluster' \in [deployment : BOOLEAN, dhcp : SUBSET Node, drift : SUBSET Node]
    BY <1>2 DEF Others, world, IInv, TypeOK
  <2> QED
    BY <1>2, <2>5, <2>6, <2>7, <2>8, DoneEnds, WriteKeeps DEF Others, world
<1> QED
  BY <1>4, <1>5

(* The conditional write of an update keeps the invariant. *)
LEMMA UpdateNodeInv ==
  ASSUME IInv, NEW s \in Slot, UpdateNode(s)
  PROVE  IInv'
<1>1. PICK q : q = req[s]
  OBVIOUS
<1>2. /\ q \in RequestRow /\ RequestSound(q) /\ q.kind = "update" /\ Done(s) /\ UNCHANGED Others
  BY <1>1, SlotType DEF UpdateNode, At
<1>3. PICK n \in Node : n = q.node
  BY <1>2 DEF RequestSound
<1>4. CASE UNCHANGED nodes
  BY <1>2, <1>4, DoneKeeps
<1>5. CASE ~UNCHANGED nodes
  <2>1. PICK old : old = nodes[n]
    OBVIOUS
  <2>2. PICK health : health = IF q.flag THEN "healthy" ELSE "disabled"
    OBVIOUS
  <2>3. /\ CanWrite(n, q.expected)
        /\ nodes' = [nodes EXCEPT ![n].enabled = q.flag, ![n].rv = @ + 1, ![n].health = health,
                                  ![n].version = q.version]
    BY <1>1, <1>3, <1>5, <2>2 DEF UpdateNode
  <2>4. /\ old \in NodeRow /\ old.present /\ old.rv < MaxRecord /\ old.rv \in Nat
        /\ q.version \in 1 .. MaxVersion /\ q.flag \in BOOLEAN
    BY <1>2, <2>1, <2>3, RecordVersion DEF RequestSound, RequestRow, CanWrite, Conflict, Stored
  <2>5. PICK rv : rv = old.rv + 1
    OBVIOUS
  <2>6. rv \in 1 .. MaxRecord /\ old.rv <= rv
    BY <2>4, <2>5, LifecycleConstants, SMTT(30)
  <2>7. PICK row : row = [old EXCEPT !.enabled = q.flag, !.rv = rv, !.health = health, !.version = q.version]
    OBVIOUS
  <2>8. health \in {"healthy", "unreachable", "disabled"} /\ (health = "disabled" <=> ~q.flag)
    BY <2>2, <2>4
  <2>9. /\ row \in NodeRow /\ row.present = old.present /\ row.rv = rv /\ row.health = health
        /\ row.enabled = q.flag
    BY <2>4, <2>6, <2>7, <2>8 DEF NodeRow
  <2>10. nodes' = [nodes EXCEPT ![n] = row]
    <3>1. nodes \in [Node -> NodeRow]
      BY DEF IInv, TypeOK
    <3>2. nodes' = [nodes EXCEPT ![n] = [nodes[n] EXCEPT !.enabled = q.flag, !.rv = nodes[n].rv + 1,
                                                         !.health = health, !.version = q.version]]
      BY <2>3, <3>1 DEF NodeRow
    <3> QED
      BY <2>1, <2>5, <2>7, <3>2
  <2>11. cluster' \in [deployment : BOOLEAN, dhcp : SUBSET Node, drift : SUBSET Node]
    BY <1>2 DEF Others, world, IInv, TypeOK
  <2>12. row.present /\ nodes[n].rv <= row.rv /\ ((row.health = "disabled") <=> ~row.enabled)
    BY <2>1, <2>4, <2>6, <2>8, <2>9
  <2> QED
    BY <1>2, <2>9, <2>10, <2>11, <2>12, DoneEnds, WriteKeeps DEF Others, world
<1> QED
  BY <1>4, <1>5

(* A node is registered with the health its enabled flag demands. *)
LEMMA CreateNodeInv ==
  ASSUME IInv, NEW n \in Node, NEW enabled \in BOOLEAN, CreateNode(n, enabled)
  PROVE  IInv'
<1>1. PICK old : old = NoNode
  OBVIOUS
<1>2. old \in NodeRow /\ old.rv = 1
  BY <1>1, LifecycleConstants, SMTT(30) DEF NoNode, NodeRow
<1>3. PICK health : health = IF enabled THEN "healthy" ELSE "disabled"
  OBVIOUS
<1>4. PICK row : row = [old EXCEPT !.present = TRUE, !.enabled = enabled, !.version = installed[n],
                                   !.health = health]
  OBVIOUS
<1>5. /\ health \in {"healthy", "unreachable", "disabled"} /\ (health = "disabled" <=> ~enabled)
      /\ installed[n] \in 1 .. MaxVersion
  BY <1>3 DEF IInv, TypeOK
<1>6. /\ row \in NodeRow /\ row.present /\ row.rv = 1 /\ row.health = health /\ row.enabled = enabled
  BY <1>2, <1>4, <1>5 DEF NodeRow
<1>7. nodes' = [nodes EXCEPT ![n] = row]
  BY <1>1, <1>3, <1>4 DEF CreateNode, InsertNode
<1>8. nodes[n].rv <= row.rv /\ ((row.health = "disabled") <=> ~row.enabled)
  <2>1. nodes[n] = NoNode
    BY DEF CreateNode, IInv, NewRows
  <2> QED
    BY <1>1, <1>2, <1>5, <1>6, <2>1, SMTT(30)
<1>9. cluster' \in [deployment : BOOLEAN, dhcp : SUBSET Node, drift : SUBSET Node] /\ req' \in [Slot -> RequestRow]
  BY DEF CreateNode, world, IInv, TypeOK
<1> QED
  BY <1>6, <1>7, <1>8, <1>9, WriteKeeps DEF CreateNode, world

(* A removed node is disabled, and shown so. *)
LEMMA DeleteNodeInv ==
  ASSUME IInv, NEW n \in Node, DeleteNode(n)
  PROVE  IInv'
<1>1. PICK old : old = nodes[n]
  OBVIOUS
<1>2. /\ old \in NodeRow /\ old.present /\ old.rv < MaxRecord /\ old.rv \in Nat
  BY <1>1, RecordVersion DEF DeleteNode, SoftDeleteNode, CanWrite, Conflict, Stored
<1>3. PICK rv : rv = old.rv + 1
  OBVIOUS
<1>4. rv \in 1 .. MaxRecord /\ old.rv <= rv
  BY <1>2, <1>3, LifecycleConstants, SMTT(30)
<1>5. PICK row : row = [old EXCEPT !.enabled = FALSE, !.health = "disabled", !.deleted = TRUE, !.rv = rv]
  OBVIOUS
<1>6. /\ row \in NodeRow /\ row.present = old.present /\ row.rv = rv /\ row.health = "disabled"
      /\ row.enabled = FALSE
  BY <1>2, <1>4, <1>5 DEF NodeRow
<1>7. nodes' = [nodes EXCEPT ![n] = row]
  <2>1. nodes \in [Node -> NodeRow]
    BY DEF IInv, TypeOK
  <2>2. nodes' = [nodes EXCEPT ![n] = [nodes[n] EXCEPT !.enabled = FALSE, !.health = "disabled",
                                                       !.deleted = TRUE, !.rv = nodes[n].rv + 1]]
    BY <2>1 DEF DeleteNode, SoftDeleteNode, NodeRow
  <2> QED
    BY <1>1, <1>3, <1>5, <2>2
<1>8. cluster' \in [deployment : BOOLEAN, dhcp : SUBSET Node, drift : SUBSET Node] /\ req' \in [Slot -> RequestRow]
  BY DEF DeleteNode, SoftDeleteNode, IInv, TypeOK
<1>9. row.present /\ nodes[n].rv <= row.rv /\ ((row.health = "disabled") <=> ~row.enabled)
  BY <1>1, <1>2, <1>4, <1>6
<1> QED
  BY <1>6, <1>7, <1>8, <1>9, WriteKeeps DEF DeleteNode

(* The end of a return: the request of a completion goes on to record the  *)
(* outcome of an upgrade whose target was reached.                         *)
LEMMA ConcludeSound ==
  ASSUME IInv, NEW s \in Slot, NEW ok \in BOOLEAN, req[s].pc = "validate", Conclude(s, ok)
  PROVE  \E r \in RequestRow : RequestSound(r) /\ Goto(s, r)
<1>1. PICK q : q = req[s]
  OBVIOUS
<1>2. q \in RequestRow /\ RequestSound(q) /\ q.pc = "validate"
  BY <1>1, SlotType
<1>3. CASE q.upgrade = None
  BY <1>1, <1>3, IdleSound DEF Conclude, Done, Goto
<1>4. CASE q.upgrade # None
  <2>1. PICK r : r = [q EXCEPT !.pc = "finish", !.flag = ok]
    OBVIOUS
  <2>2. /\ r \in RequestRow /\ r.kind = q.kind /\ r.pc = "finish" /\ r.node = q.node
        /\ r.expected = q.expected /\ r.upgrade = q.upgrade /\ r.version = q.version
    BY <1>2, <2>1 DEF RequestRow, Call
  <2>3. q.kind = "complete" /\ q.upgrade \in reached
    BY <1>2, <1>4 DEF RequestSound
  <2>4. RequestSound(r)
    BY <1>2, <2>2, <2>3 DEF RequestSound
  <2> QED
    BY <1>1, <1>4, <2>1, <2>2, <2>4 DEF Conclude
<1> QED
  BY <1>3, <1>4

(* The write that ends maintenance keeps the invariant. *)
LEMMA ReturnToServiceInv ==
  ASSUME IInv, NEW s \in Slot, ReturnToService(s)
  PROVE  IInv'
<1>1. PICK n \in Node : n = req[s].node
  BY SlotType DEF ReturnToService, RequestSound
<1>2. req[s].pc = "validate" /\ UNCHANGED Others
  BY DEF ReturnToService
<1>3. PICK ok \in BOOLEAN : Conclude(s, ok)
  BY DEF ReturnToService
<1>4. PICK r \in RequestRow : RequestSound(r) /\ Goto(s, r)
  BY <1>2, <1>3, ConcludeSound
<1>5. CASE UNCHANGED nodes
  BY <1>2, <1>4, <1>5, GotoKeeps
<1>6. CASE SetNodeMaintenance(n, FALSE, req[s].expected)
  <2>1. PICK row \in NodeRow :
          /\ nodes' = [nodes EXCEPT ![n] = row] /\ row.present /\ row.rv = nodes[n].rv + 1
          /\ row.health = nodes[n].health /\ row.enabled = nodes[n].enabled
    BY <1>6, MaintenanceWrite
  <2>2. nodes[n].rv <= row.rv /\ ((row.health = "disabled") <=> ~row.enabled)
    BY <2>1, RecordVersion, RowConsistent, SMTT(30)
  <2>3. cluster' \in [deployment : BOOLEAN, dhcp : SUBSET Node, drift : SUBSET Node]
    BY <1>2 DEF Others, world, IInv, TypeOK
  <2>4. req' \in [Slot -> RequestRow] /\ \A t \in Slot : req'[t] = req[t] \/ req'[t] = r
    BY <1>4 DEF Goto, IInv, TypeOK
  <2>5. TypeOK' /\ RowsAdvance
    BY <1>2, <2>1, <2>2, <2>3, <2>4, RecordVersion, SMTT(30) DEF Others, world, IInv, TypeOK, RowsAdvance
  <2>6. RequestSound(r)'
    BY <1>4, <2>5, SoundWhileAdvancing
  <2>7. \A t \in Slot : req'[t] \in {req[t], Idle} \/ RequestSound(req[t])'
    BY <2>4, <2>6 DEF RequestSound
  <2> QED
    BY <1>2, <2>1, <2>2, <2>3, <2>4, <2>7, WriteKeeps DEF Others, world
<1> QED
  BY <1>1, <1>5, <1>6 DEF ReturnToService

-----------------------------------------------------------------------------
\* Steps that write the upgrades, and faults

(* A step that ends requests and writes upgrades. *)
LEMMA UpgradeKeeps ==
  ASSUME IInv, NEW s \in Slot, Done(s), upgrades' \in [Upgrade -> UpgradeRow], reached' \subseteq Upgrade,
         \A u \in Upgrade : upgrades[u].status # "none" =>
           /\ upgrades'[u].status # "none"
           /\ upgrades'[u].node = upgrades[u].node /\ upgrades'[u].target = upgrades[u].target,
         reached \subseteq reached', TargetsNoticed', UpgradeReachedTarget',
         UNCHANGED <<nodes, settings, probed, world, changes>>
  PROVE  IInv'
<1>1. TypeOK'
  BY DoneEnds DEF IInv, TypeOK, world
<1>2. RowsAdvance
  BY RecordVersion, SMTT(30) DEF RowsAdvance
<1>3. RequestsSound'
  BY <1>1, <1>2, DoneEnds, RequestsStaySound
<1>4. NewRows' /\ DisabledIsDisabled'
  BY DEF IInv, NewRows, DisabledIsDisabled
<1> QED
  BY <1>1, <1>3, <1>4 DEF IInv

(* A new upgrade may find its node at the target already. *)
LEMMA CreateUpgradeInv ==
  ASSUME IInv, NEW s \in Slot, NEW u \in Upgrade, CreateUpgrade(s, u)
  PROVE  IInv'
<1>1. PICK q : q = req[s]
  OBVIOUS
<1>2. /\ q.node \in Node /\ q.version \in 1 .. MaxVersion /\ Done(s)
      /\ UNCHANGED <<nodes, settings, probed, world, changes>>
  BY <1>1, SlotType DEF CreateUpgrade, At, RequestSound
<1>3. CASE UNCHANGED <<upgrades, reached>>
  BY <1>2, <1>3, DoneKeeps DEF Others
<1>4. CASE /\ upgrades' = [upgrades EXCEPT ![u] =
                  [status |-> "awaiting_operator", node |-> q.node, target |-> q.version]]
           /\ reached' = IF installed[q.node] = q.version THEN reached \cup {u} ELSE reached
  <2>1. PICK row : row = [status |-> "awaiting_operator", node |-> q.node, target |-> q.version]
    OBVIOUS
  <2>2. /\ row \in UpgradeRow /\ row.status = "awaiting_operator" /\ row.node = q.node
        /\ row.target = q.version
    BY <1>2, <2>1 DEF UpgradeRow, Active
  <2>3. upgrades \in [Upgrade -> UpgradeRow] /\ reached \subseteq Upgrade /\ upgrades[u].status = "none"
    BY DEF IInv, TypeOK, CreateUpgrade
  <2>4. upgrades' = [upgrades EXCEPT ![u] = row]
    BY <1>4, <2>1
  <2>5. /\ upgrades' \in [Upgrade -> UpgradeRow] /\ reached' \subseteq Upgrade
        /\ reached \subseteq reached'
    BY <1>4, <2>2, <2>3, <2>4
  <2>6. \A v \in Upgrade : upgrades'[v] = IF v = u THEN row ELSE upgrades[v]
    BY <2>3, <2>4
  <2>7. TargetsNoticed'
    BY <1>2, <1>4, <2>2, <2>5, <2>6 DEF IInv, TargetsNoticed, world
  <2>8. UpgradeReachedTarget'
    BY <2>2, <2>5, <2>6 DEF IInv, UpgradeReachedTarget
  <2> QED
    BY <1>2, <2>3, <2>5, <2>6, <2>7, <2>8, UpgradeKeeps
<1> QED
  BY <1>1, <1>3, <1>4 DEF CreateUpgrade

(* A completion records success only after the target was observed. *)
LEMMA CompleteUpgradeInv ==
  ASSUME IInv, NEW s \in Slot, CompleteUpgrade(s)
  PROVE  IInv'
<1>1. PICK q : q = req[s]
  OBVIOUS
<1>2. PICK u \in Upgrade : u = q.upgrade
  BY <1>1, SlotType DEF CompleteUpgrade, At, RequestSound
<1>3. /\ upgrades[u].status # "none" /\ (q.flag => u \in reached) /\ Done(s)
      /\ UNCHANGED <<nodes, settings, probed, world, reached, changes>>
  BY <1>1, <1>2, SlotType DEF CompleteUpgrade, At, RequestSound
<1>4. PICK status \in {"succeeded", "failed"} :
        /\ upgrades' = [upgrades EXCEPT ![u].status = status]
        /\ status = "succeeded" => q.flag
  BY <1>1, <1>2 DEF CompleteUpgrade
<1>5. upgrades \in [Upgrade -> UpgradeRow]
  BY DEF IInv, TypeOK
<1>6. PICK row : row = [upgrades[u] EXCEPT !.status = status]
  OBVIOUS
<1>7. /\ row \in UpgradeRow /\ row.status = status /\ row.node = upgrades[u].node
      /\ row.target = upgrades[u].target
  BY <1>5, <1>6 DEF UpgradeRow
<1>8. upgrades' = [upgrades EXCEPT ![u] = row]
  BY <1>4, <1>5, <1>6
<1>9. \A v \in Upgrade : upgrades'[v] = IF v = u THEN row ELSE upgrades[v]
  BY <1>5, <1>8
<1>10. upgrades' \in [Upgrade -> UpgradeRow]
  BY <1>5, <1>7, <1>8
<1>11. TargetsNoticed'
  BY <1>3, <1>7, <1>9 DEF IInv, TargetsNoticed, world
<1>12. UpgradeReachedTarget'
  BY <1>3, <1>4, <1>7, <1>9 DEF IInv, UpgradeReachedTarget
<1>13. reached' \subseteq Upgrade /\ reached \subseteq reached'
  BY <1>3 DEF IInv, TypeOK
<1>14. \A v \in Upgrade : upgrades[v].status # "none" =>
         /\ upgrades'[v].status # "none"
         /\ upgrades'[v].node = upgrades[v].node /\ upgrades'[v].target = upgrades[v].target
  BY <1>7, <1>9
<1> QED
  BY <1>3, <1>10, <1>11, <1>12, <1>13, <1>14, UpgradeKeeps

(* Failed requests and restarts lose requests, never rows. *)
LEMMA FaultsInv ==
  ASSUME IInv, Restart \/ \E s \in Slot : RequestFails(s)
  PROVE  IInv'
<1>1. changes' \in 0 .. MaxChanges
  BY LifecycleConstants, SMTT(30) DEF Restart, RequestFails, Change, IInv, TypeOK
<1>2. req' \in [Slot -> RequestRow] /\ \A t \in Slot : req'[t] \in {req[t], Idle}
  BY IdleSound, DoneEnds DEF Restart, RequestFails
<1>3. TypeOK'
  BY <1>1, <1>2 DEF Restart, RequestFails, world, IInv, TypeOK
<1> QED
  BY <1>2, <1>3, EndKeeps DEF Restart, RequestFails, world

-----------------------------------------------------------------------------
\* The theorems

(* The initial cluster satisfies the invariant. *)
LEMMA InitIInv == Init => IInv
<1> SUFFICES ASSUME Init PROVE IInv
  OBVIOUS
<1>1. NoNode \in NodeRow /\ NoNode.health = "disabled" /\ NoNode.enabled = FALSE
  BY LifecycleConstants, SMTT(30) DEF NoNode, NodeRow
<1>2. [rv |-> 0, guided |-> FALSE] \in [rv : 0 .. MaxSettings, guided : BOOLEAN]
  BY LifecycleConstants, SMTT(30)
<1>3. [status |-> "none", node |-> None, target |-> 1] \in UpgradeRow
  BY LifecycleConstants, SMTT(30) DEF UpgradeRow
<1>4. TypeOK
  BY <1>1, <1>2, <1>3, IdleSound, LifecycleConstants, SMTT(30) DEF Init, TypeOK
<1>5. RequestsSound
  BY IdleSound DEF Init, RequestsSound
<1>6. NewRows /\ DisabledIsDisabled
  BY <1>1 DEF Init, NewRows, DisabledIsDisabled
<1>7. TargetsNoticed /\ UpgradeReachedTarget
  BY DEF Init, TargetsNoticed, UpgradeReachedTarget
<1> QED
  BY <1>4, <1>5, <1>6, <1>7 DEF IInv

(* The first step of every request keeps the invariant. *)
LEMMA CallsInv ==
  ASSUME IInv, NEW s \in Slot, Calls(s)
  PROVE  IInv'
<1>1. ASSUME NEW n \in Node, BeginPoll(s, n) \/ BeginTest(s, n) PROVE IInv'
  BY <1>1, BeginPollTestInv
<1>2. ASSUME NEW n \in Node, NEW e \in Expected(n), NEW b \in BOOLEAN, BeginUpdate(s, n, b, e) PROVE IInv'
  BY <1>2, BeginUpdateInv
<1>3. ASSUME NEW n \in Node, NEW e \in Expected(n), NEW b \in BOOLEAN, EnterMaintenance(s, n, e, b) PROVE IInv'
  BY <1>3, EnterMaintenanceInv
<1>4. ASSUME NEW n \in Node, NEW e \in Expected(n), BeginReturn(s, n, e) PROVE IInv'
  BY <1>4, BeginReturnInv
<1>5. ASSUME NEW n \in Node, NEW v \in 1 .. MaxVersion, StartUpgrade(s, n, v) PROVE IInv'
  BY <1>5, StartUpgradeInv
<1>6. ASSUME NEW u \in Upgrade, upgrades[u].node # None, NEW e \in Expected(upgrades[u].node),
             BeginComplete(s, u, e)
      PROVE  IInv'
  BY <1>6, BeginCompleteInv
<1> QED
  BY <1>1, <1>2, <1>3, <1>4, <1>5, <1>6 DEF Calls

(* So does every later step of a request. *)
LEMMA StepsInv ==
  ASSUME IInv, NEW s \in Slot, Steps(s)
  PROVE  IInv'
BY ProbeStatusInv, WriteHealthInv, UpdateNodeInv, MaintenancePreflightInv, SetMaintenanceInv,
   ValidateInv, ReturnToServiceInv, ObserveVersionInv, ReturnUpgradedInv, CompleteUpgradeInv,
   CreateUpgradeInv DEF Steps

(* Every step keeps the invariant. *)
LEMMA NextIInv == IInv /\ [Next]_vars => IInv'
<1> SUFFICES ASSUME IInv, [Next]_vars PROVE IInv'
  OBVIOUS
<1>1. ASSUME NEW s \in Slot, Calls(s) \/ Steps(s) PROVE IInv'
  BY <1>1, CallsInv, StepsInv
<1>2. ASSUME NEW n \in Node, ProbeEvidence(n) \/ DeleteNode(n) PROVE IInv'
  BY <1>2, ProbeEvidenceInv, DeleteNodeInv
<1>3. ASSUME NEW n \in Node, NEW b \in BOOLEAN, CreateNode(n, b) \/ UpdateSettings(n, b) PROVE IInv'
  BY <1>3, CreateNodeInv, UpdateSettingsInv
<1>4. ASSUME NEW n \in Node, NEW c \in Defect, CheckChanges(n, c) PROVE IInv'
  BY <1>4, CheckChangesInv
<1>5. ASSUME NEW n \in Node, NEW v \in 1 .. MaxVersion, Install(n, v) PROVE IInv'
  BY <1>5, InstallInv
<1>6. CASE UNCHANGED vars
  <2>1. TypeOK'
    BY <1>6 DEF IInv, TypeOK, vars
  <2> QED
    BY <1>6, <2>1, EndKeeps DEF vars
<1> QED
  BY <1>1, <1>2, <1>3, <1>4, <1>5, <1>6, ClusterChangesInv, FaultsInv DEF Next

(* The inductive invariant holds: the rows are typed, requests expect and  *)
(* read versions the row has had, and completions know their target        *)
(* reached.                                                                *)
THEOREM Invariant == Spec => []IInv
BY InitIInv, NextIInv, PTL DEF Spec

(* A disabled or removed node is shown as disabled, whatever polls and     *)
(* tests end late: their statements look at the row, not at what was read. *)
THEOREM DisabledSafe == Spec => []DisabledIsDisabled
<1>1. IInv => DisabledIsDisabled
  BY DEF IInv
<1> QED
  BY Invariant, <1>1, PTL

(* An upgrade is recorded as succeeded only if its node has run the target *)
(* version since it was started, although UpdateUpgrade has no guard and   *)
(* any number of completions may run.                                      *)
THEOREM UpgradeSafe == Spec => []UpgradeReachedTarget
<1>1. IInv => UpgradeReachedTarget
  BY DEF IInv
<1> QED
  BY Invariant, <1>1, PTL

-----------------------------------------------------------------------------
\* Who ends maintenance

(* The step that ReturnOnCurrentEvidence asks for. *)
EvidenceStep ==
  \A n \in Node : nodes[n].maintenance /\ ~nodes'[n].maintenance
    => \E s \in Slot : /\ req[s].node = n /\ req[s].pc = "validate"
                       /\ req[s].failed = {} /\ req[s].check = Len(Gather) + 1
                       /\ req[s].read = nodes[n].rv

(* Where no node leaves maintenance there is nothing to show. *)
StaysInMaintenance == \A n \in Node : nodes[n].maintenance => nodes'[n].maintenance

(* A step by which no node leaves maintenance needs no evidence. *)
LEMMA StayingIsNoReturn == StaysInMaintenance => EvidenceStep
BY DEF StaysInMaintenance, EvidenceStep

(* A write of other columns. *)
LEMMA WritesStay ==
  ASSUME IInv, NEW s \in Slot, WriteHealth(s) \/ UpdateNode(s) \/ SetMaintenance(s)
  PROVE  StaysInMaintenance
<1>1. nodes \in [Node -> NodeRow]
  BY DEF IInv, TypeOK
<1>2. CASE WriteHealth(s)
  <2>1. PICK n : n = req[s].node
    OBVIOUS
  <2>2. CASE UNCHANGED nodes
    BY <2>2 DEF StaysInMaintenance
  <2>3. ASSUME NEW health, NEW version,
               nodes' = [nodes EXCEPT ![n].health = health, ![n].version = version]
        PROVE  StaysInMaintenance
    BY <1>1, <2>3 DEF StaysInMaintenance, NodeRow
  <2>4. CASE req[s].kind = "poll"
    BY <1>2, <2>1, <2>2, <2>3, <2>4, SMTT(30) DEF WriteHealth, UpdateNodeHealth
  <2>5. CASE req[s].kind = "test"
    <3>1. PICK health : health = IF nodes[n].enabled THEN Health(req[s]) ELSE "disabled"
      OBVIOUS
    <3>2. RecordNodeTestResult(n, Health(req[s]), req[s].version)
      BY <1>2, <2>1, <2>5 DEF WriteHealth
    <3>3. \/ UNCHANGED nodes
          \/ nodes' = [nodes EXCEPT ![n].health = health, ![n].version = req[s].version]
      BY <3>1, <3>2 DEF RecordNodeTestResult
    <3> QED
      BY <2>2, <2>3, <3>3
  <2> QED
    BY <1>2, <2>4, <2>5 DEF WriteHealth
<1>3. CASE UpdateNode(s)
  <2>1. PICK r : r = req[s]
    OBVIOUS
  <2>2. CASE UNCHANGED nodes
    BY <2>2 DEF StaysInMaintenance
  <2>3. CASE nodes' = [nodes EXCEPT ![r.node].enabled = r.flag, ![r.node].rv = @ + 1,
                         ![r.node].health = IF r.flag THEN "healthy" ELSE "disabled",
                         ![r.node].version = r.version]
    BY <1>1, <2>3, SMTT(30) DEF StaysInMaintenance, NodeRow
  <2> QED
    BY <1>3, <2>1, <2>2, <2>3 DEF UpdateNode
<1>4. CASE SetMaintenance(s)
  <2>1. PICK n : n = req[s].node
    OBVIOUS
  <2>2. CASE UNCHANGED nodes
    BY <2>2 DEF StaysInMaintenance
  <2>3. CASE nodes' = [nodes EXCEPT ![n].maintenance = TRUE, ![n].rv = @ + 1]
    BY <1>1, <2>3 DEF StaysInMaintenance, NodeRow
  <2> QED
    BY <1>4, <2>1, <2>2, <2>3 DEF SetMaintenance, SetNodeMaintenance
<1> QED
  BY <1>2, <1>3, <1>4

(* Registration finds a row that is not in maintenance, and removal leaves *)
(* the column alone.                                                       *)
LEMMA RegistrationStays ==
  ASSUME IInv, NEW n \in Node, DeleteNode(n) \/ \E b \in BOOLEAN : CreateNode(n, b)
  PROVE  StaysInMaintenance
<1>1. nodes \in [Node -> NodeRow]
  BY DEF IInv, TypeOK
<1>2. CASE DeleteNode(n)
  BY <1>1, <1>2 DEF DeleteNode, SoftDeleteNode, StaysInMaintenance, NodeRow
<1>3. ASSUME NEW b \in BOOLEAN, CreateNode(n, b) PROVE StaysInMaintenance
  <2>1. nodes[n] = NoNode
    BY <1>3 DEF CreateNode, IInv, NewRows
  <2>2. ~nodes[n].maintenance
    BY <2>1, SMTT(30) DEF NoNode
  <2> QED
    BY <1>1, <1>3, <2>2 DEF CreateNode, InsertNode, StaysInMaintenance
<1> QED
  BY <1>2, <1>3

(* The conditional write of the return: the row still has the version the  *)
(* client expects, and the request read one between the two.               *)
LEMMA ReturnHasEvidence ==
  ASSUME IInv, NEW s \in Slot, ReturnToService(s)
  PROVE  EvidenceStep
<1>1. CASE UNCHANGED nodes
  BY <1>1, StayingIsNoReturn DEF StaysInMaintenance
<1>2. CASE ~UNCHANGED nodes
  <2>1. PICK r : r = req[s]
    OBVIOUS
  <2>2. /\ r \in RequestRow /\ RequestSound(r) /\ r.pc = "validate" /\ r.check = Len(Gather) + 1
        /\ r.failed = {} /\ SetNodeMaintenance(r.node, FALSE, r.expected)
    BY <1>2, <2>1, SlotType DEF ReturnToService
  <2>3. PICK n \in Node : n = r.node
    BY <2>2 DEF RequestSound
  <2>4. nodes[n].rv = r.expected
    BY <2>2, <2>3 DEF SetNodeMaintenance, CanWrite, Conflict
  <2>5. r.expected <= r.read /\ r.read <= nodes[n].rv
    BY <2>2, <2>3 DEF RequestSound
  <2>6. r.read = nodes[n].rv
    BY <2>1, <2>4, <2>5, SlotType, SMTT(30)
  <2>7. \A m \in Node : m # n => nodes'[m] = nodes[m]
    BY <2>2, <2>3 DEF SetNodeMaintenance, IInv, TypeOK
  <2> QED
    BY <2>1, <2>2, <2>3, <2>6, <2>7 DEF EvidenceStep
<1> QED
  BY <1>1, <1>2

(* Every step by which a node leaves maintenance has its evidence. *)
LEMMA NextEvidence ==
  ASSUME IInv, [Next]_vars
  PROVE  EvidenceStep
<1>1. ASSUME UNCHANGED nodes PROVE EvidenceStep
  BY <1>1, StayingIsNoReturn DEF StaysInMaintenance
<1>2. ASSUME NEW s \in Slot, Calls(s) PROVE EvidenceStep
  <2>1. UNCHANGED nodes
    BY <1>2 DEF Calls, BeginPoll, BeginTest, BeginUpdate, EnterMaintenance, BeginReturn, StartUpgrade,
       BeginComplete
  <2> QED
    BY <1>1, <2>1
<1>3. ASSUME NEW s \in Slot,
             \/ ProbeStatus(s) \/ MaintenancePreflight(s) \/ Validate(s) \/ ObserveVersion(s)
             \/ ReturnUpgraded(s) \/ CompleteUpgrade(s) \/ RequestFails(s)
             \/ \E u \in Upgrade : CreateUpgrade(s, u)
      PROVE  EvidenceStep
  <2>1. UNCHANGED nodes
    BY <1>3 DEF ProbeStatus, MaintenancePreflight, Validate, ObserveVersion, ReturnUpgraded,
       CompleteUpgrade, RequestFails, CreateUpgrade
  <2> QED
    BY <1>1, <2>1
<1>4. ASSUME NEW s \in Slot, WriteHealth(s) \/ UpdateNode(s) \/ SetMaintenance(s) PROVE EvidenceStep
  BY <1>4, WritesStay, StayingIsNoReturn
<1>5. ASSUME NEW n \in Node, DeleteNode(n) \/ \E b \in BOOLEAN : CreateNode(n, b) PROVE EvidenceStep
  BY <1>5, RegistrationStays, StayingIsNoReturn
<1>6. ASSUME NEW n \in Node,
             \/ ProbeEvidence(n) \/ \E g \in BOOLEAN : UpdateSettings(n, g)
             \/ \E c \in Defect : CheckChanges(n, c)
             \/ \E v \in 1 .. MaxVersion : Install(n, v)
      PROVE  EvidenceStep
  <2>1. UNCHANGED nodes
    BY <1>6 DEF ProbeEvidence, UpdateSettings, CheckChanges, Install
  <2> QED
    BY <1>1, <2>1
<1>7. CASE ClusterChanges \/ Restart \/ UNCHANGED vars
  BY <1>1, <1>7 DEF ClusterChanges, Restart, vars
<1> QED
  BY <1>2, <1>3, <1>4, <1>5, <1>6, <1>7, ReturnHasEvidence DEF Next, Steps

(* Maintenance ends only by a request whose checks all passed and that     *)
(* found the node in this very period of maintenance: the conditional      *)
(* write refuses a request that has seen an earlier one.                   *)
THEOREM EvidenceSafe == Spec => ReturnOnCurrentEvidence
<1>1. IInv /\ [Next]_vars => [EvidenceStep]_vars
  BY NextEvidence
<1>2. Spec => [][EvidenceStep]_vars
  BY <1>1, Invariant, PTL DEF Spec
<1> QED
  BY <1>2, PTL DEF ReturnOnCurrentEvidence, EvidenceStep

=============================================================================
