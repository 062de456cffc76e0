---------------------- MODULE DriftReconciliationProofs ----------------------
(***************************************************************************)
(* Theorems about drift detection and enforcement, for every set of nodes, *)
(* revisions, deployments and events.  The invariant of the deployments    *)
(* carries over to the composition: the reconciler and RestoreDrift create *)
(* deployments beside the operators, and note convergence beside the       *)
(* executor.                                                               *)
(***************************************************************************)
EXTENDS DriftReconciliation, DeploymentsProofs

\* Zenon proves the steps that name no other prover.
USE ZenonT(30)

(* Event i is recorded, and it is about node n and revision r. *)
EventOf(i, r, n) ==
  /\ i \in DriftId /\ drift[i].status # "unused"
  /\ drift[i].desired = r /\ drift[i].node = n

(* Deployment d was created to enforce revision r on node n.  Until an     *)
(* event is linked to it, it may be deleted.                               *)
Enforcing(d, r, n) ==
  /\ deployments[d].status \in Active \cup Terminal
  /\ deployments[d].origin = "reconciliation"
  /\ deployments[d].revision = r /\ deployments[d].targets = <<n>>
CreatedFor(d, r, n) ==
  d \in Deployment /\ (deployments[d].status = "deleted" \/ Enforcing(d, r, n))

(* What the reconciler knows at each step of a pass, however stale the     *)
(* rest of what it read.                                                   *)
RecSound ==
  /\ rec.pc # "idle" => rec.revision \in Revision
  /\ rec.pc \notin {"idle", "check", "list", "next"} => rec.node \in Node
  /\ rec.pc = "resolve" => rec.observed = Effective(rec.revision, rec.node)
  /\ rec.pc \in {"noteDrifted", "upsert"} => rec.observed \in NodeState
  /\ rec.pc \in {"start", "create", "link", "linkFailed"} => EventOf(rec.drift, rec.revision, rec.node)
  /\ rec.pc = "link" => CreatedFor(rec.dep, rec.revision, rec.node)

(* The same for a RestoreDrift request. *)
RestoreSound ==
  /\ restore.pc # "idle" =>
       /\ restore.revision \in Revision /\ restore.node \in Node
       /\ EventOf(restore.drift, restore.revision, restore.node)
  /\ restore.pc = "link" => CreatedFor(restore.dep, restore.revision, restore.node)

DriftInv ==
  /\ Inv /\ DriftTypeOK /\ RecSound /\ RestoreSound /\ EnforcementTargetsDrift

-----------------------------------------------------------------------------
\* What the steps of the deployments do to a row that an event may link

(* A row keeps what it deploys. *)
RowKept(d) ==
  /\ deployments'[d].status \in Active \cup Terminal
  /\ deployments'[d].origin = deployments[d].origin
  /\ deployments'[d].revision = deployments[d].revision
  /\ deployments'[d].targets = deployments[d].targets

(* A write of the status and of the cancel flag keeps what is deployed. *)
LEMMA StatusWrite ==
  ASSUME Inv, NEW d \in Deployment, deployments[d].status \in Active \cup Terminal,
         NEW e, NEW status \in Active \cup Terminal, NEW flag,
         \/ deployments' = [deployments EXCEPT ![e].status = status]
         \/ deployments' = [deployments EXCEPT ![e].cancelRequested = flag, ![e].status = status]
  PROVE  RowKept(d)
<1>1. deployments[d] \in DeploymentRow /\ DOMAIN deployments = Deployment
  BY RowType DEF Inv, TypeOK
<1>2. PICK x : x = deployments[d]
  OBVIOUS
<1>3. \/ deployments'[d] = x
      \/ deployments'[d] = [x EXCEPT !.status = status]
      \/ deployments'[d] = [x EXCEPT !.cancelRequested = flag, !.status = status]
  BY <1>1, <1>2
<1>4. x \in DeploymentRow /\ x.status \in Active \cup Terminal
  BY <1>1, <1>2
<1>5. /\ deployments'[d].status \in Active \cup Terminal
      /\ deployments'[d].origin = x.origin /\ deployments'[d].revision = x.revision
      /\ deployments'[d].targets = x.targets
  BY <1>3, <1>4 DEF DeploymentRow
<1> QED
  BY <1>2, <1>5 DEF RowKept

(* The steps of the deployments but the one that deletes a row. *)
Keeping ==
  \/ \E r \in Revision, origin \in Origin : PreviewDeployment(r, origin)
  \/ \E q \in starts : CreateDeployment(q)
  \/ \E d \in Deployment : RequestDeploymentCancel(d)
  \/ NodeApi \/ Executor \/ Environment

(* A deployment that was inserted keeps its kind, revision and targets. *)
LEMMA RowsPersist ==
  ASSUME Inv, [Keeping]_vars, NEW d \in Deployment, deployments[d].status \in Active \cup Terminal
  PROVE  RowKept(d)
<1>1. ASSUME deployments'[d] = deployments[d] PROVE RowKept(d)
  BY <1>1 DEF RowKept
<1>2. ASSUME UNCHANGED deployments PROVE RowKept(d)
  BY <1>1, <1>2
<1>3. ASSUME NEW e \in Deployment, RequestDeploymentCancel(e) PROVE RowKept(d)
  <2>1. PICK status : status = IF deployments[e].status = "queued" THEN "cancelling" ELSE deployments[e].status
    OBVIOUS
  <2>2. status \in Active \cup Terminal
    BY <1>3, <2>1 DEF RequestDeploymentCancel, Active
  <2>3. deployments' = [deployments EXCEPT ![e].cancelRequested = TRUE, ![e].status = status]
    BY <1>3, <2>1 DEF RequestDeploymentCancel, Inv, TypeOK
  <2> QED
    BY <2>2, <2>3, StatusWrite
<1>4. ASSUME NEW e \in Deployment, NEW r, NEW origin, NEW s, InsertDeployment(e, r, origin, s)
      PROVE RowKept(d)
  <2>1. e # d
    BY <1>4, SMTT(30) DEF InsertDeployment, NoRow, Active, Terminal
  <2>2. DOMAIN deployments = Deployment
    BY DEF Inv, TypeOK
  <2> QED
    BY <1>1, <1>4, <2>1, <2>2 DEF InsertDeployment
<1>5. ASSUME \/ \E r \in Revision, origin \in Origin : PreviewDeployment(r, origin)
             \/ \E q \in starts : CreateDeployment(q)
      PROVE  RowKept(d)
  BY <1>2, <1>4, <1>5 DEF PreviewDeployment, CreateDeployment
<1>6. CASE NodeApi
  BY <1>2, <1>6 DEF NodeApi, UpdateNode, SoftDeleteNode, MaintenancePreflight, EnterMaintenance, ReturnToService
<1>7. CASE ClaimDeployment
  <2>1. PICK e \in Deployment :
          deployments' = [deployments EXCEPT ![e].status =
            IF deployments[e].cancelRequested THEN "cancelling" ELSE "validating"]
    BY <1>7 DEF ClaimDeployment
  <2>2. PICK status : status = IF deployments[e].cancelRequested THEN "cancelling" ELSE "validating"
    OBVIOUS
  <2>3. status \in Active \cup Terminal
    BY <2>2 DEF Active
  <2> QED
    BY <2>1, <2>2, <2>3, StatusWrite
<1>8. CASE SetDeploymentRunning
  <2>1. PICK status : status = IF deployments[exec.dep].status = "validating" THEN "running"
                               ELSE deployments[exec.dep].status
    OBVIOUS
  <2>2. exec.dep \in Deployment /\ deployments[exec.dep].status \in Active
    BY <1>8 DEF SetDeploymentRunning, Inv, ExecutorInv, ExecutorRow, Working, Active, row
  <2>3. status \in Active \cup Terminal
    BY <2>1, <2>2 DEF Active
  <2>4. deployments' = [deployments EXCEPT ![exec.dep].status = status]
    BY <1>8, <2>1, <2>2 DEF SetDeploymentRunning, Inv, TypeOK
  <2> QED
    BY <2>3, <2>4, StatusWrite
<1>9. CASE FinishDeployment
  <2>1. PICK status : status = exec.outcome
    OBVIOUS
  <2>2. status \in Active \cup Terminal
    BY <1>9, <2>1 DEF FinishDeployment, Inv, ExecutorInv, ExecutorRow, Working, Terminal
  <2>3. deployments' = [deployments EXCEPT ![exec.dep].status = status]
    BY <1>9, <2>1 DEF FinishDeployment
  <2> QED
    BY <2>2, <2>3, StatusWrite
<1>10. CASE ExecutorStep /\ ~SetDeploymentRunning
  BY <1>2, <1>10 DEF ExecutorStep, LoadDeployment, PrepareTarget, SafeBoundary, BeginTask, NoteApplying,
     ApplyConfiguration, MarkVerifying, NoteVerifying, ReadBack, SucceedTask, MarkNodeApplied, FailTask,
     NoteFailed, SkipTask
<1>11. CASE RepositoryFails \/ \E n \in Node : EditNode(n)
  BY <1>2, <1>11 DEF RepositoryFails, EditNode
<1>12. CASE Restart
  <2>1. PICK x : x = deployments[d]
    OBVIOUS
  <2>2. deployments'[d] = x \/ deployments'[d] = [x EXCEPT !.status = "interrupted"]
    BY <1>12, <2>1 DEF Restart, InterruptDeployments
  <2>3. x \in DeploymentRow
    BY <2>1, RowType DEF Inv
  <2>4. CASE deployments'[d] = [x EXCEPT !.status = "interrupted"]
    BY <2>1, <2>3, <2>4 DEF DeploymentRow, RowKept, Terminal
  <2> QED
    BY <1>1, <2>1, <2>2, <2>4
<1> QED
  BY <1>2, <1>3, <1>5, <1>6, <1>7, <1>8, <1>9, <1>10, <1>11, <1>12 DEF Keeping, Executor, Environment, vars

(* A deleted row is not used again. *)
LEMMA DeletedStays ==
  ASSUME Inv, [Next]_vars, NEW d \in Deployment, deployments[d].status = "deleted"
  PROVE  deployments'[d].status = "deleted"
<1>1. DOMAIN deployments = Deployment /\ (Working => exec.dep # d)
  BY DEF Inv, TypeOK, ExecutorInv, ExecutorRow, row
<1>2. CASE DeploymentApi
  <2>1. ASSUME NEW e \in Deployment, RequestDeploymentCancel(e) \/ DeleteUnstartedDeployment(e)
        PROVE  deployments'[d] = deployments[d]
    BY <1>1, <2>1 DEF RequestDeploymentCancel, DeleteUnstartedDeployment
  <2>2. ASSUME NEW e \in Deployment, NEW r, NEW origin, NEW s, InsertDeployment(e, r, origin, s)
        PROVE  deployments'[d] = deployments[d]
    <3>1. e # d
      BY <2>2, SMTT(30) DEF InsertDeployment, NoRow
    <3> QED
      BY <1>1, <2>2, <3>1 DEF InsertDeployment
  <2> QED
    BY <1>2, <2>1, <2>2 DEF DeploymentApi, PreviewDeployment, CreateDeployment
<1>3. CASE NodeApi
  BY <1>3 DEF NodeApi, UpdateNode, SoftDeleteNode, MaintenancePreflight, EnterMaintenance, ReturnToService
<1>4. CASE ClaimDeployment
  BY <1>1, <1>4 DEF ClaimDeployment
<1>5. CASE SetDeploymentRunning \/ FinishDeployment
  BY <1>1, <1>5 DEF SetDeploymentRunning, FinishDeployment, Working
<1>6. CASE ExecutorStep /\ ~SetDeploymentRunning
  BY <1>6 DEF ExecutorStep, LoadDeployment, PrepareTarget, SafeBoundary, BeginTask, NoteApplying,
     ApplyConfiguration, MarkVerifying, NoteVerifying, ReadBack, SucceedTask, MarkNodeApplied, FailTask,
     NoteFailed, SkipTask
<1>7. CASE RepositoryFails \/ \E n \in Node : EditNode(n)
  BY <1>7 DEF RepositoryFails, EditNode
<1>8. CASE Restart
  BY <1>8 DEF Restart, InterruptDeployments
<1> QED
  BY <1>2, <1>3, <1>4, <1>5, <1>6, <1>7, <1>8 DEF Next, Executor, Environment, vars

(* What a step of the composition may do to the rows and to the events:    *)
(* a deletion stays, a linked row is kept, an event stays an event of its  *)
(* node and revision.                                                      *)
RowsStep ==
  \A d \in Deployment :
    /\ deployments[d].status = "deleted" => deployments'[d].status = "deleted"
    /\ deployments[d].status \in Active \cup Terminal =>
         \/ RowKept(d)
         \/ /\ deployments'[d].status = "deleted"
            /\ \A i \in DriftId : drift[i].status # "unused" => drift[i].related # d
EventsStep ==
  \A i \in DriftId : drift[i].status # "unused" =>
    /\ drift'[i].status # "unused"
    /\ drift'[i].desired = drift[i].desired /\ drift'[i].node = drift[i].node

(* Every step but the deletion keeps the rows a link may name. *)
LEMMA KeepingRows ==
  ASSUME Inv, [Keeping]_vars
  PROVE  Inv' /\ RowsStep
<1>1. [Next]_vars
  BY DEF Keeping, Next, DeploymentApi
<1> QED
  BY <1>1, NextInv, RowsPersist, DeletedStays DEF RowsStep

(* The deletion takes a row to which no event links. *)
LEMMA DeletingRow ==
  ASSUME Inv, NEW d \in Deployment, DeleteUnlinkedDeployment(d)
  PROVE  Inv' /\ RowsStep
<1>1. [Next]_vars /\ DeleteUnstartedDeployment(d)
  BY DEF DeleteUnlinkedDeployment, Next, DeploymentApi
<1>2. deployments' = [deployments EXCEPT ![d] = NoRow("deleted")] /\ DOMAIN deployments = Deployment
  BY <1>1 DEF DeleteUnstartedDeployment, Inv, TypeOK
<1>3. NoRow("deleted").status = "deleted"
  BY DEF NoRow
<1>4. deployments'[d].status = "deleted" /\ \A e \in Deployment : e # d => deployments'[e] = deployments[e]
  BY <1>2, <1>3
<1> QED
  BY <1>1, <1>4, NextInv, DeletedStays DEF RowsStep, RowKept, DeleteUnlinkedDeployment

(* A targeted insert, of the reconciler or of RestoreDrift. *)
LEMMA InsertRows ==
  ASSUME Inv, NEW d \in Deployment, NEW r \in Revision, NEW n \in Node,
         InsertDeployment(d, r, "reconciliation", <<n>>),
         UNCHANGED <<nodes, activeRevision, config, observedDhcp, exec, starts, entering, written, lateStarts>>
  PROVE  Inv' /\ RowsStep /\ CreatedFor(d, r, n)'
<1>1. <<n>> \in Targets /\ OwnerLast(r, <<n>>)
  <2>1. 1 \in Position
    BY Bounds, SMTT(30) DEF Position
  <2>2. <<n>> \in [1 .. 1 -> Node]
    BY SMTT(30)
  <2>3. <<n>> \in Targets
    BY <2>1, <2>2 DEF Targets
  <2>4. DOMAIN <<n>> = {1}
    BY SMTT(30)
  <2> QED
    BY <2>3, <2>4, SMTT(30) DEF OwnerLast
<1>2. "reconciliation" \in Origin
  BY DEF Origin
<1>3. Inv'
  BY <1>1, <1>2, InsertInv
<1>4. PICK new : new = [status |-> "queued", origin |-> "reconciliation", revision |-> r,
                        targets |-> <<n>>, cancelRequested |-> FALSE]
  OBVIOUS
<1>5. /\ new.status = "queued" /\ new.origin = "reconciliation" /\ new.revision = r /\ new.targets = <<n>>
      /\ deployments[d].status = "unused"
  BY <1>4, SMTT(30) DEF InsertDeployment, NoRow
<1>6. deployments'[d] = new /\ \A e \in Deployment : e # d => deployments'[e] = deployments[e]
  BY <1>4 DEF InsertDeployment, Inv, TypeOK
<1>7. RowsStep
  BY <1>5, <1>6 DEF RowsStep, RowKept, Active, Terminal
<1>8. CreatedFor(d, r, n)'
  BY <1>5, <1>6 DEF CreatedFor, Enforcing, Active
<1> QED
  BY <1>3, <1>7, <1>8

(* The reconciler and a restore change no row otherwise. *)
LEMMA SameRows ==
  ASSUME UNCHANGED deployments
  PROVE  RowsStep
BY DEF RowsStep, RowKept

(* A step beside the deployments keeps their invariant. *)
LEMMA SameCluster ==
  ASSUME Inv, UNCHANGED vars
  PROVE  Inv'
BY NextInv

(* The reconciler notes convergence beside the executor. *)
LEMMA NoteKeeps ==
  ASSUME Inv, NEW n \in Node, NEW c \in Convergence, NoteNode(n, c),
         UNCHANGED <<deployments, tasks, activeRevision, config, observedDhcp, exec, starts, entering,
                     written, lateStarts>>
  PROVE  Inv'
<1>1. nodes \in [Node -> NodeRow]
  BY DEF Inv, TypeOK
<1>2. PICK x : x = [nodes[n] EXCEPT !.convergence = c]
  OBVIOUS
<1>3. x \in NodeRow /\ x.applied = nodes[n].applied
  BY <1>1, <1>2 DEF NodeRow
<1>4. nodes' = [nodes EXCEPT ![n] = x]
  BY <1>2 DEF NoteNode
<1>5. nodes' \in [Node -> NodeRow] /\ \A m \in Node : nodes'[m].applied = nodes[m].applied
  BY <1>1, <1>3, <1>4
<1>6. TypeOK' /\ \A q \in starts' : OwnerLast(q.revision, q.targets)
  BY <1>5 DEF Inv, TypeOK, DhcpOrdered
<1> QED
  BY <1>5, <1>6, Frame

(* A snapshot stored by the reconciler. *)
LEMMA ObservedKeeps ==
  ASSUME Inv, NEW n \in Node, observedDhcp' = Observed(n),
         UNCHANGED <<deployments, tasks, nodes, activeRevision, config, exec, starts, entering,
                     written, lateStarts>>
  PROVE  Inv'
<1>1. observedDhcp' \in SUBSET Node
  BY DEF Observed, Inv, TypeOK
<1>2. TypeOK' /\ \A q \in starts' : OwnerLast(q.revision, q.targets)
  BY <1>1 DEF Inv, TypeOK, DhcpOrdered
<1> QED
  BY <1>2, Frame

-----------------------------------------------------------------------------
\* What the steps do to the events

(* An identifier is a row or unused. *)
LEMMA EventType ==
  ASSUME DriftTypeOK, NEW i \in DriftId
  PROVE  /\ drift[i].status # "unused" => drift[i] \in DriftRow
         /\ drift[i] \in DriftRow => drift[i].status # "unused"
         /\ drift[i].status = "unused" => drift[i] = NoDrift
<1>1. drift[i] \in DriftRow \cup {NoDrift}
  BY DEF DriftTypeOK
<1>2. NoDrift.status = "unused"
  BY DEF NoDrift
<1> QED
  BY <1>1, <1>2 DEF DriftRow

(* Links that hold after a step: kept from before, none, or new and right. *)
LinkAfter(i) ==
  \/ /\ drift[i].status # "unused" /\ drift'[i].related = drift[i].related
     /\ drift'[i].reconciliation = "enforcing" => drift[i].related # None
  \/ drift'[i].related = None /\ drift'[i].reconciliation # "enforcing"
  \/ /\ drift'[i].related \in Deployment
     /\ Enforcing(drift[i].related, drift[i].desired, drift[i].node)'

(* Links hold after a step if each is an old one or was checked by the     *)
(* step.                                                                   *)
LEMMA LinksHold ==
  ASSUME DriftInv, RowsStep, EventsStep,
         \A i \in DriftId : drift'[i].status # "unused" => LinkAfter(i)
  PROVE  EnforcementTargetsDrift'
<1> SUFFICES ASSUME NEW i \in DriftId, drift'[i].status # "unused"
             PROVE  /\ drift'[i].reconciliation = "enforcing" => drift'[i].related # None
                    /\ drift'[i].related # None =>
                         Enforcing(drift[i].related, drift[i].desired, drift[i].node)'
  BY DEF EnforcementTargetsDrift, Enforcing
<1>1. CASE /\ drift[i].status # "unused" /\ drift'[i].related = drift[i].related
           /\ drift'[i].reconciliation = "enforcing" => drift[i].related # None
  <2>1. ASSUME drift[i].related # None
        PROVE  Enforcing(drift[i].related, drift[i].desired, drift[i].node)'
    <3>1. drift[i].related \in Deployment
      BY <1>1, <2>1, EventType DEF DriftInv, DriftRow
    <3>2. Enforcing(drift[i].related, drift[i].desired, drift[i].node)
      BY <1>1, <2>1 DEF DriftInv, EnforcementTargetsDrift, Enforcing
    <3>3. RowKept(drift[i].related)
      BY <1>1, <3>1, <3>2 DEF RowsStep, Enforcing
    <3> QED
      BY <1>1, <3>2, <3>3 DEF RowKept, Enforcing, EventsStep
  <2> QED
    BY <1>1, <2>1
<1>2. CASE drift'[i].related = None /\ drift'[i].reconciliation # "enforcing"
  BY <1>2
<1>3. CASE /\ drift'[i].related \in Deployment
           /\ Enforcing(drift[i].related, drift[i].desired, drift[i].node)'
  BY <1>3, NoneIsNoRow
<1> QED
  BY <1>1, <1>2, <1>3 DEF LinkAfter

(* An event keeps its node and its desired revision. *)
LEMMA EventKept ==
  ASSUME EventsStep, NEW i, NEW r, NEW n, EventOf(i, r, n)
  PROVE  EventOf(i, r, n)'
BY DEF EventsStep, EventOf

(* A row created for an event stays the row of that revision and node. *)
LEMMA CreatedKept ==
  ASSUME RowsStep, NEW d, NEW r, NEW n, CreatedFor(d, r, n)
  PROVE  CreatedFor(d, r, n)'
BY DEF RowsStep, RowKept, CreatedFor, Enforcing

(* What the reconciler knows survives the steps of others. *)
LEMMA RecKept ==
  ASSUME DriftInv, RowsStep, EventsStep, UNCHANGED rec
  PROVE  RecSound'
<1>1. PICK q : q = rec
  OBVIOUS
<1>2. q.pc \in {"start", "create", "link", "linkFailed"} => EventOf(q.drift, q.revision, q.node)'
  BY <1>1, EventKept DEF DriftInv, RecSound
<1>3. q.pc = "link" => CreatedFor(q.dep, q.revision, q.node)'
  BY <1>1, CreatedKept DEF DriftInv, RecSound
<1> QED
  BY <1>1, <1>2, <1>3 DEF DriftInv, RecSound, EventOf, CreatedFor, Enforcing

(* So does what a restore knows. *)
LEMMA RestoreKept ==
  ASSUME DriftInv, RowsStep, EventsStep, UNCHANGED restore
  PROVE  RestoreSound'
<1>1. PICK q : q = restore
  OBVIOUS
<1>2. q.pc # "idle" => EventOf(q.drift, q.revision, q.node)'
  BY <1>1, EventKept DEF DriftInv, RestoreSound
<1>3. q.pc = "link" => CreatedFor(q.dep, q.revision, q.node)'
  BY <1>1, CreatedKept DEF DriftInv, RestoreSound
<1> QED
  BY <1>1, <1>2, <1>3 DEF DriftInv, RestoreSound, EventOf, CreatedFor, Enforcing

(* Steps that note a reconciliation state in open events or close them, or *)
(* leave the table alone.                                                  *)
Noted(old, new) ==
  \/ new = old
  \/ /\ old.status = "open"
     /\ \E s \in Reconciliation :
          /\ new = [old EXCEPT !.reconciliation = s]
          /\ s = "enforcing" => old.related # None
  \/ old.status = "open" /\ new = Resolve(old)
EventsNoted ==
  /\ DOMAIN drift' = DriftId /\ drift' = [i \in DriftId |-> drift'[i]]
  /\ \A i \in DriftId : Noted(drift[i], drift'[i])

(* A note on an event changes neither what it desires nor its link. *)
LEMMA NotedRow ==
  ASSUME NEW old, NEW new, old \in DriftRow, Noted(old, new),
         old.reconciliation = "enforcing" => old.related # None
  PROVE  /\ new \in DriftRow /\ new.desired = old.desired /\ new.node = old.node
         /\ new.related = old.related /\ (new.reconciliation = "enforcing" => old.related # None)
<1>1. ASSUME NEW s \in Reconciliation, new = [old EXCEPT !.reconciliation = s]
      PROVE  /\ new \in DriftRow /\ new.desired = old.desired /\ new.node = old.node
             /\ new.related = old.related /\ new.reconciliation = s
  BY <1>1 DEF DriftRow
<1>2. CASE new = Resolve(old)
  BY <1>2 DEF Resolve, DriftRow, Reconciliation
<1> QED
  BY <1>1, <1>2 DEF Noted

(* Notes on events keep the links right. *)
LEMMA NotesKeep ==
  ASSUME DriftInv, RowsStep, EventsNoted
  PROVE  /\ drift' \in [DriftId -> DriftRow \cup {NoDrift}]
         /\ EventsStep /\ EnforcementTargetsDrift'
<1>1. ASSUME NEW i \in DriftId, drift[i].status # "unused"
      PROVE  /\ drift'[i] \in DriftRow /\ drift'[i].status # "unused"
             /\ drift'[i].desired = drift[i].desired /\ drift'[i].node = drift[i].node
             /\ LinkAfter(i)
  <2>1. PICK old : old = drift[i]
    OBVIOUS
  <2>2. PICK new : new = drift'[i]
    OBVIOUS
  <2>3. old \in DriftRow /\ (old.reconciliation = "enforcing" => old.related # None) /\ Noted(old, new)
    BY <1>1, <2>1, <2>2, EventType DEF DriftInv, EnforcementTargetsDrift, EventsNoted
  <2>4. /\ new \in DriftRow /\ new.desired = old.desired /\ new.node = old.node
        /\ new.related = old.related /\ (new.reconciliation = "enforcing" => old.related # None)
    BY <2>3, NotedRow
  <2>5. new.status # "unused"
    BY <2>4 DEF DriftRow
  <2> QED
    BY <1>1, <2>1, <2>2, <2>4, <2>5 DEF LinkAfter
<1>2. ASSUME NEW i \in DriftId, drift[i].status = "unused"
      PROVE  drift'[i] = NoDrift /\ drift'[i].status = "unused"
  <2>1. drift'[i] = drift[i]
    BY <1>2 DEF EventsNoted, Noted
  <2> QED
    BY <1>2, <2>1, EventType DEF DriftInv
<1>3. drift' \in [DriftId -> DriftRow \cup {NoDrift}]
  BY <1>1, <1>2 DEF EventsNoted
<1>4. EventsStep
  BY <1>1 DEF EventsStep
<1>5. EnforcementTargetsDrift'
  BY <1>1, <1>2, <1>4, LinksHold
<1> QED
  BY <1>3, <1>4, <1>5

(* A step that leaves the events alone notes nothing. *)
LEMMA SameEvents ==
  ASSUME DriftInv, UNCHANGED drift
  PROVE  EventsNoted
BY DEF EventsNoted, Noted, DriftInv, DriftTypeOK

RecType ==
  [pc : RecStep, revision : Revision \cup {None}, policy : Policy \cup {None},
   todo : SUBSET Node, paused : SUBSET Node, node : Node \cup {None},
   observed : NodeState \cup {None}, drift : DriftId \cup {None}, dep : Deployment \cup {None}]
RestoreType ==
  [pc : {"idle", "create", "link"}, drift : DriftId \cup {None}, revision : Revision \cup {None},
   node : Node \cup {None}, dep : Deployment \cup {None}]

(* Steps of the deployments and of node management: the goroutines of      *)
(* drift do not move.                                                      *)
LEMMA OtherSteps ==
  ASSUME DriftInv, Inv', RowsStep, EventsNoted, policy' \in Policy, UNCHANGED <<rec, restore>>
  PROVE  DriftInv'
<1>1. EventsStep /\ EnforcementTargetsDrift' /\ drift' \in [DriftId -> DriftRow \cup {NoDrift}]
  BY NotesKeep
<1>2. DriftTypeOK'
  BY <1>1, SMTT(30) DEF DriftInv, DriftTypeOK, Inv
<1> QED
  BY <1>1, <1>2, RecKept, RestoreKept DEF DriftInv

(* A step of the reconciler has only its own knowledge to account for. *)
LEMMA RecSteps ==
  ASSUME DriftInv, Inv', RowsStep, EventsNoted, UNCHANGED <<policy, restore>>, rec' \in RecType, RecSound'
  PROVE  DriftInv'
<1>1. EventsStep /\ EnforcementTargetsDrift' /\ drift' \in [DriftId -> DriftRow \cup {NoDrift}]
  BY NotesKeep
<1>2. DriftTypeOK'
  BY <1>1 DEF DriftInv, DriftTypeOK, Inv, RecType
<1> QED
  BY <1>1, <1>2, RestoreKept DEF DriftInv

(* A step of a restore has only its own knowledge to account for. *)
LEMMA RestoreSteps ==
  ASSUME DriftInv, Inv', RowsStep, EventsNoted, UNCHANGED <<policy, rec>>, restore' \in RestoreType,
         RestoreSound'
  PROVE  DriftInv'
<1>1. EventsStep /\ EnforcementTargetsDrift' /\ drift' \in [DriftId -> DriftRow \cup {NoDrift}]
  BY NotesKeep
<1>2. DriftTypeOK'
  BY <1>1 DEF DriftInv, DriftTypeOK, Inv, RestoreType
<1> QED
  BY <1>1, <1>2, RecKept DEF DriftInv

-----------------------------------------------------------------------------
\* Deployment and node calls

(* The steps of the deployments keep the invariant. *)
LEMMA DeploymentsOnlyInv ==
  ASSUME DriftInv, DeploymentsOnly
  PROVE  DriftInv'
<1>1. [Keeping]_vars
  BY DEF DeploymentsOnly, Keeping, NodeApi, Executor, Environment
<1>2. Inv' /\ RowsStep
  BY <1>1, KeepingRows DEF DriftInv
<1> QED
  BY <1>2, OtherSteps, SameEvents DEF DeploymentsOnly, driftVars, DriftInv, DriftTypeOK

(* So does the deletion, which looks up the links. *)
LEMMA DeleteUnlinkedInv ==
  ASSUME DriftInv, NEW d \in Deployment, DeleteUnlinkedDeployment(d)
  PROVE  DriftInv'
BY DeletingRow, OtherSteps, SameEvents DEF DeleteUnlinkedDeployment, driftVars, DriftInv, DriftTypeOK

(* The end of a deployment is noted on the events it was linked to. *)
LEMMA FinishAndRecordInv ==
  ASSUME DriftInv, FinishAndRecord
  PROVE  DriftInv'
<1>1. FinishDeployment /\ UNCHANGED <<policy, rec, restore>>
  BY DEF FinishAndRecord
<1>2. Inv' /\ RowsStep
  BY <1>1, KeepingRows DEF DriftInv, Keeping, Executor
<1>3. exec.dep # None
  BY <1>1, NoneIsNoRow DEF FinishDeployment, DriftInv, Inv, ExecutorInv, ExecutorRow, Working
<1>4. PICK s \in {"enforcing", "failed"} :
        drift' = [i \in DriftId |-> IF drift[i].status = "open" /\ drift[i].related = exec.dep
                                      THEN [drift[i] EXCEPT !.reconciliation = s] ELSE drift[i]]
  BY DEF FinishAndRecord, UpdateOpen
<1>5. EventsNoted
  BY <1>3, <1>4 DEF EventsNoted, Noted, Reconciliation
<1> QED
  BY <1>1, <1>2, <1>5, OtherSteps DEF DriftInv, DriftTypeOK

(* Maintenance pauses and resumes events, removal resolves them. *)
LEMMA NodeCallsInv ==
  ASSUME DriftInv, NEW n \in Node,
         EnterMaintenanceAndPause(n) \/ ReturnToServiceAndResume(n) \/ SoftDeleteNodeAndResolve(n)
  PROVE  DriftInv'
<1>1. NodeApi /\ UNCHANGED <<policy, rec, restore>>
  BY DEF EnterMaintenanceAndPause, ReturnToServiceAndResume, SoftDeleteNodeAndResolve, NodeApi
<1>2. Inv' /\ RowsStep
  BY <1>1, KeepingRows DEF DriftInv, Keeping
<1>3. ASSUME NEW s \in {"maintenance", "pending"}, SetReconciliation(n, s) PROVE EventsNoted
  <2>1. drift' = [i \in DriftId |-> IF drift[i].status = "open" /\ drift[i].node = n
                                      THEN [drift[i] EXCEPT !.reconciliation = s] ELSE drift[i]]
    BY <1>3 DEF SetReconciliation, UpdateOpen
  <2> QED
    BY <2>1 DEF EventsNoted, Noted, Reconciliation
<1>4. ASSUME SoftDeleteNodeAndResolve(n) PROVE EventsNoted
  <2>1. drift' = [i \in DriftId |-> IF drift[i].status = "open" /\ drift[i].node = n
                                      THEN Resolve(drift[i]) ELSE drift[i]]
    BY <1>4 DEF SoftDeleteNodeAndResolve, UpdateOpen
  <2> QED
    BY <2>1 DEF EventsNoted, Noted
<1>5. EventsNoted
  BY <1>3, <1>4, SameEvents DEF EnterMaintenanceAndPause, ReturnToServiceAndResume
<1> QED
  BY <1>1, <1>2, <1>5, OtherSteps DEF DriftInv, DriftTypeOK

(* A restart forgets the pass and the request and keeps the tables. *)
LEMMA RestartAllInv ==
  ASSUME DriftInv, RestartAll
  PROVE  DriftInv'
<1>1. Restart /\ UNCHANGED <<drift, policy>>
  BY DEF RestartAll
<1>2. Inv' /\ RowsStep
  BY <1>1, KeepingRows DEF DriftInv, Keeping, Environment
<1>3. EventsStep /\ EnforcementTargetsDrift' /\ drift' \in [DriftId -> DriftRow \cup {NoDrift}]
  BY <1>1, <1>2, NotesKeep, SameEvents
<1>4. RecIdle \in RecType /\ RecIdle.pc = "idle"
  BY DEF RecIdle, RecType, RecStep
<1>5. RestoreIdle \in RestoreType /\ RestoreIdle.pc = "idle"
  BY DEF RestoreIdle, RestoreType
<1>6. DriftTypeOK'
  BY <1>1, <1>2, <1>3, <1>4, <1>5, SMTT(30) DEF RestartAll, DriftInv, DriftTypeOK, Inv, RecType, RestoreType
<1>7. RecSound' /\ RestoreSound'
  BY <1>4, <1>5 DEF RestartAll, RecSound, RestoreSound
<1> QED
  BY <1>2, <1>3, <1>6, <1>7 DEF DriftInv

(* A new policy changes no event. *)
LEMMA UpdateClusterInv ==
  ASSUME DriftInv, NEW p \in Policy, UpdateCluster(p)
  PROVE  DriftInv'
<1>1. Inv' /\ RowsStep
  BY SameCluster, SameRows DEF UpdateCluster, vars, DriftInv
<1> QED
  BY <1>1, OtherSteps, SameEvents DEF UpdateCluster

-----------------------------------------------------------------------------
\* RestoreDrift

(* A request records the link of an event it was created for, unless the   *)
(* deployment has been deleted, or that nothing was created.               *)
LEMMA LinkWrite ==
  ASSUME DriftInv, UNCHANGED vars, NEW i, NEW r, NEW n, EventOf(i, r, n), NEW s \in Reconciliation, NEW d,
         \/ CreatedFor(d, r, n)
         \/ d = None /\ s # "enforcing",
         UpdateDriftReconciliation(i, s, d)
  PROVE  /\ drift' \in [DriftId -> DriftRow \cup {NoDrift}]
         /\ EventsStep /\ EnforcementTargetsDrift'
<1>1. RowsStep
  BY SameRows DEF vars
<1>2. CASE UNCHANGED drift
  BY <1>1, <1>2, SameEvents, NotesKeep
<1>3. CASE ~UNCHANGED drift
  <2>1. /\ drift' = [drift EXCEPT ![i].reconciliation = s, ![i].related = d]
        /\ d = None \/ (deployments[d].status # "deleted" /\ d \in Deployment)
    BY <1>3 DEF UpdateDriftReconciliation, CreatedFor
  <2>2. PICK old : old = drift[i]
    OBVIOUS
  <2>3. /\ i \in DriftId /\ old \in DriftRow /\ old.desired = r /\ old.node = n
        /\ drift \in [DriftId -> DriftRow \cup {NoDrift}]
    BY <2>2, EventType DEF EventOf, DriftInv, DriftTypeOK
  <2>4. PICK new : new = [old EXCEPT !.reconciliation = s, !.related = d]
    OBVIOUS
  <2>5. /\ new \in DriftRow /\ new.desired = r /\ new.node = n /\ new.related = d
        /\ new.reconciliation = s /\ new.status = old.status
    BY <2>1, <2>3, <2>4 DEF DriftRow
  <2>6. drift' = [drift EXCEPT ![i] = new]
    BY <2>1, <2>2, <2>3, <2>4
  <2>7. drift'[i] = new /\ \A j \in DriftId : j # i => drift'[j] = drift[j]
    BY <2>3, <2>6
  <2>8. drift' \in [DriftId -> DriftRow \cup {NoDrift}]
    BY <2>3, <2>5, <2>6
  <2>9. old.status # "unused" /\ new.status # "unused"
    BY <2>3, <2>5 DEF DriftRow
  <2>10. EventsStep
    BY <2>2, <2>3, <2>5, <2>7, <2>9 DEF EventsStep
  <2>11. ASSUME NEW j \in DriftId, drift'[j].status # "unused" PROVE LinkAfter(j)
    <3>1. CASE j # i
      BY <2>7, <2>11, <3>1 DEF LinkAfter, DriftInv, EnforcementTargetsDrift
    <3>2. CASE j = i
      <4>1. CASE d = None
        BY <2>1, <2>5, <2>7, <3>2, <4>1, NoneIsNoRow DEF LinkAfter, CreatedFor
      <4>2. CASE d # None
        <5>1. d \in Deployment /\ Enforcing(d, r, n)
          BY <2>1, <4>2 DEF CreatedFor
        <5> QED
          BY <2>5, <2>7, <3>2, <5>1 DEF LinkAfter, Enforcing, vars
      <4> QED
        BY <4>1, <4>2
    <3> QED
      BY <3>1, <3>2
  <2> QED
    BY <1>1, <2>8, <2>10, <2>11, LinksHold
<1> QED
  BY <1>2, <1>3

(* A restore begins with the event it has read. *)
LEMMA RestorePreviewInv ==
  ASSUME DriftInv, NEW i \in DriftId, RestorePreview(i)
  PROVE  DriftInv'
<1>1. PICK q : q = restore
  OBVIOUS
<1>2. PICK e : e = drift[i]
  OBVIOUS
<1>3. q \in RestoreType /\ e \in DriftRow /\ e.status = "open"
  BY <1>1, <1>2, EventType DEF RestorePreview, DriftInv, DriftTypeOK, RestoreType
<1>4. PICK new : new = [q EXCEPT !.pc = "create", !.drift = i, !.revision = e.desired, !.node = e.node]
  OBVIOUS
<1>5. /\ new \in RestoreType /\ new.pc = "create" /\ new.drift = i /\ new.revision = e.desired
      /\ new.node = e.node /\ e.desired \in Revision /\ e.node \in Node
  BY <1>3, <1>4 DEF RestoreType, DriftRow
<1>6. restore' = new /\ UNCHANGED <<vars, drift, policy, rec>>
  BY <1>1, <1>2, <1>4 DEF RestorePreview
<1>7. RestoreSound'
  BY <1>2, <1>3, <1>5, <1>6 DEF RestoreSound, EventOf
<1>8. Inv' /\ RowsStep
  BY <1>6, SameCluster, SameRows DEF DriftInv, vars
<1> QED
  BY <1>5, <1>6, <1>7, <1>8, RestoreSteps, SameEvents

(* It creates a deployment of the event's revision on the event's node. *)
LEMMA RestoreCreateInv ==
  ASSUME DriftInv, RestoreCreate
  PROVE  DriftInv'
<1>1. PICK q : q = restore
  OBVIOUS
<1>2. /\ q \in RestoreType /\ q.pc = "create" /\ q.revision \in Revision /\ q.node \in Node
      /\ EventOf(q.drift, q.revision, q.node)
  BY <1>1 DEF RestoreCreate, DriftInv, DriftTypeOK, RestoreSound, RestoreType
<1>3. UNCHANGED <<nodes, activeRevision, config, observedDhcp, exec, starts, entering, written, lateStarts,
                  drift, policy, rec>>
  BY DEF RestoreCreate
<1>4. EventsStep
  BY <1>3 DEF EventsStep
<1>5. ASSUME NEW d \in Deployment, InsertDeployment(d, q.revision, "reconciliation", <<q.node>>),
             restore' = [q EXCEPT !.pc = "link", !.dep = d]
      PROVE  DriftInv'
  <2>1. Inv' /\ RowsStep /\ CreatedFor(d, q.revision, q.node)'
    BY <1>2, <1>3, <1>5, InsertRows DEF DriftInv
  <2>2. PICK new : new = [q EXCEPT !.pc = "link", !.dep = d]
    OBVIOUS
  <2>3. /\ new \in RestoreType /\ new.pc = "link" /\ new.drift = q.drift /\ new.revision = q.revision
        /\ new.node = q.node /\ new.dep = d
    BY <1>2, <2>2 DEF RestoreType
  <2>4. EventOf(q.drift, q.revision, q.node)'
    BY <1>2, <1>4, EventKept
  <2>5. RestoreSound'
    BY <1>2, <1>5, <2>1, <2>2, <2>3, <2>4 DEF RestoreSound, EventOf, CreatedFor, Enforcing
  <2> QED
    BY <1>3, <1>5, <2>1, <2>2, <2>3, <2>5, RestoreSteps, SameEvents
<1>6. CASE restore' = RestoreIdle /\ UNCHANGED <<deployments, tasks>>
  <2>1. Inv' /\ RowsStep
    BY <1>3, <1>6, SameCluster, SameRows DEF DriftInv, vars
  <2>2. RestoreIdle \in RestoreType /\ RestoreIdle.pc = "idle"
    BY DEF RestoreIdle, RestoreType
  <2>3. RestoreSound'
    BY <1>6, <2>2 DEF RestoreSound
  <2> QED
    BY <1>3, <1>6, <2>1, <2>2, <2>3, RestoreSteps, SameEvents
<1> QED
  BY <1>1, <1>5, <1>6 DEF RestoreCreate

(* It links that row, or the foreign key refuses. *)
LEMMA RestoreLinkInv ==
  ASSUME DriftInv, RestoreLink
  PROVE  DriftInv'
<1>1. PICK q : q = restore
  OBVIOUS
<1>2. EventOf(q.drift, q.revision, q.node) /\ CreatedFor(q.dep, q.revision, q.node)
  BY <1>1 DEF RestoreLink, DriftInv, RestoreSound
<1>3. UNCHANGED <<vars, policy, rec>> /\ restore' = RestoreIdle
  BY DEF RestoreLink
<1>4. Inv' /\ RowsStep
  BY <1>3, SameCluster, SameRows DEF DriftInv, vars
<1>5. /\ drift' \in [DriftId -> DriftRow \cup {NoDrift}]
      /\ EventsStep /\ EnforcementTargetsDrift'
  <2>1. CASE UNCHANGED drift
    BY <1>4, <2>1, SameEvents, NotesKeep
  <2>2. CASE UpdateDriftReconciliation(q.drift, "enforcing", q.dep)
    BY <1>2, <1>3, <2>2, LinkWrite DEF Reconciliation
  <2> QED
    BY <1>1, <2>1, <2>2 DEF RestoreLink
<1>6. RestoreIdle \in RestoreType /\ RestoreIdle.pc = "idle"
  BY DEF RestoreIdle, RestoreType
<1>7. DriftTypeOK' /\ RestoreSound'
  BY <1>3, <1>4, <1>5, <1>6 DEF DriftInv, DriftTypeOK, Inv, RestoreType, RestoreSound
<1> QED
  BY <1>3, <1>4, <1>5, <1>7, RecKept DEF DriftInv

-----------------------------------------------------------------------------
\* The reconciler

(* The reconciler's state is typed. *)
LEMMA RecFields ==
  ASSUME DriftInv, NEW q, q = rec
  PROVE  q \in RecType
BY DEF DriftInv, DriftTypeOK, RecType

(* A pass that ended knows nothing. *)
LEMMA IdleRec == RecIdle \in RecType /\ RecIdle.pc = "idle"
BY DEF RecIdle, RecType, RecStep

(* A pass that goes on, with what the next step needs to know. *)
LEMMA RecMoves ==
  ASSUME DriftInv, EventsStep, NEW pc \in RecStep, RecGoTo(pc), rec.pc # "idle", pc \notin {"resolve", "link"},
         pc \in {"idle", "check", "list", "next"} \/ rec.node \in Node,
         pc \in {"noteDrifted", "upsert"} => rec.observed \in NodeState,
         pc \in {"start", "create", "linkFailed"} => EventOf(rec.drift, rec.revision, rec.node)
  PROVE  rec' \in RecType /\ RecSound'
<1>1. PICK q : q = rec
  OBVIOUS
<1>2. q \in RecType /\ q.revision \in Revision
  BY <1>1, RecFields DEF DriftInv, RecSound
<1>3. PICK new : new = [q EXCEPT !.pc = pc]
  OBVIOUS
<1>4. /\ new \in RecType /\ new.pc = pc /\ new.revision = q.revision /\ new.node = q.node
      /\ new.observed = q.observed /\ new.drift = q.drift
  BY <1>2, <1>3 DEF RecType
<1>5. rec' = new
  BY <1>1, <1>3 DEF RecGoTo
<1>6. pc \in {"start", "create", "linkFailed"} => EventOf(q.drift, q.revision, q.node)'
  BY <1>1, EventKept
<1> QED
  BY <1>1, <1>2, <1>4, <1>5, <1>6 DEF RecSound, EventOf

(* The end of a pass. *)
LEMMA RecEnds ==
  ASSUME rec' = RecIdle
  PROVE  rec' \in RecType /\ RecSound'
BY IdleRec DEF RecSound

(* Events that do not change keep what they desire. *)
LEMMA SameEventsStep ==
  ASSUME UNCHANGED drift
  PROVE  EventsStep
BY DEF EventsStep

(* Steps that only move the pass. *)
LEMMA PassSteps ==
  ASSUME DriftInv, UNCHANGED <<vars, drift, policy, restore>>, rec' \in RecType, RecSound'
  PROVE  DriftInv'
<1>1. Inv' /\ RowsStep
  BY SameCluster, SameRows DEF DriftInv, vars
<1> QED
  BY <1>1, RecSteps, SameEvents

(* A pass begins with the active revision. *)
LEMMA ListClustersInv ==
  ASSUME DriftInv, ListClusters
  PROVE  DriftInv'
<1>1. PICK i : i = RecIdle
  OBVIOUS
<1>2. PICK new : new = [i EXCEPT !.pc = "check", !.revision = activeRevision, !.policy = policy]
  OBVIOUS
<1>3. activeRevision \in Revision /\ policy \in Policy
  BY DEF ListClusters, DriftInv, Inv, TypeOK, DriftTypeOK
<1>4. new \in RecType /\ new.pc = "check" /\ new.revision = activeRevision
  BY <1>1, <1>2, <1>3, IdleRec DEF RecType, RecStep
<1>5. rec' = new
  BY <1>1, <1>2 DEF ListClusters
<1>6. RecSound'
  BY <1>3, <1>4, <1>5 DEF RecSound
<1> QED
  BY <1>4, <1>5, <1>6, PassSteps DEF ListClusters

(* A pass may end because a deployment is active. *)
LEMMA SkipActiveClusterInv ==
  ASSUME DriftInv, SkipActiveCluster
  PROVE  DriftInv'
<1>1. CASE rec' = RecIdle
  BY <1>1, RecEnds, PassSteps DEF SkipActiveCluster
<1>2. CASE RecGoTo("list")
  <2>1. rec' \in RecType /\ RecSound'
    BY <1>2, RecMoves, SameEventsStep DEF SkipActiveCluster, RecStep
  <2> QED
    BY <2>1, PassSteps DEF SkipActiveCluster
<1> QED
  BY <1>1, <1>2 DEF SkipActiveCluster, RecGoTo

(* A pass lists the nodes to look at. *)
LEMMA ListNodesInv ==
  ASSUME DriftInv, ListNodes
  PROVE  DriftInv'
<1>1. PICK q : q = rec
  OBVIOUS
<1>2. q \in RecType /\ q.revision \in Revision
  BY <1>1, RecFields DEF ListNodes, DriftInv, RecSound
<1>3. PICK todo \in SUBSET Node : todo = {n \in Node : nodes[n].enabled}
  OBVIOUS
<1>4. PICK paused \in SUBSET Node : paused = {n \in Node : nodes[n].maintenance}
  OBVIOUS
<1>5. PICK new : new = [q EXCEPT !.pc = "next", !.todo = todo, !.paused = paused]
  OBVIOUS
<1>6. new \in RecType /\ new.pc = "next" /\ new.revision = q.revision
  BY <1>2, <1>3, <1>4, <1>5 DEF RecType, RecStep
<1>7. rec' = new
  BY <1>1, <1>3, <1>4, <1>5 DEF ListNodes
<1>8. RecSound'
  BY <1>2, <1>6, <1>7 DEF RecSound
<1> QED
  BY <1>6, <1>7, <1>8, PassSteps DEF ListNodes

(* Steps that note the convergence of a node, or nothing. *)
LEMMA NotingSteps ==
  ASSUME DriftInv, OnlyNodes, rec' \in RecType, RecSound',
         UNCHANGED nodes \/ \E n \in Node, c \in Convergence : NoteNode(n, c)
  PROVE  DriftInv'
<1>1. Inv'
  <2>1. CASE UNCHANGED nodes
    BY <2>1, SameCluster DEF OnlyNodes, vars, DriftInv
  <2>2. ASSUME NEW n \in Node, NEW c \in Convergence, NoteNode(n, c) PROVE Inv'
    BY <2>2, NoteKeeps DEF OnlyNodes, DriftInv
  <2> QED
    BY <2>1, <2>2
<1>2. RowsStep
  BY SameRows DEF OnlyNodes
<1> QED
  BY <1>1, <1>2, RecSteps, SameEvents DEF OnlyNodes

(* It takes them one by one. *)
LEMMA NextNodeInv ==
  ASSUME DriftInv, NextNode
  PROVE  DriftInv'
<1>1. PICK q : q = rec
  OBVIOUS
<1>2. q \in RecType /\ q.revision \in Revision /\ q.pc = "next" /\ q.todo \in SUBSET Node /\ OnlyNodes
  <2>1. q \in RecType
    BY <1>1, RecFields
  <2>2. q.revision \in Revision /\ q.pc = "next" /\ OnlyNodes
    BY <1>1 DEF NextNode, DriftInv, RecSound
  <2> QED
    BY <2>1, <2>2 DEF RecType
<1>3. CASE rec' = RecIdle /\ UNCHANGED nodes
  BY <1>2, <1>3, RecEnds, NotingSteps
<1>4. ASSUME NEW n \in q.todo, NEW c \in {"maintenance", "unsupported"}, NoteNode(n, c),
             rec' = [q EXCEPT !.todo = @ \ {n}]
      PROVE  DriftInv'
  <2>1. PICK todo \in SUBSET Node : todo = q.todo \ {n}
    BY <1>2
  <2>2. PICK new : new = [q EXCEPT !.todo = todo]
    OBVIOUS
  <2>3. new \in RecType /\ new.pc = "next" /\ new.revision = q.revision
    BY <1>2, <2>1, <2>2 DEF RecType
  <2>4. rec' = new
    BY <1>2, <1>4, <2>1, <2>2 DEF RecType
  <2>5. RecSound'
    BY <1>2, <2>3, <2>4 DEF RecSound
  <2>6. n \in Node /\ c \in Convergence
    BY <1>2 DEF Convergence
  <2> QED
    BY <1>2, <1>4, <2>3, <2>4, <2>5, <2>6, NotingSteps
<1>5. ASSUME NEW n \in q.todo, UNCHANGED nodes,
             rec' = [q EXCEPT !.todo = @ \ {n}, !.node = n,
                       !.pc = IF n \in Covers[q.revision] THEN "observe" ELSE "next"]
      PROVE  DriftInv'
  <2>1. PICK todo \in SUBSET Node : todo = q.todo \ {n}
    BY <1>2
  <2>2. PICK pc \in {"observe", "next"} : pc = IF n \in Covers[q.revision] THEN "observe" ELSE "next"
    OBVIOUS
  <2>3. PICK new : new = [q EXCEPT !.todo = todo, !.node = n, !.pc = pc]
    OBVIOUS
  <2>4. new \in RecType /\ new.pc = pc /\ new.revision = q.revision /\ new.node = n /\ n \in Node
    <3>1. pc \in RecStep
      BY DEF RecStep
    <3> QED
      BY <1>2, <2>3, <3>1 DEF RecType
  <2>5. rec' = new
    BY <1>2, <1>5, <2>1, <2>2, <2>3 DEF RecType
  <2>6. RecSound'
    BY <1>2, <2>2, <2>4, <2>5 DEF RecSound
  <2> QED
    BY <1>2, <1>5, <2>4, <2>5, <2>6, NotingSteps
<1> QED
  BY <1>1, <1>3, <1>4, <1>5 DEF NextNode

(* It reads what a node runs. *)
LEMMA ObserveNodeInv ==
  ASSUME DriftInv, ObserveNode
  PROVE  DriftInv'
<1>1. PICK q : q = rec
  OBVIOUS
<1>2. /\ q \in RecType /\ q.revision \in Revision /\ q.node \in Node /\ q.pc = "observe"
      /\ UNCHANGED <<deployments, tasks, activeRevision, config, exec, starts, entering, written, lateStarts,
                     drift, policy, restore>>
  BY <1>1, RecFields DEF ObserveNode, DriftInv, RecSound
<1>3. CASE /\ observedDhcp' = Observed(q.node) /\ UNCHANGED nodes
           /\ rec' = [q EXCEPT !.observed = config[q.node],
                        !.pc = IF config[q.node] = Effective(q.revision, q.node)
                                 THEN "resolve" ELSE "noteDrifted"]
  <2>1. PICK seen : seen = config[q.node]
    OBVIOUS
  <2>2. seen \in NodeState
    BY <1>2, <2>1 DEF DriftInv, Inv, TypeOK, NodeState
  <2>3. PICK pc \in {"resolve", "noteDrifted"} :
          pc = IF seen = Effective(q.revision, q.node) THEN "resolve" ELSE "noteDrifted"
    OBVIOUS
  <2>4. PICK new : new = [q EXCEPT !.observed = seen, !.pc = pc]
    OBVIOUS
  <2>5. /\ new \in RecType /\ new.pc = pc /\ new.observed = seen /\ new.revision = q.revision
        /\ new.node = q.node
    <3>1. pc \in RecStep
      BY DEF RecStep
    <3> QED
      BY <1>2, <2>2, <2>4, <3>1 DEF RecType
  <2>6. rec' = new
    BY <1>3, <2>1, <2>3, <2>4
  <2>7. RecSound'
    BY <1>2, <2>2, <2>3, <2>5, <2>6 DEF RecSound
  <2>8. Inv' /\ RowsStep
    BY <1>2, <1>3, ObservedKeeps, SameRows DEF DriftInv
  <2> QED
    BY <1>2, <2>5, <2>6, <2>7, <2>8, RecSteps, SameEvents
<1>4. CASE NoteNode(q.node, "observation_failed") /\ RecGoTo("next") /\ UNCHANGED observedDhcp
  <2>1. rec' \in RecType /\ RecSound'
    BY <1>1, <1>2, <1>4, RecMoves, SameEventsStep DEF RecStep
  <2> QED
    BY <1>2, <1>4, <2>1, NotingSteps DEF OnlyNodes, Convergence
<1> QED
  BY <1>1, <1>3, <1>4 DEF ObserveNode

(* It resolves the events of a node that runs the revision. *)
LEMMA ResolveNodeDriftInv ==
  ASSUME DriftInv, ResolveNodeDrift
  PROVE  DriftInv'
<1>1. /\ UNCHANGED <<vars, policy, restore>> /\ RecGoTo("noteConverged") /\ rec.pc = "resolve"
      /\ rec.node \in Node
  BY DEF ResolveNodeDrift, DriftInv, RecSound
<1>2. drift' = [i \in DriftId |-> IF drift[i].status = "open" /\ drift[i].node = rec.node
                                    THEN Resolve(drift[i]) ELSE drift[i]]
  BY DEF ResolveNodeDrift, UpdateOpen
<1>3. EventsNoted
  BY <1>2 DEF EventsNoted, Noted
<1>4. Inv' /\ RowsStep
  BY <1>1, SameCluster, SameRows DEF DriftInv, vars
<1>5. EventsStep
  BY <1>3, <1>4, NotesKeep
<1>6. rec' \in RecType /\ RecSound'
  BY <1>1, <1>5, RecMoves DEF RecStep
<1> QED
  BY <1>1, <1>3, <1>4, <1>6, RecSteps

(* It notes at the node whether it converged or drifted. *)
LEMMA NotingInv ==
  ASSUME DriftInv, NoteConverged \/ NoteDrifted
  PROVE  DriftInv'
<1>1. rec.node \in Node /\ OnlyNodes /\ rec.pc # "idle"
  BY DEF NoteConverged, NoteDrifted, DriftInv, RecSound
<1>2. EventsStep
  BY <1>1, SameEventsStep DEF OnlyNodes
<1>3. CASE NoteConverged
  <2>1. rec' \in RecType /\ RecSound'
    BY <1>1, <1>2, <1>3, RecMoves DEF NoteConverged, RecStep
  <2> QED
    BY <1>1, <1>3, <2>1, NotingSteps DEF NoteConverged, Convergence
<1>4. CASE NoteDrifted
  <2>1. rec.observed \in NodeState
    BY <1>4 DEF NoteDrifted, DriftInv, RecSound
  <2>2. rec' \in RecType /\ RecSound'
    BY <1>1, <1>2, <1>4, <2>1, RecMoves DEF NoteDrifted, RecStep
  <2> QED
    BY <1>1, <1>4, <2>2, NotingSteps DEF NoteDrifted, Convergence
<1> QED
  BY <1>3, <1>4

(* The upsert leaves an event of the node and revision of the pass. *)
LEMMA UpsertEvents ==
  ASSUME DriftInv, UpsertDriftEvent
  PROVE  \E i \in DriftId, pc \in {"start", "next"} :
           /\ drift' \in [DriftId -> DriftRow \cup {NoDrift}]
           /\ EventsStep /\ EnforcementTargetsDrift'
           /\ drift'[i].status # "unused" /\ drift'[i].desired = rec.revision /\ drift'[i].node = rec.node
           /\ rec' = [rec EXCEPT !.drift = i, !.pc = pc]
<1>1. PICK q : q = rec
  OBVIOUS
<1>2. PICK fresh \in {"alerted", "pending"} : fresh = IF q.policy = "alert" THEN "alerted" ELSE "pending"
  OBVIOUS
<1>3. q.pc = "upsert" /\ q.node \in Node /\ q.revision \in Revision /\ q.observed \in NodeState
  BY <1>1 DEF UpsertDriftEvent, DriftInv, RecSound
<1>4. PICK i \in DriftId :
        /\ \/ /\ SameOpen(i)
              /\ drift' = [drift EXCEPT ![i].reconciliation = IF @ = "enforcing" THEN @ ELSE fresh]
           \/ /\ drift[i] = NoDrift
              /\ drift' = [drift EXCEPT ![i] =
                   [status |-> "open", node |-> q.node, desired |-> q.revision,
                    observed |-> q.observed, reconciliation |-> fresh, related |-> None]]
        /\ rec' = [rec EXCEPT !.drift = i,
                     !.pc = IF rec.policy = "enforce" /\ drift'[i].reconciliation = "pending"
                              THEN "start" ELSE "next"]
  BY <1>1, <1>2 DEF UpsertDriftEvent
<1>5. PICK pc \in {"start", "next"} : rec' = [rec EXCEPT !.drift = i, !.pc = pc]
  BY <1>4
<1>6. UNCHANGED vars /\ RowsStep
  BY SameRows DEF UpsertDriftEvent, vars
<1>7. drift \in [DriftId -> DriftRow \cup {NoDrift}]
  BY DEF DriftInv, DriftTypeOK
<1>8. CASE /\ SameOpen(i)
           /\ drift' = [drift EXCEPT ![i].reconciliation = IF @ = "enforcing" THEN @ ELSE fresh]
  <2>1. PICK old : old = drift[i]
    OBVIOUS
  <2>2. old \in DriftRow /\ old.status = "open" /\ old.node = q.node /\ old.desired = q.revision
    BY <1>1, <1>8, <2>1, EventType DEF SameOpen, DriftInv
  <2>3. PICK s : s = IF old.reconciliation = "enforcing" THEN old.reconciliation ELSE fresh
    OBVIOUS
  <2>4. s \in Reconciliation /\ (s = "enforcing" => old.reconciliation = "enforcing")
    BY <1>2, <2>3 DEF Reconciliation
  <2>5. PICK new : new = [old EXCEPT !.reconciliation = s]
    OBVIOUS
  <2>6. drift' = [drift EXCEPT ![i] = new]
    BY <1>7, <1>8, <2>1, <2>3, <2>5
  <2>7. old.reconciliation = "enforcing" => old.related # None
    BY <2>1, <2>2 DEF DriftInv, EnforcementTargetsDrift
  <2>8. EventsNoted
    BY <1>7, <2>1, <2>2, <2>4, <2>5, <2>6, <2>7 DEF EventsNoted, Noted
  <2>9. new.status = "open" /\ new.desired = q.revision /\ new.node = q.node
    BY <2>2, <2>4, <2>5 DEF DriftRow
  <2>10. drift'[i] = new
    BY <1>7, <2>6
  <2> QED
    BY <1>1, <1>5, <1>6, <2>8, <2>9, <2>10, NotesKeep
<1>9. CASE /\ drift[i] = NoDrift
           /\ drift' = [drift EXCEPT ![i] =
                [status |-> "open", node |-> q.node, desired |-> q.revision,
                 observed |-> q.observed, reconciliation |-> fresh, related |-> None]]
  <2>1. PICK new : new = [status |-> "open", node |-> q.node, desired |-> q.revision,
                          observed |-> q.observed, reconciliation |-> fresh, related |-> None]
    OBVIOUS
  <2>2. /\ new \in DriftRow /\ new.status = "open" /\ new.desired = q.revision /\ new.node = q.node
        /\ new.related = None /\ new.reconciliation # "enforcing"
    BY <1>2, <1>3, <2>1 DEF DriftRow, Reconciliation
  <2>3. drift' = [drift EXCEPT ![i] = new]
    BY <1>9, <2>1
  <2>4. drift[i].status = "unused"
    BY <1>9, SMTT(30) DEF NoDrift
  <2>5. drift'[i] = new /\ \A j \in DriftId : j # i => drift'[j] = drift[j]
    BY <1>7, <2>3
  <2>6. drift' \in [DriftId -> DriftRow \cup {NoDrift}]
    BY <1>7, <2>2, <2>3
  <2>7. EventsStep
    BY <2>4, <2>5 DEF EventsStep
  <2>8. \A j \in DriftId : drift'[j].status # "unused" => LinkAfter(j)
    BY <2>2, <2>5 DEF LinkAfter, DriftInv, EnforcementTargetsDrift
  <2>9. EnforcementTargetsDrift'
    BY <1>6, <2>7, <2>8, LinksHold
  <2> QED
    BY <1>1, <1>5, <2>2, <2>5, <2>6, <2>7, <2>9
<1> QED
  BY <1>4, <1>8, <1>9

(* It inserts an event, or refreshes the open one. *)
LEMMA UpsertInv ==
  ASSUME DriftInv, UpsertDriftEvent
  PROVE  DriftInv'
<1>1. PICK q : q = rec
  OBVIOUS
<1>2. q \in RecType /\ q.node \in Node /\ q.revision \in Revision
  BY <1>1, RecFields DEF UpsertDriftEvent, DriftInv, RecSound
<1>3. PICK i \in DriftId, pc \in {"start", "next"} :
        /\ drift' \in [DriftId -> DriftRow \cup {NoDrift}]
        /\ EventsStep /\ EnforcementTargetsDrift'
        /\ drift'[i].status # "unused" /\ drift'[i].desired = q.revision /\ drift'[i].node = q.node
        /\ rec' = [q EXCEPT !.drift = i, !.pc = pc]
  BY <1>1, UpsertEvents
<1>4. PICK new : new = [q EXCEPT !.drift = i, !.pc = pc]
  OBVIOUS
<1>5. /\ new \in RecType /\ new.pc = pc /\ new.drift = i /\ new.revision = q.revision /\ new.node = q.node
  BY <1>2, <1>4 DEF RecType, RecStep
<1>6. RecSound'
  BY <1>2, <1>3, <1>4, <1>5 DEF RecSound, EventOf
<1>7. UNCHANGED <<vars, policy, restore>>
  BY DEF UpsertDriftEvent
<1>8. Inv' /\ RowsStep
  BY <1>7, SameCluster, SameRows DEF DriftInv, vars
<1>9. DriftTypeOK'
  BY <1>3, <1>4, <1>5, <1>7, <1>8, SMTT(30) DEF DriftInv, DriftTypeOK, Inv, RecType
<1> QED
  BY <1>3, <1>6, <1>7, <1>8, <1>9, RestoreKept DEF DriftInv

(* It previews a deployment of the event's node. *)
LEMMA StartReconciliationInv ==
  ASSUME DriftInv, StartReconciliation
  PROVE  DriftInv'
<1>1. /\ rec.pc = "start" /\ rec.node \in Node /\ EventOf(rec.drift, rec.revision, rec.node)
      /\ UNCHANGED <<vars, drift, policy, restore>>
  BY DEF StartReconciliation, DriftInv, RecSound
<1>2. PICK pc \in {"create", "linkFailed"} : RecGoTo(pc)
  BY DEF StartReconciliation
<1>3. rec' \in RecType /\ RecSound'
  BY <1>1, <1>2, RecMoves, SameEventsStep DEF RecStep
<1> QED
  BY <1>1, <1>3, PassSteps

(* It creates a deployment of the revision on the node. *)
LEMMA CreateReconciliationInv ==
  ASSUME DriftInv, CreateReconciliation
  PROVE  DriftInv'
<1>1. PICK q : q = rec
  OBVIOUS
<1>2. /\ q \in RecType /\ q.pc = "create" /\ q.revision \in Revision /\ q.node \in Node
      /\ EventOf(q.drift, q.revision, q.node)
  BY <1>1, RecFields DEF CreateReconciliation, DriftInv, RecSound
<1>3. UNCHANGED <<nodes, activeRevision, config, observedDhcp, exec, starts, entering, written, lateStarts,
                  drift, policy, restore>>
  BY DEF CreateReconciliation
<1>4. ASSUME NEW d \in Deployment, InsertDeployment(d, q.revision, "reconciliation", <<q.node>>),
             rec' = [q EXCEPT !.pc = "link", !.dep = d]
      PROVE  DriftInv'
  <2>1. Inv' /\ RowsStep /\ CreatedFor(d, q.revision, q.node)'
    BY <1>2, <1>3, <1>4, InsertRows DEF DriftInv
  <2>2. PICK new : new = [q EXCEPT !.pc = "link", !.dep = d]
    OBVIOUS
  <2>3. /\ new \in RecType /\ new.pc = "link" /\ new.drift = q.drift /\ new.revision = q.revision
        /\ new.node = q.node /\ new.dep = d
    BY <1>2, <2>2 DEF RecType, RecStep
  <2>4. EventOf(q.drift, q.revision, q.node)'
    BY <1>2, <1>3, EventKept, SameEventsStep
  <2>5. RecSound'
    BY <1>2, <1>4, <2>1, <2>2, <2>3, <2>4 DEF RecSound, EventOf, CreatedFor, Enforcing
  <2> QED
    BY <1>3, <1>4, <2>1, <2>2, <2>3, <2>5, RecSteps, SameEvents
<1>5. CASE RecGoTo("linkFailed") /\ UNCHANGED <<deployments, tasks>>
  <2>1. rec' \in RecType /\ RecSound'
    BY <1>1, <1>2, <1>3, <1>5, RecMoves, SameEventsStep DEF RecStep
  <2> QED
    BY <1>3, <1>5, <2>1, PassSteps DEF vars
<1> QED
  BY <1>1, <1>4, <1>5 DEF CreateReconciliation

(* It links that row, or the foreign key refuses. *)
LEMMA LinkReconciliationInv ==
  ASSUME DriftInv, LinkReconciliation
  PROVE  DriftInv'
<1>1. PICK q : q = rec
  OBVIOUS
<1>2. /\ q.pc \in {"link", "linkFailed"} /\ EventOf(q.drift, q.revision, q.node)
      /\ q.pc = "link" => CreatedFor(q.dep, q.revision, q.node)
  BY <1>1 DEF LinkReconciliation, DriftInv, RecSound
<1>3. UNCHANGED <<vars, policy, restore>> /\ RecGoTo("next")
  BY DEF LinkReconciliation
<1>4. Inv' /\ RowsStep
  BY <1>3, SameCluster, SameRows DEF DriftInv, vars
<1>5. /\ drift' \in [DriftId -> DriftRow \cup {NoDrift}]
      /\ EventsStep /\ EnforcementTargetsDrift'
  <2>1. CASE q.pc = "link"
    <3>1. UpdateDriftReconciliation(q.drift, "enforcing", q.dep)
      BY <1>1, <2>1 DEF LinkReconciliation
    <3> QED
      BY <1>2, <1>3, <2>1, <3>1, LinkWrite DEF Reconciliation
  <2>2. CASE q.pc = "linkFailed"
    <3>1. UpdateDriftReconciliation(q.drift, "failed", None)
      BY <1>1, <2>2 DEF LinkReconciliation
    <3> QED
      BY <1>2, <1>3, <2>2, <3>1, LinkWrite DEF Reconciliation
  <2> QED
    BY <1>2, <2>1, <2>2
<1>6. rec' \in RecType /\ RecSound'
  BY <1>1, <1>2, <1>3, <1>5, RecMoves DEF RecStep
<1>7. DriftTypeOK'
  BY <1>3, <1>4, <1>5, <1>6 DEF DriftInv, DriftTypeOK, Inv, RecType
<1> QED
  BY <1>3, <1>4, <1>5, <1>6, <1>7, RestoreKept DEF DriftInv

(* A failure ends the pass or the node's turn, or marks the event failed. *)
LEMMA RepositoryFailureInv ==
  ASSUME DriftInv, ReconcilerRepositoryFails
  PROVE  DriftInv'
<1>1. UNCHANGED <<vars, drift, policy, restore>>
  BY DEF ReconcilerRepositoryFails
<1>2. CASE rec' = RecIdle
  BY <1>1, <1>2, RecEnds, PassSteps
<1>3. CASE rec.pc \in {"start", "create"} /\ RecGoTo("linkFailed")
  <2>1. rec.node \in Node /\ EventOf(rec.drift, rec.revision, rec.node)
    BY <1>3 DEF DriftInv, RecSound
  <2>2. rec' \in RecType /\ RecSound'
    BY <1>1, <1>3, <2>1, RecMoves, SameEventsStep DEF RecStep
  <2> QED
    BY <1>1, <2>2, PassSteps
<1>4. CASE /\ rec.pc \in {"resolve", "noteConverged", "noteDrifted", "upsert", "link", "linkFailed"}
           /\ RecGoTo("next")
  <2>1. rec' \in RecType /\ RecSound'
    BY <1>1, <1>4, RecMoves, SameEventsStep DEF RecStep
  <2> QED
    BY <1>1, <2>1, PassSteps
<1> QED
  BY <1>2, <1>3, <1>4 DEF ReconcilerRepositoryFails

-----------------------------------------------------------------------------
\* The theorems

(* A cluster as an earlier deployment left it. *)
LEMMA DriftInitInv == DriftInit => DriftInv
<1> SUFFICES ASSUME NEW r \in StartRevision, NEW p \in StartPolicy, ClusterWith(r, p) PROVE DriftInv
  BY DEF DriftInit
<1>1. r \in Revision
  BY StartRevisions
<1>2. TypeOK
  <2>1. deployments \in [Deployment -> DeploymentRow \cup {NoRow("unused"), NoRow("deleted")}]
    BY DEF ClusterWith
  <2>2. nodes \in [Node -> NodeRow]
    BY <1>1 DEF ClusterWith, NodeRow, Convergence
  <2>3. exec \in ExecutorState
    BY DEF ClusterWith, Idle, ExecutorState, Step
  <2>4. \A n \in Node : Effective(r, n) \in [content : Content, dhcp : BOOLEAN]
    BY <1>1 DEF Effective, Content
  <2>5. \A n \in Node : [Effective(r, n) EXCEPT !.content = Foreign] \in [content : Content, dhcp : BOOLEAN]
    BY <2>4 DEF Content
  <2>6. config \in [Node -> [content : Content, dhcp : BOOLEAN]]
    BY <2>4, <2>5, SMTT(30) DEF ClusterWith
  <2>7. tasks \in [Deployment -> [Position -> TaskStatus]]
    BY DEF ClusterWith, TaskStatus
  <2> QED
    BY <1>1, <2>1, <2>2, <2>3, <2>6, <2>7 DEF ClusterWith, TypeOK
<1>3. \A d \in Deployment : deployments[d].status = "unused" /\ DOMAIN deployments[d].targets = {}
  BY SMTT(30) DEF ClusterWith, NoRow
<1>4. exec.pc = "idle"
  BY DEF ClusterWith, Idle
<1>5. OneActiveDeployment /\ RowInv
  BY <1>3, <1>4, PositionNat, SMTT(30)
     DEF ClusterWith, OneActiveDeployment, Active, Terminal, RowInv, SequentialStopOnFailure,
         OutcomeMatchesTasks, NeverReplayed, CancelStopsRollout, TaskRows, RestingRows
<1>6. ExecutorInv /\ AppliedRecorded /\ DhcpHandedOver
  BY <1>4 DEF ExecutorInv, ExecutorRow, CurrentTask, OtherTasks, EndingTasks, LateStart,
              AppliedRecorded, DhcpHandedOver, Working, Preparing, RollingOut
<1>7. DhcpOrdered
  BY <1>3 DEF ClusterWith, DhcpOrdered, OwnerLast
<1>8. Inv
  BY <1>2, <1>5, <1>6, <1>7 DEF Inv
<1>9. RestoreIdle \in RestoreType /\ RestoreIdle.pc = "idle"
  BY DEF RestoreIdle, RestoreType
<1>10. DriftTypeOK
  BY <1>2, <1>9, IdleRec, StartPolicies, SMTT(30) DEF ClusterWith, DriftTypeOK, RecType, RestoreType
<1>11. RecSound /\ RestoreSound
  BY <1>9, IdleRec DEF ClusterWith, RecSound, RestoreSound
<1>12. EnforcementTargetsDrift
  BY DEF ClusterWith, NoDrift, EnforcementTargetsDrift
<1> QED
  BY <1>8, <1>10, <1>11, <1>12 DEF DriftInv

(* Every step keeps the invariant. *)
LEMMA DriftNextInv == DriftInv /\ [DriftNext]_allVars => DriftInv'
<1> SUFFICES ASSUME DriftInv, [DriftNext]_allVars PROVE DriftInv'
  OBVIOUS
<1>1. CASE Reconciler \/ ReconcilerRepositoryFails
  BY <1>1, ListClustersInv, SkipActiveClusterInv, ListNodesInv, NextNodeInv, ObserveNodeInv,
     ResolveNodeDriftInv, NotingInv, UpsertInv, StartReconciliationInv, CreateReconciliationInv,
     LinkReconciliationInv, RepositoryFailureInv DEF Reconciler
<1>2. CASE RestoreCreate \/ RestoreLink \/ \E i \in DriftId : RestorePreview(i)
  BY <1>2, RestoreCreateInv, RestoreLinkInv, RestorePreviewInv
<1>3. CASE \/ DeploymentsOnly \/ FinishAndRecord \/ RestartAll
           \/ \E d \in Deployment : DeleteUnlinkedDeployment(d)
           \/ \E p \in Policy : UpdateCluster(p)
  BY <1>3, DeploymentsOnlyInv, FinishAndRecordInv, RestartAllInv, DeleteUnlinkedInv, UpdateClusterInv
<1>4. CASE \E n \in Node : \/ EnterMaintenanceAndPause(n)
                           \/ ReturnToServiceAndResume(n)
                           \/ SoftDeleteNodeAndResolve(n)
  BY <1>4, NodeCallsInv
<1>5. CASE UNCHANGED allVars
  <2>1. UNCHANGED <<vars, drift, policy, rec, restore>>
    BY <1>5 DEF allVars, driftVars
  <2>2. Inv' /\ RowsStep
    BY <2>1, SameCluster, SameRows DEF DriftInv, vars
  <2> QED
    BY <2>1, <2>2, OtherSteps, SameEvents DEF DriftInv, DriftTypeOK
<1> QED
  BY <1>1, <1>2, <1>3, <1>4, <1>5 DEF DriftNext

(* The inductive invariant holds: that of the deployments, with what the   *)
(* reconciler and a restore know about the event and the row at hand.      *)
THEOREM DriftInvariant == DriftSpec => []DriftInv
BY DriftInitInv, DriftNextInv, PTL DEF DriftSpec

(* A linked deployment enforces exactly what its event says and is never   *)
(* deleted: DeleteUnstartedDeployment looks up the links, and the foreign  *)
(* key refuses a link to a row that was deleted between insert and link.   *)
THEOREM EnforcementSafe == DriftSpec => []EnforcementTargetsDrift
<1>1. DriftInv => EnforcementTargetsDrift
  BY DEF DriftInv
<1> QED
  BY <1>1, DriftInvariant, PTL

(* The rollouts stay safe with the reconciler and RestoreDrift creating    *)
(* deployments as well: one at a time, in order, none replayed, with       *)
(* outcomes that match their evidence.                                     *)
THEOREM ReconciledRolloutsSafe ==
  DriftSpec => [](/\ OneActiveDeployment /\ SequentialStopOnFailure /\ OutcomeMatchesTasks
                  /\ NeverReplayed /\ CancelStopsRollout)
<1>1. DriftInv => /\ OneActiveDeployment /\ SequentialStopOnFailure /\ OutcomeMatchesTasks
                  /\ NeverReplayed /\ CancelStopsRollout
  BY DEF DriftInv, Inv, RowInv
<1> QED
  BY <1>1, DriftInvariant, PTL

(* The step that ResolvedOnlyByObservation asks for. *)
ResolutionStep ==
  \A i \in DriftId :
    drift[i].status = "open" /\ drift'[i].status # "open" =>
      \/ nodes'[drift[i].node].deleted
      \/ /\ rec.node = drift[i].node
         /\ rec.observed = Effective(rec.revision, drift[i].node)

(* Where no open event is closed there is nothing to show. *)
StaysOpen == \A i \in DriftId : drift[i].status = "open" => drift'[i].status = "open"

(* A step that leaves open events open resolves nothing. *)
LEMMA OpenIsUnresolved == StaysOpen => ResolutionStep
BY DEF StaysOpen, ResolutionStep

(* SetReconciliation leaves open events open. *)
LEMMA WritesStayOpen ==
  ASSUME DriftInv, NEW n, NEW s, SetReconciliation(n, s)
  PROVE  StaysOpen
<1>1. drift' = [i \in DriftId |-> IF drift[i].status = "open" /\ drift[i].node = n
                                    THEN [drift[i] EXCEPT !.reconciliation = s] ELSE drift[i]]
  BY DEF SetReconciliation, UpdateOpen
<1> QED
  BY <1>1, EventType DEF StaysOpen, DriftInv, DriftRow

(* So does UpdateDriftReconciliation. *)
LEMMA LinksStayOpen ==
  ASSUME DriftInv, NEW i, NEW s, NEW d, UpdateDriftReconciliation(i, s, d)
  PROVE  StaysOpen
<1>1. CASE UNCHANGED drift
  BY <1>1 DEF StaysOpen
<1>2. CASE drift' = [drift EXCEPT ![i].reconciliation = s, ![i].related = d]
  BY <1>2, EventType DEF StaysOpen, DriftInv, DriftTypeOK, DriftRow
<1> QED
  BY <1>1, <1>2 DEF UpdateDriftReconciliation

(* So does the upsert of an event. *)
LEMMA UpsertStaysOpen ==
  ASSUME DriftInv, UpsertDriftEvent
  PROVE  StaysOpen
<1>1. drift \in [DriftId -> DriftRow \cup {NoDrift}]
  BY DEF DriftInv, DriftTypeOK
<1>2. PICK i \in DriftId :
        \/ \E f : drift' = [drift EXCEPT ![i].reconciliation = IF @ = "enforcing" THEN @ ELSE f]
        \/ /\ drift[i] = NoDrift
           /\ \E new : drift' = [drift EXCEPT ![i] = new]
  BY DEF UpsertDriftEvent
<1>3. ASSUME NEW f, drift' = [drift EXCEPT ![i].reconciliation = IF @ = "enforcing" THEN @ ELSE f]
      PROVE  StaysOpen
  BY <1>1, <1>3, EventType DEF StaysOpen, DriftInv, DriftRow
<1>4. ASSUME drift[i] = NoDrift, NEW new, drift' = [drift EXCEPT ![i] = new] PROVE StaysOpen
  <2>1. drift[i].status = "unused"
    BY <1>4, SMTT(30) DEF NoDrift
  <2> QED
    BY <1>1, <1>4, <2>1 DEF StaysOpen
<1> QED
  BY <1>2, <1>3, <1>4

(* So does the end of a deployment. *)
LEMMA FinishStaysOpen ==
  ASSUME DriftInv, FinishAndRecord
  PROVE  StaysOpen
<1>1. PICK s : drift' = [i \in DriftId |-> IF drift[i].status = "open" /\ drift[i].related = exec.dep
                                      THEN [drift[i] EXCEPT !.reconciliation = s] ELSE drift[i]]
  BY DEF FinishAndRecord, UpdateOpen
<1> QED
  BY <1>1, EventType DEF StaysOpen, DriftInv, DriftRow

(* The removal of a node resolves the events of that node only. *)
LEMMA RemovalResolves ==
  ASSUME DriftInv, NEW n \in Node, SoftDeleteNodeAndResolve(n)
  PROVE  ResolutionStep
<1>1. drift' = [i \in DriftId |-> IF drift[i].status = "open" /\ drift[i].node = n
                                    THEN Resolve(drift[i]) ELSE drift[i]]
  BY DEF SoftDeleteNodeAndResolve, UpdateOpen
<1>2. nodes'[n].deleted
  BY DEF SoftDeleteNodeAndResolve, SoftDeleteNode, DriftInv, Inv, TypeOK, NodeRow
<1> QED
  BY <1>1, <1>2 DEF ResolutionStep

(* The reconciler resolves what it has observed to be in place. *)
LEMMA ObservationResolves ==
  ASSUME DriftInv, ResolveNodeDrift
  PROVE  ResolutionStep
<1>1. drift' = [i \in DriftId |-> IF drift[i].status = "open" /\ drift[i].node = rec.node
                                    THEN Resolve(drift[i]) ELSE drift[i]]
  BY DEF ResolveNodeDrift, UpdateOpen
<1>2. rec.observed = Effective(rec.revision, rec.node)
  BY DEF ResolveNodeDrift, DriftInv, RecSound
<1> QED
  BY <1>1, <1>2 DEF ResolutionStep

(* Every step resolves only for one of these two reasons. *)
LEMMA NextResolution ==
  ASSUME DriftInv, [DriftNext]_allVars
  PROVE  ResolutionStep
<1>1. ASSUME UNCHANGED drift PROVE ResolutionStep
  BY <1>1, OpenIsUnresolved DEF StaysOpen
<1>2. CASE Reconciler
  <2>1. CASE LinkReconciliation
    BY <2>1, LinksStayOpen, OpenIsUnresolved DEF LinkReconciliation
  <2> QED
    BY <1>1, <1>2, <2>1, ObservationResolves, UpsertStaysOpen, OpenIsUnresolved
       DEF Reconciler, ListClusters, SkipActiveCluster, ListNodes, NextNode, ObserveNode, NoteConverged,
           NoteDrifted, StartReconciliation, CreateReconciliation, OnlyNodes
<1>3. CASE RestoreLink
  BY <1>1, <1>3, LinksStayOpen, OpenIsUnresolved DEF RestoreLink
<1>4. ASSUME NEW n \in Node, EnterMaintenanceAndPause(n) \/ ReturnToServiceAndResume(n)
      PROVE  ResolutionStep
  BY <1>1, <1>4, WritesStayOpen, OpenIsUnresolved DEF EnterMaintenanceAndPause, ReturnToServiceAndResume
<1>5. CASE \/ DeploymentsOnly \/ RestartAll \/ RestoreCreate \/ ReconcilerRepositoryFails
           \/ \E d \in Deployment : DeleteUnlinkedDeployment(d)
           \/ \E p \in Policy : UpdateCluster(p)
           \/ \E i \in DriftId : RestorePreview(i)
           \/ UNCHANGED allVars
  BY <1>1, <1>5 DEF DeploymentsOnly, RestartAll, RestoreCreate, ReconcilerRepositoryFails,
     DeleteUnlinkedDeployment, UpdateCluster, RestorePreview, allVars, driftVars
<1> QED
  BY <1>2, <1>3, <1>4, <1>5, FinishStaysOpen, OpenIsUnresolved, RemovalResolves DEF DriftNext

(* An open event is closed only because its node was removed or was        *)
(* observed to run the revision of the pass: no deployment, no restart, no *)
(* maintenance and no link closes one.                                     *)
THEOREM ResolutionSafe == DriftSpec => ResolvedOnlyByObservation
<1>1. DriftInv /\ [DriftNext]_allVars => [ResolutionStep]_allVars
  BY NextResolution
<1>2. DriftSpec => [][ResolutionStep]_allVars
  BY <1>1, DriftInvariant, PTL DEF DriftSpec
<1> QED
  BY <1>2, PTL DEF ResolvedOnlyByObservation, ResolutionStep

-----------------------------------------------------------------------------
\* The steps of the composition are steps of the deployments, or leave alone
\* what the action properties of the deployments are about

(* The drift tables are beside the rollouts, and a new reconciliation row  *)
(* is not yet one.                                                         *)
LEMMA AsideStep ==
  ASSUME DriftInv, UNCHANGED <<config, activeRevision>>,
         \/ UNCHANGED <<deployments, tasks>>
         \/ \E d \in Deployment, r \in Revision, n \in Node :
              InsertDeployment(d, r, "reconciliation", <<n>>)
  PROVE  ActivationStep /\ DhcpStep /\ HistoryStep
<1>1. ActivationStep /\ DhcpStep
  BY DEF ActivationStep, DhcpStep
<1>2. CASE UNCHANGED <<deployments, tasks>>
  BY <1>1, <1>2 DEF HistoryStep
<1>3. ASSUME NEW d \in Deployment, NEW r \in Revision, NEW n \in Node,
             InsertDeployment(d, r, "reconciliation", <<n>>)
      PROVE  HistoryStep
  <2>1. deployments[d].status \notin Terminal
    BY <1>3, SMTT(30) DEF InsertDeployment, NoRow, Terminal
  <2>2. DOMAIN deployments = Deployment /\ DOMAIN tasks = Deployment
    BY DEF DriftInv, Inv, TypeOK
  <2> QED
    BY <1>3, <2>1, <2>2 DEF InsertDeployment, HistoryStep
<1> QED
  BY <1>1, <1>2, <1>3

(* The steps of the deployments satisfy the three step properties. *)
LEMMA DeploymentsStep ==
  ASSUME DriftInv, [Next]_vars
  PROVE  ActivationStep /\ DhcpStep /\ HistoryStep
<1>1. CASE Next /\ vars' # vars
  BY <1>1, ActivationInductive, DhcpInductive, HistoryInductive DEF DriftInv
<1>2. CASE UNCHANGED vars
  BY <1>2, AsideStep DEF vars
<1> QED
  BY <1>1, <1>2

(* So do all steps of the composition. *)
LEMMA NextRollouts ==
  ASSUME DriftInv, [DriftNext]_allVars
  PROVE  ActivationStep /\ DhcpStep /\ HistoryStep
<1>1. CASE DeploymentsOnly \/ \E d \in Deployment : DeleteUnlinkedDeployment(d)
  <2>1. Next
    BY <1>1 DEF DeploymentsOnly, DeleteUnlinkedDeployment, Next, DeploymentApi, NodeApi, Executor, Environment
  <2> QED
    BY <2>1, DeploymentsStep
<1>2. CASE FinishAndRecord \/ RestartAll
  <2>1. Next
    BY <1>2 DEF FinishAndRecord, RestartAll, Next, Executor, Environment
  <2> QED
    BY <2>1, DeploymentsStep
<1>3. ASSUME NEW n \in Node,
             EnterMaintenanceAndPause(n) \/ ReturnToServiceAndResume(n) \/ SoftDeleteNodeAndResolve(n)
      PROVE  ActivationStep /\ DhcpStep /\ HistoryStep
  <2>1. Next
    BY <1>3 DEF EnterMaintenanceAndPause, ReturnToServiceAndResume, SoftDeleteNodeAndResolve, Next, NodeApi
  <2> QED
    BY <2>1, DeploymentsStep
<1>4. CASE CreateReconciliation
  <2>1. rec.revision \in Revision /\ rec.node \in Node
    BY <1>4 DEF CreateReconciliation, DriftInv, RecSound
  <2> QED
    BY <1>4, <2>1, AsideStep DEF CreateReconciliation
<1>5. CASE RestoreCreate
  <2>1. restore.revision \in Revision /\ restore.node \in Node
    BY <1>5 DEF RestoreCreate, DriftInv, RestoreSound
  <2> QED
    BY <1>5, <2>1, AsideStep DEF RestoreCreate
<1>6. CASE (Reconciler /\ ~CreateReconciliation) \/ ReconcilerRepositoryFails
  <2>1. UNCHANGED <<config, activeRevision, deployments, tasks>>
    BY <1>6 DEF Reconciler, ReconcilerRepositoryFails, ListClusters, SkipActiveCluster, ListNodes, NextNode,
       ObserveNode, ResolveNodeDrift, NoteConverged, NoteDrifted, UpsertDriftEvent, StartReconciliation,
       LinkReconciliation, OnlyNodes, vars
  <2> QED
    BY <2>1, AsideStep
<1>7. CASE \/ RestoreLink \/ \E p \in Policy : UpdateCluster(p)
           \/ \E i \in DriftId : RestorePreview(i)
           \/ UNCHANGED allVars
  <2>1. UNCHANGED vars
    BY <1>7 DEF RestoreLink, UpdateCluster, RestorePreview, allVars
  <2> QED
    BY <2>1, DeploymentsStep
<1> QED
  BY <1>1, <1>2, <1>3, <1>4, <1>5, <1>6, <1>7 DEF DriftNext

(* With the reconciler at work, too, a revision becomes active only by a   *)
(* verified rollout of an operator, DHCP is enabled on a target only once  *)
(* no other target serves it, and finished deployments never change.       *)
THEOREM ReconciledStepsSafe == DriftSpec => [][ActivationStep /\ DhcpStep /\ HistoryStep]_allVars
<1>1. DriftInv /\ [DriftNext]_allVars => [ActivationStep /\ DhcpStep /\ HistoryStep]_allVars
  BY NextRollouts
<1> QED
  BY <1>1, DriftInvariant, PTL DEF DriftSpec

=============================================================================
