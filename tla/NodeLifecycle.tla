---------------------------- MODULE NodeLifecycle ----------------------------
(***************************************************************************)
(* The lifecycle of a node record: registration, edits and removal, health *)
(* polls and connection tests, planned maintenance with preflight and      *)
(* return validation, and guided upgrades.                                 *)
(*                                                                         *)
(* Sources: internal/domain/management.go, internal/database/nodes.go,     *)
(* internal/haoperations/service.go, internal/database/ha_operations.go,   *)
(* internal/jobs/health.go.                                                *)
(*                                                                         *)
(* Requests run concurrently in Slot; each call of a request to a node or  *)
(* to the database is a step.  A client sends the record version it last   *)
(* read, so an expected version is that of the row or an older one; all    *)
(* older ones act alike, and one stands for them.                          *)
(***************************************************************************)
EXTENDS Naturals, Sequences, FiniteSets

CONSTANTS
  Node,
  Slot,         \* requests and polls in flight
  Upgrade,      \* identifiers of guided upgrades
  MaxVersion,   \* installed product versions are 1 .. MaxVersion
  MaxRecord,    \* bound on record versions of nodes
  MaxSettings,  \* bound on record versions of lifecycle settings
  MaxChanges,   \* bound on what happens outside the controller, and on faults
  Faults,       \* faults that may happen
  None

ASSUME LifecycleConstants ==
  /\ MaxVersion \in Nat \ {0} /\ MaxRecord \in Nat \ {0} /\ MaxSettings \in Nat /\ MaxChanges \in Nat
  /\ Faults \subseteq {"repository", "restart"}
  /\ None \notin Node \cup Upgrade

VARIABLES
  nodes,      \* table nodes
  settings,   \* node_lifecycle_settings
  probed,     \* the newest DNS probe of the node is healthy and fresh
  upgrades,   \* table upgrade_operations
  installed,  \* the version the node really runs
  failing,    \* what is wrong with the node now
  cluster,    \* active deployment, observed DHCP servers, nodes with open drift
  req,        \* requests in flight
  reached,    \* upgrades whose node has run the target version since they started
  changes

vars == <<nodes, settings, probed, upgrades, installed, failing, cluster, req, reached, changes>>
world == <<installed, failing, cluster>>

\* What a required return check finds wrong on a node, and the calls that gather
\* the checks, in their order.
Defect == {"api", "observation", "tls", "dns", "collectors"}
Gather == <<"api", "observation", "dns", "database">>

NodeRow == [present : BOOLEAN, deleted : BOOLEAN, enabled : BOOLEAN,
            health : {"healthy", "unreachable", "disabled"}, version : 1 .. MaxVersion,
            maintenance : BOOLEAN, rv : 1 .. MaxRecord]
NoNode == [present |-> FALSE, deleted |-> FALSE, enabled |-> FALSE, health |-> "disabled",
           version |-> 1, maintenance |-> FALSE, rv |-> 1]
Active == {"awaiting_operator"}
UpgradeRow == [status : {"none", "succeeded", "failed"} \cup Active, node : Node \cup {None},
               target : 1 .. MaxVersion]
Kind == {"idle", "poll", "test", "update", "enter", "return", "start", "complete"}
Call == {"idle", "status", "write", "preflight", "set", "validate", "create", "version", "return",
         "finish"}
RequestRow ==
  [kind : Kind, pc : Call,
   node : Node \cup {None}, expected : 0 .. MaxRecord, flag : BOOLEAN, read : 0 .. MaxRecord,
   check : 0 .. Len(Gather) + 1, failed : SUBSET (Defect \cup {"dhcp"}), version : 0 .. MaxVersion,
   upgrade : Upgrade \cup {None}]
Idle == [kind |-> "idle", pc |-> "idle", node |-> None, expected |-> 0, flag |-> FALSE,
         read |-> 0, check |-> 0, failed |-> {}, version |-> 0, upgrade |-> None]

TypeOK ==
  /\ nodes \in [Node -> NodeRow]
  /\ settings \in [Node -> [rv : 0 .. MaxSettings, guided : BOOLEAN]]
  /\ probed \in [Node -> BOOLEAN]
  /\ upgrades \in [Upgrade -> UpgradeRow]
  /\ installed \in [Node -> 1 .. MaxVersion] /\ failing \in [Node -> SUBSET Defect]
  /\ cluster \in [deployment : BOOLEAN, dhcp : SUBSET Node, drift : SUBSET Node]
  /\ req \in [Slot -> RequestRow]
  /\ reached \subseteq Upgrade /\ changes \in 0 .. MaxChanges

Init ==
  /\ nodes = [n \in Node |-> NoNode]
  /\ settings = [n \in Node |-> [rv |-> 0, guided |-> FALSE]]
  /\ probed = [n \in Node |-> FALSE]
  /\ upgrades = [u \in Upgrade |-> [status |-> "none", node |-> None, target |-> 1]]
  /\ installed = [n \in Node |-> 1] /\ failing = [n \in Node |-> {}]
  /\ cluster = [deployment |-> FALSE, dhcp |-> {}, drift |-> {}]
  /\ req = [s \in Slot |-> Idle] /\ reached = {} /\ changes = 0

-----------------------------------------------------------------------------
\* Outside the controller, and what other components write

Change == changes < MaxChanges /\ changes' = changes + 1

CheckChanges(n, c) ==
  /\ Change
  /\ failing' = [failing EXCEPT ![n] = IF c \in @ THEN @ \ {c} ELSE @ \cup {c}]
  /\ UNCHANGED <<nodes, settings, probed, upgrades, installed, cluster, req, reached>>
\* The operator installs another version.
Install(n, v) ==
  /\ Change /\ v # installed[n]
  /\ installed' = [installed EXCEPT ![n] = v]
  /\ reached' = reached \cup {u \in Upgrade : upgrades[u].node = n /\ upgrades[u].target = v}
  /\ UNCHANGED <<nodes, settings, probed, upgrades, failing, cluster, req>>
ClusterChanges ==
  /\ Change
  /\ \/ cluster' = [cluster EXCEPT !.deployment = ~@]
     \/ \E n \in Node :
          \/ cluster' = [cluster EXCEPT !.dhcp = IF n \in @ THEN @ \ {n} ELSE @ \cup {n}]
          \/ cluster' = [cluster EXCEPT !.drift = IF n \in @ THEN @ \ {n} ELSE @ \cup {n}]
  /\ UNCHANGED <<nodes, settings, probed, upgrades, installed, failing, req, reached>>
\* A monitoring pass stores a probe, or the evidence grows old.
ProbeEvidence(n) ==
  /\ Change /\ nodes[n].present
  /\ probed' = [probed EXCEPT ![n] = ~@]
  /\ UNCHANGED <<nodes, settings, upgrades, installed, failing, cluster, req, reached>>

-----------------------------------------------------------------------------
\* Writes of the nodes table

Stored(n) == nodes[n].present /\ ~nodes[n].deleted
Expected(n) == {nodes[n].rv - 1, nodes[n].rv}

\* UPDATE ... WHERE record_version = expected AND deleted_at IS NULL
Conflict(n, expected) == ~Stored(n) \/ nodes[n].rv # expected
CanWrite(n, expected) == ~Conflict(n, expected) /\ nodes[n].rv < MaxRecord
\* Mutant: record_version is not compared.
MaintenanceWithoutVersion(n, on, expected) ==
  /\ Stored(n) /\ nodes[n].rv < MaxRecord
  /\ nodes' = [nodes EXCEPT ![n].maintenance = on, ![n].rv = @ + 1]
SetNodeMaintenance(n, on, expected) ==
  /\ CanWrite(n, expected)
  /\ nodes' = [nodes EXCEPT ![n].maintenance = on, ![n].rv = @ + 1]

\* Mutant: the poll writes to disabled and removed nodes too.
HealthOfAnyRow(n, health, version) ==
  nodes' = [nodes EXCEPT ![n].health = health, ![n].version = version]
UpdateNodeHealth(n, health, version) ==
  IF Stored(n) /\ nodes[n].enabled
    THEN nodes' = [nodes EXCEPT ![n].health = health, ![n].version = version]
    ELSE UNCHANGED nodes
RecordNodeTestResult(n, health, version) ==
  IF Stored(n)
    THEN nodes' = [nodes EXCEPT ![n].health = IF nodes[n].enabled THEN health ELSE "disabled",
                                ![n].version = version]
    ELSE UNCHANGED nodes

InsertNode(n, row) == nodes' = [nodes EXCEPT ![n] = row]
\* Removal resolves the node's drift in the same transaction.
SoftDeleteNode(n, expected) ==
  /\ CanWrite(n, expected)
  /\ nodes' = [nodes EXCEPT ![n].enabled = FALSE, ![n].health = "disabled", ![n].deleted = TRUE,
                            ![n].rv = @ + 1]
  /\ cluster' = [cluster EXCEPT !.drift = @ \ {n}]
SaveNodeLifecycleSettings(n, guided, expected) ==
  /\ settings[n].rv = expected /\ expected < MaxSettings
  /\ settings' = [settings EXCEPT ![n] = [rv |-> expected + 1, guided |-> guided]]

\* Registration probes the node first.
CreateNode(n, enabled) ==
  /\ ~nodes[n].present /\ "api" \notin failing[n]
  /\ InsertNode(n, [NoNode EXCEPT !.present = TRUE, !.enabled = enabled, !.version = installed[n],
                                  !.health = IF enabled THEN "healthy" ELSE "disabled"])
  /\ UNCHANGED <<settings, probed, upgrades, world, req, reached, changes>>
DeleteNode(n) ==
  /\ SoftDeleteNode(n, nodes[n].rv)
  /\ UNCHANGED <<settings, probed, upgrades, installed, failing, req, reached, changes>>
UpdateSettings(n, guided) ==
  /\ Stored(n) /\ SaveNodeLifecycleSettings(n, guided, settings[n].rv)
  /\ UNCHANGED <<nodes, probed, upgrades, world, req, reached, changes>>

-----------------------------------------------------------------------------
\* Requests

Begin(s, r) == req[s] = Idle /\ req' = [req EXCEPT ![s] = r]
Goto(s, r) == req' = [req EXCEPT ![s] = r]
Done(s) == req' = [req EXCEPT ![s] = Idle]
Request(kind, pc, n) == [Idle EXCEPT !.kind = kind, !.pc = pc, !.node = n]
At(s, kind, pc) == req[s].kind = kind /\ req[s].pc = pc
Others == <<settings, probed, upgrades, world, reached, changes>>

\* Health poll of an enabled node, connection test of any, and an edit, which
\* tests the node if it is to be enabled.
BeginPoll(s, n) ==
  /\ Stored(n) /\ nodes[n].enabled
  /\ Begin(s, [Request("poll", "status", n) EXCEPT !.version = nodes[n].version])
  /\ UNCHANGED <<nodes, Others>>
BeginTest(s, n) ==
  /\ Stored(n)
  /\ Begin(s, [Request("test", "status", n) EXCEPT !.version = nodes[n].version])
  /\ UNCHANGED <<nodes, Others>>
BeginUpdate(s, n, enabled, expected) ==
  /\ Stored(n)
  /\ Begin(s, [Request("update", IF enabled THEN "status" ELSE "write", n)
                EXCEPT !.flag = enabled, !.expected = expected, !.version = nodes[n].version])
  /\ UNCHANGED <<nodes, Others>>
\* The status call; an unreachable node keeps the version read before.
ProbeStatus(s) ==
  LET n == req[s].node
      up == "api" \notin failing[n]
  IN  /\ req[s].pc = "status"
      /\ IF req[s].kind = "update" /\ ~up THEN Done(s)
         ELSE Goto(s, [req[s] EXCEPT !.pc = "write",
                         !.failed = IF up THEN {} ELSE {"api"},
                         !.version = IF up THEN installed[n] ELSE @])
      /\ UNCHANGED <<nodes, Others>>
Health(r) == IF r.failed = {} THEN "healthy" ELSE "unreachable"
WriteHealth(s) ==
  /\ req[s].pc = "write"
  /\ CASE req[s].kind = "poll" -> UpdateNodeHealth(req[s].node, Health(req[s]), req[s].version)
       [] req[s].kind = "test" -> RecordNodeTestResult(req[s].node, Health(req[s]), req[s].version)
       [] OTHER -> FALSE
  /\ Done(s) /\ UNCHANGED Others
UpdateNode(s) ==
  LET r == req[s]
  IN  /\ At(s, "update", "write")
      /\ \/ /\ CanWrite(r.node, r.expected)
            /\ nodes' = [nodes EXCEPT ![r.node].enabled = r.flag, ![r.node].rv = @ + 1,
                            ![r.node].health = IF r.flag THEN "healthy" ELSE "disabled",
                            ![r.node].version = r.version]
         \/ Conflict(r.node, r.expected) /\ UNCHANGED nodes
      /\ Done(s) /\ UNCHANGED Others

-----------------------------------------------------------------------------
\* Entering maintenance

\* Serving nodes left without n, and what blocks the drain.
Remaining(n) == Cardinality({m \in Node \ {n} :
                  Stored(m) /\ nodes[m].enabled /\ ~nodes[m].maintenance /\ probed[m]})
NodeActiveDHCP(n) == n \in cluster.dhcp
ActiveDeploymentExists == cluster.deployment
OpenDriftExists(n) == n \in cluster.drift
PreflightAllowed(n) == ~ActiveDeploymentExists /\ ~NodeActiveDHCP(n)

\* A node already in maintenance is a success without a change.
EnterMaintenance(s, n, expected, breakGlass) ==
  /\ Stored(n) /\ ~nodes[n].maintenance
  /\ Begin(s, [Request("enter", "preflight", n) EXCEPT !.expected = expected, !.flag = breakGlass])
  /\ UNCHANGED <<nodes, Others>>
MaintenancePreflight(s) ==
  LET r == req[s]
  IN  /\ At(s, "enter", "preflight")
      /\ IF Stored(r.node) /\ PreflightAllowed(r.node) /\ (Remaining(r.node) = 0 => r.flag)
           THEN Goto(s, [r EXCEPT !.pc = "set"]) ELSE Done(s)
      /\ UNCHANGED <<nodes, Others>>
SetMaintenance(s) ==
  LET r == req[s]
  IN  /\ At(s, "enter", "set")
      /\ \/ SetNodeMaintenance(r.node, TRUE, r.expected)
         \/ Conflict(r.node, r.expected) /\ UNCHANGED nodes
      /\ Done(s) /\ UNCHANGED Others

-----------------------------------------------------------------------------
\* Returning to service, alone or as the end of an upgrade

BeginReturn(s, n, expected) ==
  /\ Stored(n) /\ nodes[n].maintenance
  /\ Begin(s, [Request("return", "validate", n) EXCEPT !.expected = expected, !.read = nodes[n].rv,
                                                       !.check = 1])
  /\ UNCHANGED <<nodes, Others>>
\* TLS is judged from the fresh observation, and not at all without one.
ObservationChecks(n) == IF "observation" \in failing[n] THEN {"observation", "tls"}
                        ELSE failing[n] \cap {"tls"}
ActiveDHCPNodes == Cardinality(cluster.dhcp)
CollectorChecks(n) == failing[n] \cap {"collectors"}
\* The DNS check is a probe: it wants an enabled node and stores its result.
CanProbe(n) == Stored(n) /\ nodes[n].enabled
Failed(n, call) ==
  CASE call = "api" -> failing[n] \cap {"api"}
    [] call = "observation" -> ObservationChecks(n)
    [] call = "dns" -> IF CanProbe(n) THEN failing[n] \cap {"dns"} ELSE {"dns"}
    [] call = "database" -> CollectorChecks(n) \cup (IF ActiveDHCPNodes > 1 THEN {"dhcp"} ELSE {})
Validate(s) ==
  LET r == req[s]
      call == Gather[r.check]
  IN  /\ r.pc = "validate" /\ r.check <= Len(Gather)
      /\ Goto(s, [r EXCEPT !.check = @ + 1, !.failed = @ \cup Failed(r.node, call)])
      /\ probed' = [probed EXCEPT ![r.node] =
           IF call = "dns" /\ CanProbe(r.node) THEN "dns" \notin failing[r.node] ELSE @]
      /\ UNCHANGED <<nodes, settings, upgrades, world, reached, changes>>
\* A request ends, or the completion of its upgrade goes on with the outcome.
Conclude(s, ok) ==
  IF req[s].upgrade = None THEN Done(s)
  ELSE Goto(s, [req[s] EXCEPT !.pc = "finish", !.flag = ok])
ReturnToService(s) ==
  LET r == req[s]
  IN  /\ r.pc = "validate" /\ r.check = Len(Gather) + 1
      /\ \/ r.failed = {} /\ SetNodeMaintenance(r.node, FALSE, r.expected) /\ Conclude(s, TRUE)
         \/ /\ r.failed # {} \/ Conflict(r.node, r.expected)
            /\ UNCHANGED nodes /\ Conclude(s, FALSE)
      /\ UNCHANGED Others

-----------------------------------------------------------------------------
\* Guided upgrades

\* Native and Docker installations only.
Guided(n) == settings[n].guided
StartUpgrade(s, n, target) ==
  /\ Stored(n) /\ Guided(n) /\ nodes[n].maintenance
  /\ PreflightAllowed(n) /\ ~OpenDriftExists(n)
  /\ Begin(s, [Request("start", "create", n) EXCEPT !.version = target])
  /\ UNCHANGED <<nodes, Others>>
\* At most one active operation per node, by a unique index.
CreateUpgrade(s, u) ==
  LET r == req[s]
  IN  /\ At(s, "start", "create") /\ upgrades[u].status = "none"
      /\ IF \E v \in Upgrade : upgrades[v].node = r.node /\ upgrades[v].status \in Active
           THEN UNCHANGED <<upgrades, reached>>
           ELSE /\ upgrades' = [upgrades EXCEPT ![u] =
                     [status |-> "awaiting_operator", node |-> r.node, target |-> r.version]]
                /\ reached' = IF installed[r.node] = r.version THEN reached \cup {u} ELSE reached
      /\ Done(s) /\ UNCHANGED <<nodes, settings, probed, world, changes>>

BeginComplete(s, u, expected) ==
  /\ upgrades[u].status = "awaiting_operator"
  /\ Begin(s, [Request("complete", "version", upgrades[u].node)
                EXCEPT !.expected = expected, !.upgrade = u])
  /\ UNCHANGED <<nodes, Others>>
\* Mutant: the installed version is not compared with the target.
CompleteAnyVersion(s) ==
  LET r == req[s]
  IN  /\ At(s, "complete", "version")
      /\ Goto(s, IF nodes[r.node].maintenance
                   THEN [r EXCEPT !.pc = "validate", !.read = nodes[r.node].rv, !.check = 1]
                   ELSE [r EXCEPT !.pc = "finish", !.flag = TRUE])
      /\ UNCHANGED <<nodes, Others>>
\* The installed version must be the target; then the return to service, which
\* is a success for a node that has left maintenance.
ObserveVersion(s) ==
  LET r == req[s]
      seen == Stored(r.node) /\ "api" \notin failing[r.node]
              /\ installed[r.node] = upgrades[r.upgrade].target
  IN  /\ At(s, "complete", "version")
      /\ Goto(s, IF ~seen THEN [r EXCEPT !.pc = "finish"] ELSE [r EXCEPT !.pc = "return"])
      /\ UNCHANGED <<nodes, Others>>
ReturnUpgraded(s) ==
  LET r == req[s]
  IN  /\ At(s, "complete", "return")
      /\ Goto(s, IF ~Stored(r.node) THEN [r EXCEPT !.pc = "finish"]
                 ELSE IF nodes[r.node].maintenance
                   THEN [r EXCEPT !.pc = "validate", !.read = nodes[r.node].rv, !.check = 1]
                   ELSE [r EXCEPT !.pc = "finish", !.flag = TRUE])
      /\ UNCHANGED <<nodes, Others>>
\* UpdateUpgrade has no guard on the status.
CompleteUpgrade(s) ==
  LET r == req[s]
  IN  /\ At(s, "complete", "finish")
      /\ upgrades' = [upgrades EXCEPT ![r.upgrade].status = IF r.flag THEN "succeeded" ELSE "failed"]
      /\ Done(s) /\ UNCHANGED <<nodes, settings, probed, world, reached, changes>>

-----------------------------------------------------------------------------
\* Faults: a failed query ends a request where it stands, a restart ends all.
RequestFails(s) ==
  /\ "repository" \in Faults /\ Change /\ req[s] # Idle /\ Done(s)
  /\ UNCHANGED <<nodes, settings, probed, upgrades, world, reached>>
Restart ==
  /\ "restart" \in Faults /\ Change /\ req' = [s \in Slot |-> Idle]
  /\ UNCHANGED <<nodes, settings, probed, upgrades, world, reached>>

Calls(s) ==
  \/ \E n \in Node :
       \/ BeginPoll(s, n) \/ BeginTest(s, n)
       \/ \E e \in Expected(n) :
            \/ \E b \in BOOLEAN : BeginUpdate(s, n, b, e) \/ EnterMaintenance(s, n, e, b)
            \/ BeginReturn(s, n, e)
       \/ \E v \in 1 .. MaxVersion : StartUpgrade(s, n, v)
  \/ \E u \in Upgrade :
       upgrades[u].node # None /\ \E e \in Expected(upgrades[u].node) : BeginComplete(s, u, e)
Steps(s) ==
  \/ ProbeStatus(s) \/ WriteHealth(s) \/ UpdateNode(s)
  \/ MaintenancePreflight(s) \/ SetMaintenance(s) \/ Validate(s) \/ ReturnToService(s)
  \/ ObserveVersion(s) \/ ReturnUpgraded(s) \/ CompleteUpgrade(s)
  \/ \E u \in Upgrade : CreateUpgrade(s, u)

Next ==
  \/ \E s \in Slot : Calls(s) \/ Steps(s) \/ RequestFails(s)
  \/ \E n \in Node :
       \/ ProbeEvidence(n)
       \/ \E b \in BOOLEAN : CreateNode(n, b)
       \/ DeleteNode(n)
       \/ \E g \in BOOLEAN : UpdateSettings(n, g)
       \/ \E c \in Defect : CheckChanges(n, c)
       \/ \E v \in 1 .. MaxVersion : Install(n, v)
  \/ ClusterChanges \/ Restart

Spec == Init /\ [][Next]_vars

-----------------------------------------------------------------------------
\* Properties

\* Maintenance ends only by a request whose required checks all passed and that
\* found the node in this very period of maintenance: nothing has written the
\* row since, so the node was not returned, edited and drained again meanwhile.
ReturnOnCurrentEvidence ==
  [][\A n \in Node : nodes[n].maintenance /\ ~nodes'[n].maintenance
       => \E s \in Slot : /\ req[s].node = n /\ req[s].pc = "validate"
                          /\ req[s].failed = {} /\ req[s].check = Len(Gather) + 1
                          /\ req[s].read = nodes[n].rv]_vars

\* A node that is disabled or removed is shown as disabled, whatever polls and
\* tests were under way when it was.
DisabledIsDisabled == \A n \in Node : nodes[n].health = "disabled" <=> ~nodes[n].enabled

\* An upgrade is recorded as succeeded only if the node has run the requested
\* version since the upgrade was started.
UpgradeReachedTarget == \A u \in Upgrade : upgrades[u].status = "succeeded" => u \in reached

=============================================================================
