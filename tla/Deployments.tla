---------------------------- MODULE Deployments ----------------------------
(***************************************************************************)
(* Deployments of one cluster: the deployment API, the deployment executor *)
(* worker, the maintenance and node-management calls that race with them,  *)
(* and recovery after a controller restart.                                *)
(*                                                                         *)
(* Sources: internal/controlplane/{service,executor}.go,                   *)
(* internal/database/controlplane.go, internal/database/nodes.go,          *)
(* internal/haoperations/service.go.                                       *)
(*                                                                         *)
(* A step of the executor is one call of the repository or of a node: any  *)
(* API request may commit between two of them.  PostgreSQL transactions    *)
(* are atomic.  One cluster is enough: every table is keyed by cluster and *)
(* clusters share only the executor, which serves one deployment at a time.*)
(***************************************************************************)
EXTENDS Integers, Sequences, FiniteSets

CONSTANTS
  Node,          \* managed AdGuard Home nodes
  Revision,      \* immutable configuration revisions
  Deployment,    \* identifiers of deployments that may be created
  Rank,          \* ORDER BY lower(name), id of ListNodes
  DhcpOwner,     \* the node a revision enables DHCP on, or None
  Covers,        \* the nodes a revision holds an override for
  MaxTargets,    \* bound: nodes of one deployment
  MaxStarts,     \* bound: start requests between preview and insert
  Calls,         \* bound: the kinds of API calls operators make
  Faults,        \* environment faults that may happen
  None,          \* SQL NULL
  Foreign        \* node content that is no revision's

FaultKind == {"repository", "node", "restart", "edit"}
CallKind == {"deploy", "cancel", "delete", "updateNode", "removeNode", "maintenance",
             "restore", "policy"}

ASSUME NoneIsNoRow == None \notin Node \cup Revision \cup Deployment
ASSUME ForeignIsNoRevision == Foreign \notin Revision
ASSUME RankOrders ==
  /\ Rank \in [Node -> Nat]
  /\ \A m, n \in Node : Rank[m] = Rank[n] => m = n
ASSUME RevisionFacts ==
  /\ DhcpOwner \in [Revision -> Node \cup {None}]
  /\ Covers \in [Revision -> SUBSET Node]
ASSUME Bounds ==
  /\ MaxTargets \in Nat \ {0} /\ MaxStarts \in Nat
  /\ Calls \subseteq CallKind /\ Faults \subseteq FaultKind

VARIABLES
  deployments,     \* table deployments
  tasks,           \* table deployment_nodes: status by position
  nodes,           \* table nodes
  activeRevision,  \* clusters.active_revision_id
  config,          \* what each node really runs
  observedDhcp,    \* nodes whose latest successful snapshot has DHCP enabled
  exec,            \* the executor goroutine
  starts,          \* start requests that have passed their preview
  entering,        \* maintenance requests that have passed their preflight
  written,         \* history: configuration writes by deployment and position
  lateStarts       \* history: tasks begun after cancellation was requested

vars == <<deployments, tasks, nodes, activeRevision, config, observedDhcp,
          exec, starts, entering, written, lateStarts>>

-----------------------------------------------------------------------------
\* Types and row shapes

Active == {"queued", "validating", "running", "cancelling"}
Terminal == {"succeeded", "partially_succeeded", "failed", "cancelled", "interrupted"}
Origin == {"manual", "rollback", "reconciliation"}
TaskStatus == {"none", "pending", "applying", "verifying", "succeeded",
               "failed", "skipped", "interrupted"}
Convergence == {"pending", "converged", "drifted", "applying", "verifying",
                "apply_failed", "observation_failed", "unsupported", "maintenance"}
Position == 1 .. MaxTargets
Content == Revision \cup {Foreign}
Step == {"idle", "load", "prepare", "setRunning", "boundary", "begin",
         "noteApplying", "write", "markVerifying", "noteVerifying", "readBack",
         "succeed", "markApplied", "fail", "noteFailed", "skip", "finish"}
\* The targets of a deployment in rollout order.
Targets == UNION {[1 .. k -> Node] : k \in Position}

DeploymentRow ==
  [status : Active \cup Terminal, origin : Origin, revision : Revision,
   targets : Targets, cancelRequested : BOOLEAN]
\* An identifier without a row: not used yet, or deleted (never used again).
NoRow(s) == [status |-> s, origin |-> None, revision |-> None,
             targets |-> << >>, cancelRequested |-> FALSE]
NodeRow ==
  [enabled : BOOLEAN, deleted : BOOLEAN, maintenance : BOOLEAN,
   applied : Revision \cup {None}, convergence : Convergence]
ExecutorState == [pc : Step, dep : Deployment \cup {None}, index : Nat,
                  outcome : Terminal \cup {None}]
StartRequest == [revision : Revision, origin : Origin, targets : Targets]
Idle == [pc |-> "idle", dep |-> None, index |-> 0, outcome |-> None]

TypeOK ==
  /\ deployments \in [Deployment -> DeploymentRow \cup {NoRow("unused"), NoRow("deleted")}]
  /\ tasks \in [Deployment -> [Position -> TaskStatus]]
  /\ nodes \in [Node -> NodeRow]
  /\ activeRevision \in Revision \cup {None}
  /\ config \in [Node -> [content : Content, dhcp : BOOLEAN]]
  /\ observedDhcp \in SUBSET Node
  /\ exec \in ExecutorState
  /\ starts \in SUBSET StartRequest
  /\ entering \in SUBSET Node
  /\ written \in [Deployment -> [Position -> Nat]]
  /\ lateStarts \in [Deployment -> Nat]

Init ==
  /\ deployments = [d \in Deployment |-> NoRow("unused")]
  /\ tasks = [d \in Deployment |-> [i \in Position |-> "none"]]
  /\ nodes = [n \in Node |-> [enabled |-> TRUE, deleted |-> FALSE, maintenance |-> FALSE,
                              applied |-> None, convergence |-> "pending"]]
  /\ activeRevision = None
  /\ \E owner \in Node \cup {None} :
       /\ config = [n \in Node |-> [content |-> Foreign, dhcp |-> n = owner]]
       /\ observedDhcp = {owner} \cap Node
  /\ exec = Idle
  /\ starts = {}
  /\ entering = {}
  /\ written = [d \in Deployment |-> [i \in Position |-> 0]]
  /\ lateStarts = [d \in Deployment |-> 0]

-----------------------------------------------------------------------------
\* The deployment API (Service.startDeployment, Rollback, CancelDeployment,
\* DeleteUnstartedDeployment)

ClusterHasActiveDeployment == \E d \in Deployment : deployments[d].status \in Active

\* What a node runs once revision r has been applied to it completely.
Effective(r, n) == [content |-> r, dhcp |-> DhcpOwner[r] = n]

\* Mutant: nodes in name order whatever their DHCP role.
BeforeByName(r, m, n) == Rank[m] < Rank[n]

\* The stable sort of previewDocument: nodes that must not serve DHCP first.
Before(r, m, n) ==
  \/ DhcpOwner[r] # m /\ DhcpOwner[r] = n
  \/ (DhcpOwner[r] = m) = (DhcpOwner[r] = n) /\ Rank[m] < Rank[n]

Rollouts(r, S) ==
  {s \in UNION {[1 .. k -> S] : k \in Position} :
     /\ \A n \in S : \E i \in DOMAIN s : s[i] = n
     /\ \A i, j \in DOMAIN s : i < j => Before(r, s[i], s[j])}

\* previewDocument: the selected nodes that may be mutated, in rollout order.
\* Capability, snapshot and listener issues may reject a preview at any time;
\* rejecting changes nothing.
PreviewTargets(r, selected) ==
  LET S == {n \in selected : nodes[n].enabled /\ ~nodes[n].maintenance}
      required == {n \in Node : nodes[n].enabled}
  IN  IF S # {} /\ required \subseteq Covers[r] THEN Rollouts(r, S) ELSE {}

PreviewDeployment(r, origin) ==
  /\ "deploy" \in Calls
  /\ Cardinality(starts) < MaxStarts
  /\ origin \in {"manual", "rollback"}
  /\ origin = "rollback" => activeRevision \notin {None, r}
  /\ \E s \in PreviewTargets(r, Node) :
       starts' = starts \cup {[revision |-> r, origin |-> origin, targets |-> s]}
  /\ UNCHANGED <<deployments, tasks, nodes, activeRevision, config, observedDhcp,
                 exec, entering, written, lateStarts>>

\* Mutant: without the unique index.
InsertUnchecked(d, r, origin, s) ==
  /\ deployments[d] = NoRow("unused")
  /\ deployments' = [deployments EXCEPT ![d] =
       [status |-> "queued", origin |-> origin, revision |-> r,
        targets |-> s, cancelRequested |-> FALSE]]
  /\ tasks' = [tasks EXCEPT ![d] =
       [i \in Position |-> IF i \in DOMAIN s THEN "pending" ELSE "none"]]

\* One transaction; the partial unique index deployments_one_active_per_cluster
\* admits one active deployment per cluster.
InsertDeployment(d, r, origin, s) ==
  /\ ~ClusterHasActiveDeployment
  /\ deployments[d] = NoRow("unused")
  /\ deployments' = [deployments EXCEPT ![d] =
       [status |-> "queued", origin |-> origin, revision |-> r,
        targets |-> s, cancelRequested |-> FALSE]]
  /\ tasks' = [tasks EXCEPT ![d] =
       [i \in Position |-> IF i \in DOMAIN s THEN "pending" ELSE "none"]]

CreateDeployment(q) ==
  /\ q \in starts
  /\ starts' = starts \ {q}
  /\ \/ \E d \in Deployment : InsertDeployment(d, q.revision, q.origin, q.targets)
     \/ ClusterHasActiveDeployment /\ UNCHANGED <<deployments, tasks>>  \* conflict
  /\ UNCHANGED <<nodes, activeRevision, config, observedDhcp, exec, entering,
                 written, lateStarts>>

RequestDeploymentCancel(d) ==
  /\ "cancel" \in Calls
  /\ deployments[d].status \in {"queued", "validating", "running"}
  /\ deployments' = [deployments EXCEPT
       ![d].cancelRequested = TRUE,
       ![d].status = IF @ = "queued" THEN "cancelling" ELSE @]
  /\ UNCHANGED <<tasks, nodes, activeRevision, config, observedDhcp, exec,
                 starts, entering, written, lateStarts>>

DeleteUnstartedDeployment(d) ==
  /\ "delete" \in Calls
  /\ deployments[d].status = "queued"
  /\ \A i \in Position : tasks[d][i] \in {"pending", "none"}
  /\ deployments' = [deployments EXCEPT ![d] = NoRow("deleted")]
  /\ tasks' = [tasks EXCEPT ![d] = [i \in Position |-> "none"]]
  /\ UNCHANGED <<nodes, activeRevision, config, observedDhcp, exec,
                 starts, entering, written, lateStarts>>

-----------------------------------------------------------------------------
\* Node management.  Every write of a node record compares and increments
\* record_version, so it makes maintenance requests in flight for it conflict.

UpdateNode(n, enabled) ==
  /\ "updateNode" \in Calls
  /\ ~nodes[n].deleted
  /\ nodes' = [nodes EXCEPT ![n].enabled = enabled,
       ![n].convergence = IF nodes[n].maintenance THEN "maintenance" ELSE "pending"]
  /\ entering' = entering \ {n}
  /\ UNCHANGED <<deployments, tasks, activeRevision, config, observedDhcp, exec,
                 starts, written, lateStarts>>

SoftDeleteNode(n) ==
  /\ "removeNode" \in Calls
  /\ ~nodes[n].deleted
  /\ nodes' = [nodes EXCEPT ![n].enabled = FALSE, ![n].deleted = TRUE]
  /\ entering' = entering \ {n}
  /\ UNCHANGED <<deployments, tasks, activeRevision, config, observedDhcp, exec,
                 starts, written, lateStarts>>

\* EnterMaintenance: the preflight reads first, the node record is written
\* later.  DNS capacity never blocks: break-glass confirmation overrides it.
MaintenancePreflight(n) ==
  /\ "maintenance" \in Calls
  /\ ~nodes[n].deleted /\ ~nodes[n].maintenance
  /\ ~ClusterHasActiveDeployment
  /\ n \notin observedDhcp
  /\ entering' = entering \cup {n}
  /\ UNCHANGED <<deployments, tasks, nodes, activeRevision, config, observedDhcp,
                 exec, starts, written, lateStarts>>

EnterMaintenance(n) ==
  /\ n \in entering
  /\ nodes' = [nodes EXCEPT ![n].maintenance = TRUE, ![n].convergence = "maintenance"]
  /\ entering' = entering \ {n}
  /\ UNCHANGED <<deployments, tasks, activeRevision, config, observedDhcp, exec,
                 starts, written, lateStarts>>

\* A successful Observe stores a snapshot of the node.
Observed(n) == IF config[n].dhcp THEN observedDhcp \cup {n} ELSE observedDhcp \ {n}

\* ReturnToService observes the node and refuses when two latest snapshots
\* show DHCP enabled; its other checks may refuse at any time.
ReturnToService(n) ==
  /\ nodes[n].enabled /\ nodes[n].maintenance
  /\ observedDhcp' = Observed(n)
  /\ LET live == {m \in observedDhcp' : ~nodes[m].deleted}
     IN  IF \A m1, m2 \in live : m1 = m2
           THEN nodes' = [nodes EXCEPT ![n].maintenance = FALSE, ![n].convergence = "pending"]
           ELSE UNCHANGED nodes
  /\ UNCHANGED <<deployments, tasks, activeRevision, config, exec, starts,
                 entering, written, lateStarts>>

-----------------------------------------------------------------------------
\* The deployment executor (Executor.RunOnce, execute, failBeforeMutation,
\* failNode, cancel)

row == deployments[exec.dep]
target == row.targets[exec.index]
\* No target follows the current one.
atLast == exec.index + 1 \notin DOMAIN row.targets

Move(pc, i, outcome) ==
  exec' = [exec EXCEPT !.pc = pc, !.index = i, !.outcome = outcome]
GoTo(pc) == Move(pc, exec.index, exec.outcome)
GoToTarget(pc, i) == Move(pc, i, exec.outcome)
\* Mark every task from position i on as skipped, then finish with outcome.
SkipFrom(i, outcome) == Move("skip", i, outcome)
SetTask(status) == tasks' = [tasks EXCEPT ![exec.dep][exec.index] = status]
NoteConvergence(status) == nodes' = [nodes EXCEPT ![target].convergence = status]

\* Mutant: a cancelled deployment is never picked up.
ClaimQueuedOnly ==
  /\ exec.pc = "idle"
  /\ \E d \in Deployment :
       /\ deployments[d].status = "queued"
       /\ deployments' = [deployments EXCEPT ![d].status = "validating"]
       /\ exec' = [Idle EXCEPT !.pc = "load", !.dep = d]
  /\ UNCHANGED <<tasks, nodes, activeRevision, config, observedDhcp, starts,
                 entering, written, lateStarts>>

ClaimDeployment ==
  /\ exec.pc = "idle"
  /\ \E d \in Deployment :
       /\ deployments[d].status \in {"queued", "cancelling"}
       /\ deployments' = [deployments EXCEPT ![d].status =
            IF deployments[d].cancelRequested THEN "cancelling" ELSE "validating"]
       /\ exec' = [Idle EXCEPT !.pc = "load", !.dep = d]
  /\ UNCHANGED <<tasks, nodes, activeRevision, config, observedDhcp, starts,
                 entering, written, lateStarts>>

LoadDeployment ==
  /\ exec.pc = "load"
  /\ IF row.cancelRequested \/ row.status = "cancelling"
       THEN SkipFrom(1, "cancelled")
       ELSE \/ GoToTarget("prepare", 1)
            \/ "repository" \in Faults /\ SkipFrom(1, "failed")  \* RevisionByID fails
  /\ UNCHANGED <<deployments, tasks, nodes, activeRevision, config, observedDhcp,
                 starts, entering, written, lateStarts>>

\* Revalidate one target; no node is mutated before all of them pass.
PrepareTarget ==
  /\ exec.pc = "prepare"
  /\ \/ /\ nodes[target].enabled /\ ~nodes[target].maintenance
        /\ target \in Covers[row.revision]
        /\ observedDhcp' = Observed(target)
        /\ IF atLast THEN GoTo("setRunning") ELSE GoToTarget("prepare", exec.index + 1)
     \/ /\ \/ ~nodes[target].enabled \/ nodes[target].maintenance
           \/ target \notin Covers[row.revision]
        /\ SkipFrom(1, "failed")
        /\ UNCHANGED observedDhcp
     \/ /\ "node" \in Faults  \* unsupported, not observable, listener changed
        /\ SkipFrom(1, "failed")
        /\ observedDhcp' \in {observedDhcp, Observed(target)}
  /\ UNCHANGED <<deployments, tasks, nodes, activeRevision, config, starts,
                 entering, written, lateStarts>>

SetDeploymentRunning ==
  /\ exec.pc = "setRunning"
  /\ deployments' = [deployments EXCEPT ![exec.dep].status =
       IF @ = "validating" THEN "running" ELSE @]
  /\ GoToTarget("boundary", 1)
  /\ UNCHANGED <<tasks, nodes, activeRevision, config, observedDhcp, starts,
                 entering, written, lateStarts>>

\* Mutants: the flag is not reloaded; the outcome is not set.
BoundaryIgnoresCancel ==
  /\ exec.pc = "boundary"
  /\ GoTo("begin")
  /\ UNCHANGED <<deployments, tasks, nodes, activeRevision, config, observedDhcp,
                 starts, entering, written, lateStarts>>
BoundaryWithoutOutcome ==
  /\ exec.pc = "boundary"
  /\ IF row.cancelRequested THEN SkipFrom(exec.index, None) ELSE GoTo("begin")
  /\ UNCHANGED <<deployments, tasks, nodes, activeRevision, config, observedDhcp,
                 starts, entering, written, lateStarts>>

\* Between two tasks: reload the row, honour a cancellation.
SafeBoundary ==
  /\ exec.pc = "boundary"
  /\ IF row.cancelRequested THEN SkipFrom(exec.index, "cancelled") ELSE GoTo("begin")
  /\ UNCHANGED <<deployments, tasks, nodes, activeRevision, config, observedDhcp,
                 starts, entering, written, lateStarts>>

BeginTask ==
  /\ exec.pc = "begin"
  /\ SetTask("applying")
  /\ GoTo("noteApplying")
  /\ lateStarts' = [lateStarts EXCEPT ![exec.dep] =
       IF row.cancelRequested THEN @ + 1 ELSE @]
  /\ UNCHANGED <<deployments, nodes, activeRevision, config, observedDhcp, starts,
                 entering, written>>

NoteApplying ==
  /\ exec.pc = "noteApplying"
  /\ NoteConvergence("applying")
  /\ GoTo("write")
  /\ UNCHANGED <<deployments, tasks, activeRevision, config, observedDhcp, starts,
                 entering, written, lateStarts>>

\* What an ApplyConfiguration that reports an error leaves behind: it writes
\* section by section, DHCP last, and the answer to the last write may be lost.
PartialWrites(r, n) ==
  {config[n], [config[n] EXCEPT !.content = Foreign],
   [Effective(r, n) EXCEPT !.content = Foreign], Effective(r, n)}

ApplyConfiguration ==
  /\ exec.pc = "write"
  /\ \/ /\ config' = [config EXCEPT ![target] = Effective(row.revision, target)]
        /\ GoTo("markVerifying")
     \/ /\ "node" \in Faults
        /\ \E c \in PartialWrites(row.revision, target) :
             config' = [config EXCEPT ![target] = c]
        /\ GoTo("fail")
  /\ written' = [written EXCEPT ![exec.dep][exec.index] = @ + 1]
  /\ UNCHANGED <<deployments, tasks, nodes, activeRevision, observedDhcp, starts,
                 entering, lateStarts>>

MarkVerifying ==
  /\ exec.pc = "markVerifying"
  /\ SetTask("verifying")
  /\ GoTo("noteVerifying")
  /\ UNCHANGED <<deployments, nodes, activeRevision, config, observedDhcp, starts,
                 entering, written, lateStarts>>

NoteVerifying ==
  /\ exec.pc = "noteVerifying"
  /\ NoteConvergence("verifying")
  /\ GoTo("readBack")
  /\ UNCHANGED <<deployments, tasks, activeRevision, config, observedDhcp, starts,
                 entering, written, lateStarts>>

\* Observe the node again and compare; a disabled node cannot be observed.
ReadBack ==
  /\ exec.pc = "readBack"
  /\ \/ /\ nodes[target].enabled
        /\ observedDhcp' = Observed(target)
        /\ GoTo(IF config[target] = Effective(row.revision, target) THEN "succeed" ELSE "fail")
     \/ /\ ~nodes[target].enabled \/ "node" \in Faults
        /\ UNCHANGED observedDhcp
        /\ GoTo("fail")
  /\ UNCHANGED <<deployments, tasks, nodes, activeRevision, config, starts,
                 entering, written, lateStarts>>

SucceedTask ==
  /\ exec.pc = "succeed"
  /\ SetTask("succeeded")
  /\ GoTo("markApplied")
  /\ UNCHANGED <<deployments, nodes, activeRevision, config, observedDhcp, starts,
                 entering, written, lateStarts>>

MarkNodeApplied ==
  /\ exec.pc = "markApplied"
  /\ nodes' = [nodes EXCEPT ![target].applied = row.revision,
                            ![target].convergence = "converged"]
  /\ IF atLast THEN Move("finish", exec.index, "succeeded")
               ELSE GoToTarget("boundary", exec.index + 1)
  /\ UNCHANGED <<deployments, tasks, activeRevision, config, observedDhcp, starts,
                 entering, written, lateStarts>>

FailTask ==
  /\ exec.pc = "fail"
  /\ SetTask("failed")
  /\ GoTo("noteFailed")
  /\ UNCHANGED <<deployments, nodes, activeRevision, config, observedDhcp, starts,
                 entering, written, lateStarts>>

\* Mutants: the rollout goes on after a failure; the verified nodes are forgotten.
FailureContinues ==
  /\ exec.pc = "noteFailed"
  /\ NoteConvergence("apply_failed")
  /\ IF atLast THEN SkipFrom(exec.index + 1, "partially_succeeded")
               ELSE GoToTarget("boundary", exec.index + 1)
  /\ UNCHANGED <<deployments, tasks, activeRevision, config, observedDhcp, starts,
                 entering, written, lateStarts>>
FailureForgetsSuccess ==
  /\ exec.pc = "noteFailed"
  /\ NoteConvergence("apply_failed")
  /\ SkipFrom(exec.index + 1, "failed")
  /\ UNCHANGED <<deployments, tasks, activeRevision, config, observedDhcp, starts,
                 entering, written, lateStarts>>

NoteFailed ==
  /\ exec.pc = "noteFailed"
  /\ NoteConvergence("apply_failed")
  /\ SkipFrom(exec.index + 1, IF exec.index > 1 THEN "partially_succeeded" ELSE "failed")
  /\ UNCHANGED <<deployments, tasks, activeRevision, config, observedDhcp, starts,
                 entering, written, lateStarts>>

\* cancel skips pending tasks only; the failure paths skip what they meet.
SkipTask ==
  /\ exec.pc = "skip"
  /\ IF exec.index \notin DOMAIN row.targets
       THEN GoTo("finish") /\ UNCHANGED tasks
       ELSE /\ GoToTarget("skip", exec.index + 1)
            /\ IF exec.outcome = "cancelled" /\ tasks[exec.dep][exec.index] # "pending"
                 THEN UNCHANGED tasks
                 ELSE SetTask("skipped")
  /\ UNCHANGED <<deployments, nodes, activeRevision, config, observedDhcp, starts,
                 entering, written, lateStarts>>

\* Mutant: a partial rollout activates its revision.
FinishActivatesPartial ==
  /\ exec.pc = "finish"
  /\ deployments' = [deployments EXCEPT ![exec.dep].status = exec.outcome]
  /\ activeRevision' = IF /\ exec.outcome \in {"succeeded", "partially_succeeded"}
                          /\ row.origin # "reconciliation"
                         THEN row.revision ELSE activeRevision
  /\ exec' = Idle
  /\ UNCHANGED <<tasks, nodes, config, observedDhcp, starts, entering, written,
                 lateStarts>>

FinishDeployment ==
  /\ exec.pc = "finish"
  /\ deployments' = [deployments EXCEPT ![exec.dep].status = exec.outcome]
  /\ activeRevision' = IF exec.outcome = "succeeded" /\ row.origin # "reconciliation"
                         THEN row.revision ELSE activeRevision
  /\ exec' = Idle
  /\ UNCHANGED <<tasks, nodes, config, observedDhcp, starts, entering, written,
                 lateStarts>>

\* Every repository call of execute may fail; the error ends RunOnce and the
\* rows stay as they are.
RepositoryStep == Step \ {"idle", "prepare", "write", "readBack"}

RepositoryFails ==
  /\ "repository" \in Faults
  /\ exec.pc \in RepositoryStep
  /\ exec' = Idle
  /\ UNCHANGED <<deployments, tasks, nodes, activeRevision, config, observedDhcp,
                 starts, entering, written, lateStarts>>

-----------------------------------------------------------------------------
\* The environment

\* Mutants: interrupted work is queued again; finished rows are rewritten too.
RequeueDeployments ==
  LET cut == {d \in Deployment : deployments[d].status \in {"validating", "running"}}
  IN  /\ deployments' = [d \in Deployment |->
           IF d \in cut THEN [deployments[d] EXCEPT !.status = "queued"] ELSE deployments[d]]
      /\ tasks' = [d \in Deployment |-> [i \in Position |->
           IF tasks[d][i] \in {"applying", "verifying"} THEN "pending" ELSE tasks[d][i]]]
InterruptEverything ==
  /\ deployments' = [d \in Deployment |->
       IF deployments[d].status \in {"unused", "deleted", "queued"} THEN deployments[d]
       ELSE [deployments[d] EXCEPT !.status = "interrupted"]]
  /\ tasks' = [d \in Deployment |-> [i \in Position |->
       CASE tasks[d][i] \in {"applying", "verifying"} -> "interrupted"
         [] tasks[d][i] = "pending" /\ deployments[d].status # "queued" -> "skipped"
         [] OTHER -> tasks[d][i]]]

\* The process ends: goroutines and requests in flight are lost.  At startup
\* InterruptDeployments runs before any worker and before the API listens.
InterruptDeployments ==
  LET cut == {d \in Deployment : deployments[d].status \in {"validating", "running", "cancelling"}}
  IN  /\ deployments' = [d \in Deployment |->
           IF d \in cut THEN [deployments[d] EXCEPT !.status = "interrupted"]
                        ELSE deployments[d]]
      /\ tasks' = [d \in Deployment |-> [i \in Position |->
           CASE tasks[d][i] \in {"applying", "verifying"} -> "interrupted"
             [] tasks[d][i] = "pending" /\ d \in cut -> "skipped"
             [] OTHER -> tasks[d][i]]]

Restart ==
  /\ "restart" \in Faults
  /\ InterruptDeployments
  /\ exec' = Idle
  /\ starts' = {}
  /\ entering' = {}
  /\ UNCHANGED <<nodes, activeRevision, config, observedDhcp, written, lateStarts>>

\* Someone changes a node behind the controller's back (not its DHCP role).
EditNode(n) ==
  /\ "edit" \in Faults
  /\ config' = [config EXCEPT ![n].content = Foreign]
  /\ UNCHANGED <<deployments, tasks, nodes, activeRevision, observedDhcp, exec,
                 starts, entering, written, lateStarts>>

-----------------------------------------------------------------------------
DeploymentApi ==
  \/ \E r \in Revision, origin \in Origin : PreviewDeployment(r, origin)
  \/ \E q \in starts : CreateDeployment(q)
  \/ \E d \in Deployment : RequestDeploymentCancel(d) \/ DeleteUnstartedDeployment(d)

NodeApi ==
  \E n \in Node :
    \/ \E enabled \in BOOLEAN : UpdateNode(n, enabled)
    \/ SoftDeleteNode(n)
    \/ MaintenancePreflight(n)
    \/ EnterMaintenance(n)
    \/ ReturnToService(n)

\* The steps of execute between claiming a deployment and finishing it.
ExecutorStep ==
  \/ LoadDeployment \/ PrepareTarget \/ SetDeploymentRunning \/ SafeBoundary
  \/ BeginTask \/ NoteApplying \/ ApplyConfiguration \/ MarkVerifying
  \/ NoteVerifying \/ ReadBack \/ SucceedTask \/ MarkNodeApplied
  \/ FailTask \/ NoteFailed \/ SkipTask

Executor == ClaimDeployment \/ ExecutorStep \/ FinishDeployment

Environment == RepositoryFails \/ Restart \/ \E n \in Node : EditNode(n)

Next == DeploymentApi \/ NodeApi \/ Executor \/ Environment

\* The worker loop of jobs.RunDeploymentExecutor never stops calling RunOnce.
Fairness == WF_vars(Executor)

Spec == Init /\ [][Next]_vars /\ Fairness

-----------------------------------------------------------------------------
\* Properties

\* The unique index admits one active deployment, and the executor works only
\* for it: whatever fails or restarts, two rollouts never overlap.
OneActiveDeployment ==
  /\ exec.pc # "idle" => row.status \in Active \ {"queued"}
  /\ \A d, e \in Deployment :
       deployments[d].status \in Active /\ deployments[e].status \in Active => d = e

\* execute is sequential and stops at the first failure: at any time the tasks
\* of a deployment are verified ones, then at most one that was started, then
\* ones that were never started.  Holds across restarts and repository errors.
SequentialStopOnFailure ==
  \A d \in Deployment : \A i, j \in Position :
    i < j /\ tasks[d][j] \notin {"none", "pending", "skipped"} => tasks[d][i] = "succeeded"

\* Task statuses a deployment may end with.
Evidence(status) ==
  CASE status = "succeeded" -> {"succeeded"}
    [] status = "partially_succeeded" -> {"succeeded", "failed", "skipped"}
    [] status = "failed" -> {"failed", "skipped"}
    [] status = "cancelled" -> {"succeeded", "skipped"}
    [] status = "interrupted" -> {"succeeded", "failed", "skipped", "interrupted"}

\* The status of a finished deployment agrees with its per-node evidence.
OutcomeMatchesTasks ==
  \A d \in Deployment :
    LET status == deployments[d].status
        targets == DOMAIN deployments[d].targets
    IN  /\ status \in Terminal => \A i \in targets : tasks[d][i] \in Evidence(status)
        /\ status = "partially_succeeded" =>
             /\ \E i \in targets : tasks[d][i] = "succeeded"
             /\ \E i \in targets : tasks[d][i] = "failed"

\* A deployment writes a node's configuration at most once, and evidence of
\* "pending" or "skipped" means the node was not touched: an unknown mutation
\* is never replayed by InterruptDeployments or a later ClaimDeployment.
NeverReplayed ==
  \A d \in Deployment : \A i \in Position :
    /\ written[d][i] <= 1
    /\ tasks[d][i] \in {"none", "pending", "skipped"} => written[d][i] = 0

\* After CancelDeployment at most one more task begins: the one whose boundary
\* check had already passed.
CancelStopsRollout == \A d \in Deployment : lateStarts[d] <= 1

\* FinishDeployment activates a revision only when every target of a manual or
\* rollback deployment has been verified and is recorded as running it.
ActivationStep ==
  activeRevision' # activeRevision =>
    \E d \in Deployment :
      /\ deployments[d].status = "running" /\ deployments'[d].status = "succeeded"
      /\ deployments[d].origin # "reconciliation"
      /\ activeRevision' = deployments[d].revision
      /\ \A i \in DOMAIN deployments[d].targets :
           /\ tasks[d][i] = "succeeded"
           /\ nodes[deployments[d].targets[i]].applied = activeRevision'
ActivationVerified == [][ActivationStep]_vars

\* History is immutable: a terminal deployment keeps its status and evidence.
HistoryStep ==
  \A d \in Deployment : deployments[d].status \in Terminal =>
    deployments'[d] = deployments[d] /\ tasks'[d] = tasks[d]
TerminalIsFinal == [][HistoryStep]_vars

\* A rollout enables DHCP on a target only once no other target serves DHCP
\* (previewDocument orders the owner last, read-back verifies the others).
DhcpStep ==
  \A n \in Node : config'[n].dhcp /\ ~config[n].dhcp =>
    \A i \in DOMAIN row.targets : row.targets[i] # n => ~config[row.targets[i]].dhcp
DhcpDisabledBeforeEnabled == [][DhcpStep]_vars

\* Without repository errors every deployment that is created reaches a
\* terminal state (or is deleted before it starts).
DeploymentTerminates ==
  \A d \in Deployment :
    deployments[d].status \in Active ~> deployments[d].status \in Terminal \cup {"deleted"}

-----------------------------------------------------------------------------
\* Inductive invariant: what holds between any two steps, from which the
\* safety properties above follow (proved in DeploymentsProofs).

Working == exec.pc # "idle"
Preparing == exec.pc \in {"load", "prepare", "setRunning"}
RollingOut == exec.pc \in {"boundary", "begin", "noteApplying", "write", "markVerifying",
                          "noteVerifying", "readBack", "succeed", "markApplied",
                          "fail", "noteFailed"}
Untouched == {"none", "pending", "skipped"}

\* Every target has a task row, and no position beyond them has one.
TaskRows ==
  \A d \in Deployment : \A i \in Position :
    (i \in DOMAIN deployments[d].targets) <=> (tasks[d][i] # "none")

\* Rows the executor is not working on.
RestingRows ==
  \A d \in Deployment :
    /\ deployments[d].status \in {"unused", "deleted", "queued"} =>
         (\A i \in Position : tasks[d][i] \in {"none", "pending"}) /\ lateStarts[d] = 0
    /\ deployments[d].status = "cancelling" =>
         (\A i \in Position : tasks[d][i] \in Untouched) /\ lateStarts[d] = 0
    /\ deployments[d].status = "queued" => ~deployments[d].cancelRequested
    /\ deployments[d].status = "cancelling" => deployments[d].cancelRequested
    /\ lateStarts[d] > 0 => deployments[d].cancelRequested

\* The row and the position the executor works on.
ExecutorRow ==
  Working =>
    /\ exec.dep \in Deployment
    /\ row.status \in {"validating", "running", "cancelling"}
    /\ exec.pc = "load" => row.status \in {"validating", "cancelling"}
    /\ exec.pc \in {"prepare", "setRunning"} => row.status = "validating"
    /\ RollingOut => row.status = "running"
    /\ exec.pc = "prepare" \/ RollingOut => exec.index \in DOMAIN row.targets
    /\ exec.pc = "skip" => exec.index > 0
    /\ exec.pc = "skip" => exec.outcome \in {"failed", "partially_succeeded", "cancelled"}
    /\ exec.pc = "finish" =>
         exec.outcome \in {"succeeded", "failed", "partially_succeeded", "cancelled"}

\* What the status of the current task is at each step of a rollout.
CurrentTask ==
  LET t == tasks[exec.dep][exec.index]
  IN  RollingOut =>
        /\ exec.pc \in {"boundary", "begin"} => t = "pending"
        /\ exec.pc \in {"noteApplying", "write", "markVerifying"} => t = "applying"
        /\ exec.pc \in {"noteVerifying", "readBack", "succeed"} => t = "verifying"
        /\ exec.pc = "fail" => t \in {"applying", "verifying"}
        /\ exec.pc = "markApplied" => t = "succeeded"
        /\ exec.pc = "noteFailed" => t = "failed"
        /\ exec.pc \in {"begin", "noteApplying", "write"} => written[exec.dep][exec.index] = 0

\* The tasks around the current one.
OtherTasks ==
  /\ Preparing /\ row.status = "validating" =>
       \A i \in DOMAIN row.targets : tasks[exec.dep][i] = "pending"
  /\ RollingOut => \A i \in DOMAIN row.targets :
       /\ i < exec.index => tasks[exec.dep][i] = "succeeded"
       /\ exec.index < i => tasks[exec.dep][i] = "pending"

\* The evidence collected on the way to a terminal status.
EndingTasks ==
  /\ exec.pc = "skip" => \A i \in DOMAIN row.targets :
       /\ i < exec.index => tasks[exec.dep][i] \in Evidence(exec.outcome)
       /\ exec.index <= i => tasks[exec.dep][i] \in {"pending", "skipped"}
  /\ exec.pc = "finish" => \A i \in DOMAIN row.targets :
       tasks[exec.dep][i] \in Evidence(exec.outcome)
  /\ exec.pc \in {"skip", "finish"} /\ exec.outcome = "partially_succeeded" =>
       /\ \E i \in DOMAIN row.targets : tasks[exec.dep][i] = "succeeded"
       /\ \E i \in DOMAIN row.targets : tasks[exec.dep][i] = "failed"
  /\ exec.pc = "finish" /\ exec.outcome = "succeeded" => row.status = "running"

\* Nodes verified by the running deployment are recorded as running it.
AppliedRecorded ==
  Working => \A i \in DOMAIN row.targets :
    (RollingOut /\ i < exec.index) \/ (exec.pc = "finish" /\ exec.outcome = "succeeded")
    => nodes[row.targets[i]].applied = row.revision

\* The DHCP owner is the last target, in requests and in rows.
OwnerLast(r, s) == \A i \in DOMAIN s : DhcpOwner[r] = s[i] => i + 1 \notin DOMAIN s
DhcpOrdered ==
  /\ \A q \in starts : OwnerLast(q.revision, q.targets)
  /\ \A d \in Deployment : OwnerLast(deployments[d].revision, deployments[d].targets)

\* Targets verified so far serve DHCP only if the revision says so.
DhcpHandedOver ==
  RollingOut => \A i \in DOMAIN row.targets :
    i < exec.index \/ (i = exec.index /\ exec.pc \in {"succeed", "markApplied"})
    => (config[row.targets[i]].dhcp => DhcpOwner[row.revision] = row.targets[i])

\* A cancellation seen at a boundary stops the rollout there.
LateStart ==
  /\ Preparing \/ exec.pc = "begin" => lateStarts[exec.dep] = 0
  /\ exec.pc = "boundary" /\ lateStarts[exec.dep] > 0 => row.cancelRequested

RowInv ==
  /\ SequentialStopOnFailure /\ OutcomeMatchesTasks /\ NeverReplayed
  /\ CancelStopsRollout /\ TaskRows /\ RestingRows
ExecutorInv ==
  /\ ExecutorRow /\ CurrentTask /\ OtherTasks /\ EndingTasks /\ LateStart
Inv ==
  /\ TypeOK /\ OneActiveDeployment /\ RowInv /\ ExecutorInv
  /\ AppliedRecorded /\ DhcpOrdered /\ DhcpHandedOver

=============================================================================
