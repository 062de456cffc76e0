------------------------ MODULE DriftReconciliation ------------------------
(***************************************************************************)
(* Drift detection and enforcement, composed with the deployments it       *)
(* creates: the reconciler worker, the drift_events table, RestoreDrift,   *)
(* and the effects on drift_events of the deployment and node calls.       *)
(*                                                                         *)
(* Sources: internal/controlplane/{reconciler,service}.go,                 *)
(* internal/database/controlplane.go, internal/database/nodes.go,          *)
(* internal/domain/management.go.                                          *)
(*                                                                         *)
(* Steps of the reconciler interleave with those of the executor and with  *)
(* API requests: what it read at the start of a pass may be stale later.   *)
(***************************************************************************)
EXTENDS Deployments

CONSTANTS
  DriftId,       \* identifiers of drift events that may be recorded
  StartRevision, \* active revisions a behaviour may start from
  StartPolicy    \* reconciliation policies a behaviour may start from

Policy == {"manual", "alert", "enforce"}

ASSUME NoneIsNoDrift == None \notin DriftId
ASSUME StartRevisions == StartRevision \subseteq Revision
ASSUME StartPolicies == StartPolicy \subseteq Policy

VARIABLES
  drift,         \* table drift_events
  policy,        \* clusters.reconciliation_policy
  rec,           \* the reconciler goroutine
  restore        \* one RestoreDrift request

driftVars == <<drift, policy, rec, restore>>
allVars == <<vars, driftVars>>

-----------------------------------------------------------------------------
\* Types

Reconciliation == {"pending", "alerted", "enforcing", "failed", "maintenance", "resolved"}
NodeState == [content : Content, dhcp : BOOLEAN]

\* fingerprint(desired, observed) identifies the difference of a node.
DriftRow ==
  [status : {"open", "resolved"}, node : Node, desired : Revision, observed : NodeState,
   reconciliation : Reconciliation, related : Deployment \cup {None}]
NoDrift == [status |-> "unused"]

RecStep == {"idle", "check", "list", "next", "observe", "resolve", "noteConverged",
            "noteDrifted", "upsert", "start", "create", "link", "linkFailed"}
RecIdle == [pc |-> "idle", revision |-> None, policy |-> None, todo |-> {}, paused |-> {},
            node |-> None, observed |-> None, drift |-> None, dep |-> None]
RestoreIdle == [pc |-> "idle", drift |-> None, revision |-> None, node |-> None, dep |-> None]

DriftTypeOK ==
  /\ TypeOK
  /\ drift \in [DriftId -> DriftRow \cup {NoDrift}]
  /\ policy \in Policy
  /\ rec \in [pc : RecStep, revision : Revision \cup {None}, policy : Policy \cup {None},
              todo : SUBSET Node, paused : SUBSET Node, node : Node \cup {None},
              observed : NodeState \cup {None}, drift : DriftId \cup {None},
              dep : Deployment \cup {None}]
  /\ restore \in [pc : {"idle", "create", "link"}, drift : DriftId \cup {None},
                  revision : Revision \cup {None}, node : Node \cup {None},
                  dep : Deployment \cup {None}]

\* A cluster with an active revision, as an earlier deployment left it; some
\* nodes may have been edited since.
ClusterWith(r, p) ==
  /\ deployments = [d \in Deployment |-> NoRow("unused")]
  /\ tasks = [d \in Deployment |-> [i \in Position |-> "none"]]
  /\ nodes = [n \in Node |-> [enabled |-> TRUE, deleted |-> FALSE, maintenance |-> FALSE,
                              applied |-> r, convergence |-> "converged"]]
  /\ activeRevision = r
  /\ \E edited \in SUBSET Node :
       config = [n \in Node |-> IF n \in edited
                   THEN [Effective(r, n) EXCEPT !.content = Foreign] ELSE Effective(r, n)]
  /\ observedDhcp = {n \in Node : Effective(r, n).dhcp}
  /\ exec = Idle /\ starts = {} /\ entering = {}
  /\ written = [d \in Deployment |-> [i \in Position |-> 0]]
  /\ lateStarts = [d \in Deployment |-> 0]
  /\ drift = [i \in DriftId |-> NoDrift]
  /\ policy = p
  /\ rec = RecIdle
  /\ restore = RestoreIdle

DriftInit == \E r \in StartRevision, p \in StartPolicy : ClusterWith(r, p)

-----------------------------------------------------------------------------
\* drift_events statements

\* UPDATE drift_events SET ... WHERE status = 'open' AND P(row)
UpdateOpen(P(_), F(_)) ==
  drift' = [i \in DriftId |-> IF drift[i].status = "open" /\ P(drift[i])
                                THEN F(drift[i]) ELSE drift[i]]
Resolve(e) == [e EXCEPT !.status = "resolved", !.reconciliation = "resolved"]
SetReconciliation(n, s) ==
  UpdateOpen(LAMBDA e : e.node = n, LAMBDA e : [e EXCEPT !.reconciliation = s])

\* Unconditional by identifier; the foreign key refuses a deleted deployment.
UpdateDriftReconciliation(i, s, d) ==
  drift' = IF d # None /\ deployments[d].status = "deleted" THEN drift
           ELSE [drift EXCEPT ![i].reconciliation = s, ![i].related = d]

-----------------------------------------------------------------------------
\* Deployment and node calls, with their effect on drift_events

\* Calls that do not touch drift_events.
DeploymentsOnly ==
  /\ \/ \E r \in Revision, origin \in Origin : PreviewDeployment(r, origin)
     \/ \E q \in starts : CreateDeployment(q)
     \/ \E d \in Deployment : RequestDeploymentCancel(d)
     \/ \E n \in Node :
          \/ \E enabled \in BOOLEAN : UpdateNode(n, enabled)
          \/ MaintenancePreflight(n)
          \/ EditNode(n)
     \/ ClaimDeployment \/ ExecutorStep \/ RepositoryFails
  /\ UNCHANGED driftVars

\* Mutant: linked drift events are not looked up.
DeleteAnyUnstarted(d) == DeleteUnstartedDeployment(d) /\ UNCHANGED driftVars

DeleteUnlinkedDeployment(d) ==
  /\ \A i \in DriftId : drift[i].status # "unused" => drift[i].related # d
  /\ DeleteUnstartedDeployment(d)
  /\ UNCHANGED driftVars

FinishAndRecord ==
  /\ FinishDeployment
  /\ UpdateOpen(LAMBDA e : e.related = exec.dep,
                LAMBDA e : [e EXCEPT !.reconciliation =
                              IF exec.outcome = "succeeded" THEN "enforcing" ELSE "failed"])
  /\ UNCHANGED <<policy, rec, restore>>

\* Mutant: maintenance closes the node's events.
EnterMaintenanceAndResolve(n) ==
  /\ EnterMaintenance(n)
  /\ UpdateOpen(LAMBDA e : e.node = n, Resolve)
  /\ UNCHANGED <<policy, rec, restore>>

EnterMaintenanceAndPause(n) ==
  /\ EnterMaintenance(n)
  /\ SetReconciliation(n, "maintenance")
  /\ UNCHANGED <<policy, rec, restore>>

ReturnToServiceAndResume(n) ==
  /\ ReturnToService(n)
  /\ IF nodes' # nodes THEN SetReconciliation(n, "pending") ELSE UNCHANGED drift
  /\ UNCHANGED <<policy, rec, restore>>

SoftDeleteNodeAndResolve(n) ==
  /\ SoftDeleteNode(n)
  /\ UpdateOpen(LAMBDA e : e.node = n, Resolve)
  /\ UNCHANGED <<policy, rec, restore>>

\* InterruptDeployments leaves drift_events alone.
RestartAll ==
  /\ Restart
  /\ rec' = RecIdle /\ restore' = RestoreIdle
  /\ UNCHANGED <<drift, policy>>

UpdateCluster(p) ==
  /\ "policy" \in Calls
  /\ policy' = p
  /\ UNCHANGED <<vars, drift, rec, restore>>

-----------------------------------------------------------------------------
\* RestoreDrift: read the event, start a targeted deployment, link it

RestorePreview(i) ==
  /\ "restore" \in Calls
  /\ restore.pc = "idle"
  /\ drift[i].status = "open"
  /\ PreviewTargets(drift[i].desired, {drift[i].node}) # {}
  /\ restore' = [restore EXCEPT !.pc = "create", !.drift = i,
                   !.revision = drift[i].desired, !.node = drift[i].node]
  /\ UNCHANGED <<vars, drift, policy, rec>>

RestoreCreate ==
  /\ restore.pc = "create"
  /\ \/ \E d \in Deployment :
          /\ InsertDeployment(d, restore.revision, "reconciliation", <<restore.node>>)
          /\ restore' = [restore EXCEPT !.pc = "link", !.dep = d]
     \/ /\ ClusterHasActiveDeployment
        /\ restore' = RestoreIdle
        /\ UNCHANGED <<deployments, tasks>>
  /\ UNCHANGED <<nodes, activeRevision, config, observedDhcp, exec, starts, entering,
                 written, lateStarts, drift, policy, rec>>

RestoreLink ==
  /\ restore.pc = "link"
  /\ \/ UpdateDriftReconciliation(restore.drift, "enforcing", restore.dep)
     \/ "repository" \in Faults /\ UNCHANGED drift
  /\ restore' = RestoreIdle
  /\ UNCHANGED <<vars, policy, rec>>

-----------------------------------------------------------------------------
\* The reconciler (Reconciler.RunOnce, evaluateNode)

RecGoTo(pc) == rec' = [rec EXCEPT !.pc = pc]
NoteNode(n, s) == nodes' = [nodes EXCEPT ![n].convergence = s]
OnlyNodes == UNCHANGED <<deployments, tasks, activeRevision, config, observedDhcp, exec,
                         starts, entering, written, lateStarts, drift, policy, restore>>

ListClusters ==
  /\ rec.pc = "idle"
  /\ activeRevision # None
  /\ rec' = [RecIdle EXCEPT !.pc = "check", !.revision = activeRevision, !.policy = policy]
  /\ UNCHANGED <<vars, drift, policy, restore>>

SkipActiveCluster ==
  /\ rec.pc = "check"
  /\ rec' = IF ClusterHasActiveDeployment THEN RecIdle ELSE [rec EXCEPT !.pc = "list"]
  /\ UNCHANGED <<vars, drift, policy, restore>>

ListNodes ==
  /\ rec.pc = "list"
  /\ rec' = [rec EXCEPT !.pc = "next", !.todo = {n \in Node : nodes[n].enabled},
               !.paused = {n \in Node : nodes[n].maintenance}]
  /\ UNCHANGED <<vars, drift, policy, restore>>

\* Nodes in listing order; maintenance and compatibility as they were listed.
NextNode ==
  /\ rec.pc = "next"
  /\ IF rec.todo = {} THEN rec' = RecIdle /\ UNCHANGED nodes ELSE
     \E n \in rec.todo :
       /\ \A m \in rec.todo : Rank[n] <= Rank[m]
       /\ \/ /\ n \in rec.paused
             /\ NoteNode(n, "maintenance")
             /\ rec' = [rec EXCEPT !.todo = @ \ {n}]
          \/ /\ n \notin rec.paused /\ "node" \in Faults
             /\ NoteNode(n, "unsupported")
             /\ rec' = [rec EXCEPT !.todo = @ \ {n}]
          \/ /\ n \notin rec.paused
             /\ rec' = [rec EXCEPT !.todo = @ \ {n}, !.node = n,
                          !.pc = IF n \in Covers[rec.revision] THEN "observe" ELSE "next"]
             /\ UNCHANGED nodes
  /\ OnlyNodes

ObserveNode ==
  /\ rec.pc = "observe"
  /\ \/ /\ nodes[rec.node].enabled
        /\ observedDhcp' = Observed(rec.node)
        /\ rec' = [rec EXCEPT !.observed = config[rec.node],
                     !.pc = IF config[rec.node] = Effective(rec.revision, rec.node)
                              THEN "resolve" ELSE "noteDrifted"]
        /\ UNCHANGED nodes
     \/ /\ ~nodes[rec.node].enabled \/ "node" \in Faults
        /\ NoteNode(rec.node, "observation_failed")
        /\ RecGoTo("next")
        /\ UNCHANGED observedDhcp
  /\ UNCHANGED <<deployments, tasks, activeRevision, config, exec, starts, entering,
                 written, lateStarts, drift, policy, restore>>

ResolveNodeDrift ==
  /\ rec.pc = "resolve"
  /\ UpdateOpen(LAMBDA e : e.node = rec.node, Resolve)
  /\ RecGoTo("noteConverged")
  /\ UNCHANGED <<vars, policy, restore>>

NoteConverged ==
  /\ rec.pc = "noteConverged"
  /\ NoteNode(rec.node, "converged")
  /\ RecGoTo("next")
  /\ OnlyNodes

NoteDrifted ==
  /\ rec.pc = "noteDrifted"
  /\ NoteNode(rec.node, "drifted")
  /\ RecGoTo("upsert")
  /\ OnlyNodes

SameOpen(i) ==
  /\ drift[i].status = "open" /\ drift[i].node = rec.node
  /\ drift[i].desired = rec.revision /\ drift[i].observed = rec.observed

\* Mutant: a failed attempt is never retried.
UpsertKeepsFailed ==
  LET fresh == IF rec.policy = "alert" THEN "alerted" ELSE "pending"
  IN  /\ rec.pc = "upsert"
      /\ \E i \in DriftId :
           /\ \/ /\ SameOpen(i)
                 /\ drift' = [drift EXCEPT ![i].reconciliation =
                                IF @ \in {"enforcing", "failed"} THEN @ ELSE fresh]
              \/ /\ drift[i] = NoDrift
                 /\ ~ \E j \in DriftId : SameOpen(j)
                 /\ drift' = [drift EXCEPT ![i] =
                      [status |-> "open", node |-> rec.node, desired |-> rec.revision,
                       observed |-> rec.observed, reconciliation |-> fresh, related |-> None]]
           /\ rec' = [rec EXCEPT !.drift = i,
                        !.pc = IF rec.policy = "enforce" /\ drift'[i].reconciliation = "pending"
                                 THEN "start" ELSE "next"]
      /\ UNCHANGED <<vars, policy, restore>>

\* Insert, or refresh the open event with the same fingerprint; an event that
\* is being enforced stays so.
UpsertDriftEvent ==
  LET fresh == IF rec.policy = "alert" THEN "alerted" ELSE "pending"
  IN  /\ rec.pc = "upsert"
      /\ \E i \in DriftId :
           /\ \/ /\ SameOpen(i)
                 /\ drift' = [drift EXCEPT ![i].reconciliation =
                                IF @ = "enforcing" THEN @ ELSE fresh]
              \/ /\ drift[i] = NoDrift
                 /\ ~ \E j \in DriftId : SameOpen(j)
                 /\ drift' = [drift EXCEPT ![i] =
                      [status |-> "open", node |-> rec.node, desired |-> rec.revision,
                       observed |-> rec.observed, reconciliation |-> fresh, related |-> None]]
           /\ rec' = [rec EXCEPT !.drift = i,
                        !.pc = IF rec.policy = "enforce" /\ drift'[i].reconciliation = "pending"
                                 THEN "start" ELSE "next"]
      /\ UNCHANGED <<vars, policy, restore>>

\* StartReconciliation: preview of the one node, then the insert.
StartReconciliation ==
  /\ rec.pc = "start"
  /\ \/ PreviewTargets(rec.revision, {rec.node}) # {} /\ RecGoTo("create")
     \/ /\ PreviewTargets(rec.revision, {rec.node}) = {} \/ "node" \in Faults
        /\ RecGoTo("linkFailed")
  /\ UNCHANGED <<vars, drift, policy, restore>>

CreateReconciliation ==
  /\ rec.pc = "create"
  /\ \/ \E d \in Deployment :
          /\ InsertDeployment(d, rec.revision, "reconciliation", <<rec.node>>)
          /\ rec' = [rec EXCEPT !.pc = "link", !.dep = d]
     \/ /\ ClusterHasActiveDeployment
        /\ RecGoTo("linkFailed")
        /\ UNCHANGED <<deployments, tasks>>
  /\ UNCHANGED <<nodes, activeRevision, config, observedDhcp, exec, starts, entering,
                 written, lateStarts, drift, policy, restore>>

LinkReconciliation ==
  /\ rec.pc \in {"link", "linkFailed"}
  /\ IF rec.pc = "link"
       THEN UpdateDriftReconciliation(rec.drift, "enforcing", rec.dep)
       ELSE UpdateDriftReconciliation(rec.drift, "failed", None)
  /\ RecGoTo("next")
  /\ UNCHANGED <<vars, policy, restore>>

\* An error while reading the cluster ends the pass, one of StartReconciliation
\* marks the event failed, any other moves on to the next node.
ReconcilerRepositoryFails ==
  /\ "repository" \in Faults
  /\ \/ rec.pc \in {"check", "list"} /\ rec' = RecIdle
     \/ rec.pc \in {"start", "create"} /\ RecGoTo("linkFailed")
     \/ /\ rec.pc \in {"resolve", "noteConverged", "noteDrifted", "upsert", "link", "linkFailed"}
        /\ RecGoTo("next")
  /\ UNCHANGED <<vars, drift, policy, restore>>

-----------------------------------------------------------------------------
Reconciler ==
  \/ ListClusters \/ SkipActiveCluster \/ ListNodes \/ NextNode \/ ObserveNode
  \/ ResolveNodeDrift \/ NoteConverged \/ NoteDrifted \/ UpsertDriftEvent
  \/ StartReconciliation \/ CreateReconciliation \/ LinkReconciliation

DriftNext ==
  \/ DeploymentsOnly
  \/ \E d \in Deployment : DeleteUnlinkedDeployment(d)
  \/ FinishAndRecord
  \/ \E n \in Node : \/ EnterMaintenanceAndPause(n)
                     \/ ReturnToServiceAndResume(n)
                     \/ SoftDeleteNodeAndResolve(n)
  \/ RestartAll
  \/ \E p \in Policy : UpdateCluster(p)
  \/ \E i \in DriftId : RestorePreview(i)
  \/ RestoreCreate \/ RestoreLink
  \/ Reconciler \/ ReconcilerRepositoryFails

\* The three goroutines never stop looping; a restore request runs to its end.
DriftFairness ==
  /\ WF_allVars((ClaimDeployment \/ ExecutorStep) /\ UNCHANGED driftVars)
  /\ WF_allVars(FinishAndRecord)
  /\ WF_allVars(Reconciler)
  /\ WF_allVars(RestoreCreate \/ RestoreLink)

DriftSpec == DriftInit /\ [][DriftNext]_allVars /\ DriftFairness

-----------------------------------------------------------------------------
\* Properties

\* The link that StartReconciliation or RestoreDrift records leads to a
\* deployment of exactly what the event says: its node, its desired revision.
\* An event is "enforcing" only with such a link, and the linked row is never
\* deleted, whatever the operator does between insert and link.
EnforcementTargetsDrift ==
  \A i \in DriftId : drift[i].status # "unused" =>
    /\ drift[i].reconciliation = "enforcing" => drift[i].related # None
    /\ drift[i].related # None =>
         LET d == deployments[drift[i].related]
         IN  /\ d.status \in Active \cup Terminal
             /\ d.origin = "reconciliation"
             /\ d.revision = drift[i].desired
             /\ d.targets = <<drift[i].node>>

\* An open event leaves "open" only because its node was removed or was
\* observed to run the revision of the pass; events of other nodes, and of
\* deployments that merely finished, stay open (FinishDeployment never
\* resolves).
ResolvedOnlyByObservation ==
  [][\A i \in DriftId :
       drift[i].status = "open" /\ drift'[i].status # "open" =>
         \/ nodes'[drift[i].node].deleted
         \/ /\ rec.node = drift[i].node
            /\ rec.observed = Effective(rec.revision, drift[i].node)]_allVars

\* Under Enforce, with no fault and no operator interference, a node that does
\* not run the active revision is repaired and its drift events are closed.
DriftIsRepaired ==
  \A n \in Node :
    config[n] # Effective(activeRevision, n) ~>
      /\ config[n] = Effective(activeRevision, n)
      /\ \A i \in DriftId : drift[i].status = "open" => drift[i].node # n

\* ADR-0019: "The controller avoids creating competing DHCP servers."
SingleDhcpServer == \A m, n \in Node : config[m].dhcp /\ config[n].dhcp => m = n

=============================================================================
