--------------------------- MODULE DeploymentsProofs --------------------------
(***************************************************************************)
(* Inv is an inductive invariant of Deployments, for any number of nodes,  *)
(* deployments and positions, and the safety properties follow from it.    *)
(***************************************************************************)
EXTENDS Deployments, TLAPS

\* Zenon proves the steps that name no other prover.
USE ZenonT(30)

\* Positions in a rollout are positive naturals.
LEMMA PositionNat ==
  /\ MaxTargets \in Nat
  /\ Position \subseteq Nat
  /\ \A i \in Position : i \in Nat /\ 1 <= i /\ ~(i < 1)
  BY Bounds, SMTT(30) DEF Position

\* The positions of a target list have no gap and start at 1.
LEMMA TargetsType ==
  ASSUME NEW s \in Targets
  PROVE  /\ \A i \in DOMAIN s : i \in Position
         /\ \A i \in DOMAIN s : s[i] \in Node
         /\ \A i \in DOMAIN s : \A j \in Position : j < i => j \in DOMAIN s
         /\ 1 \in DOMAIN s
  <1>1. PICK k \in Position : s \in [1 .. k -> Node]
    BY DEF Targets
  <1> QED
    BY <1>1, PositionNat, SMTT(30) DEF Position

\* A deployment identifier with an active or terminal status has a full row.
LEMMA RowType ==
  ASSUME TypeOK, NEW d \in Deployment
  PROVE  /\ deployments[d].status \in Active \cup Terminal => deployments[d] \in DeploymentRow
         /\ deployments[d].status \in Active \cup Terminal \cup {"unused", "deleted"}
         /\ deployments[d].status \in {"unused", "deleted"} => DOMAIN deployments[d].targets = {}
         /\ \A i \in DOMAIN deployments[d].targets : i \in Position
  <1>1. CASE deployments[d] \in DeploymentRow
    <2>1. deployments[d].targets \in Targets
      BY <1>1 DEF DeploymentRow
    <2> QED
      BY <1>1, <2>1, TargetsType DEF DeploymentRow, Active, Terminal
  <1>2. CASE deployments[d] \in {NoRow("unused"), NoRow("deleted")}
    <2>1. deployments[d].status \in {"unused", "deleted"}
      BY <1>2, SMTT(30) DEF NoRow
    <2>2. deployments[d].targets = << >>
      BY <1>2, SMTT(30) DEF NoRow
    <2> QED
      BY <2>1, <2>2, SMTT(30) DEF Active, Terminal
  <1> QED
    BY <1>1, <1>2 DEF TypeOK

\* Facts about the row and the target the executor works on.
AtRow ==
  /\ exec.dep \in Deployment
  /\ exec.index \in Nat
  /\ 1 \in DOMAIN row.targets
  /\ \A i \in DOMAIN row.targets : i \in Position
  /\ \A i \in DOMAIN row.targets : row.targets[i] \in Node
AtTarget ==
  /\ AtRow
  /\ exec.index \in Position /\ exec.index \in DOMAIN row.targets /\ target \in Node

\* The row the executor of execute works on is a full row.
LEMMA WorkingRow ==
  ASSUME Inv, Working
  PROVE  /\ AtRow
         /\ row \in DeploymentRow
         /\ \A i \in DOMAIN row.targets : \A j \in Position : j < i => j \in DOMAIN row.targets
  <1>1. exec.dep \in Deployment /\ row.status \in Active
    BY DEF Inv, ExecutorInv, ExecutorRow, Active
  <1>2. row \in DeploymentRow
    BY <1>1, RowType DEF row, Inv
  <1>3. row.targets \in Targets
    BY <1>2 DEF DeploymentRow
  <1>4. exec.index \in Nat
    BY DEF Inv, TypeOK, ExecutorState
  <1> QED
    BY <1>1, <1>2, <1>3, <1>4, TargetsType DEF AtRow

\* While execute revalidates or rolls out, its position is that of a target.
LEMMA RollingRow ==
  ASSUME Inv, exec.pc = "prepare" \/ RollingOut
  PROVE  AtTarget
  <1>1. Working
    BY DEF Working, RollingOut
  <1>2. exec.index \in DOMAIN row.targets
    BY <1>1 DEF Inv, ExecutorInv, ExecutorRow
  <1> QED
    BY <1>1, <1>2, WorkingRow DEF AtRow, AtTarget, target

\* What a move of the executor changes.
LEMMA MoveStep ==
  ASSUME exec \in ExecutorState, NEW pc \in Step, NEW i \in Nat,
         NEW outcome \in Terminal \cup {None}, Move(pc, i, outcome)
  PROVE  /\ exec' \in ExecutorState
         /\ exec'.pc = pc /\ exec'.dep = exec.dep
         /\ exec'.index = i /\ exec'.outcome = outcome
  BY DEF Move, ExecutorState

\* What a move that keeps the position changes.
LEMMA GoToStep ==
  ASSUME exec \in ExecutorState, NEW pc \in Step, GoTo(pc)
  PROVE  /\ exec' \in ExecutorState
         /\ exec'.pc = pc /\ exec'.dep = exec.dep
         /\ exec'.index = exec.index /\ exec'.outcome = exec.outcome
  <1>1. exec.index \in Nat /\ exec.outcome \in Terminal \cup {None}
    BY DEF ExecutorState
  <1> QED
    BY <1>1, MoveStep DEF GoTo

\* UpdateDeploymentNode writes one task row.
LEMMA SetTaskStep ==
  ASSUME tasks \in [Deployment -> [Position -> TaskStatus]],
         NEW s \in TaskStatus, SetTask(s),
         exec.dep \in Deployment, exec.index \in Position
  PROVE  /\ tasks' \in [Deployment -> [Position -> TaskStatus]]
         /\ tasks'[exec.dep][exec.index] = s
         /\ \A d \in Deployment, i \in Position :
              d # exec.dep \/ i # exec.index => tasks'[d][i] = tasks[d][i]
  BY DEF SetTask

\* A change of convergence keeps the node rows and their applied revisions.
LEMMA ConvergenceStep ==
  ASSUME nodes \in [Node -> NodeRow], target \in Node,
         NEW c \in Convergence, NoteConvergence(c)
  PROVE  nodes' \in [Node -> NodeRow] /\ \A n \in Node : nodes'[n].applied = nodes[n].applied
  <1>1. nodes[target] \in NodeRow
    OBVIOUS
  <1> DEFINE x == [nodes[target] EXCEPT !.convergence = c]
  <1>2. x \in NodeRow /\ x.applied = nodes[target].applied
    BY <1>1 DEF NodeRow
  <1>3. nodes' = [nodes EXCEPT ![target] = x]
    BY DEF NoteConvergence
  <1> HIDE DEF x
  <1> QED
    BY <1>2, <1>3

\* The row invariants depend on the tables and histories only.
LEMMA RowsUnchanged ==
  ASSUME Inv, UNCHANGED <<deployments, tasks, written, lateStarts>>
  PROVE  /\ RowInv'
         /\ \A d, e \in Deployment : deployments'[d].status \in Active /\ deployments'[e].status \in Active => d = e
  BY SMTT(30) DEF Inv, OneActiveDeployment, RowInv, SequentialStopOnFailure, OutcomeMatchesTasks,
         NeverReplayed, CancelStopsRollout, TaskRows, RestingRows

\* Steps that touch neither the deployment tables nor the executor, record no
\* applied revision, start no DHCP server and admit only ordered requests.
LEMMA Frame ==
  ASSUME Inv, TypeOK', UNCHANGED <<deployments, tasks, written, lateStarts, exec>>,
         \A n \in Node : nodes'[n].applied = nodes[n].applied,
         \A n \in Node : config'[n].dhcp => config[n].dhcp,
         \A q \in starts' : OwnerLast(q.revision, q.targets)
  PROVE  Inv'
  <1>1. OneActiveDeployment' /\ RowInv'
    BY RowsUnchanged DEF Inv, OneActiveDeployment, row
  <1>2. ExecutorInv'
    BY SMTT(30) DEF Inv, ExecutorInv, ExecutorRow, CurrentTask, OtherTasks, EndingTasks, LateStart,
           Working, Preparing, RollingOut, row
  <1>3. AppliedRecorded'
    BY WorkingRow, SMTT(30) DEF AtRow, Inv, AppliedRecorded, Working, RollingOut, row
  <1>4. DhcpOrdered'
    BY DEF Inv, DhcpOrdered, OwnerLast
  <1>5. DhcpHandedOver'
    <2>1. CASE RollingOut
      BY <2>1, WorkingRow DEF AtRow, Inv, DhcpHandedOver, Working, RollingOut, row
    <2> QED
      BY <2>1 DEF DhcpHandedOver, RollingOut
  <1> QED
    BY <1>1, <1>2, <1>3, <1>4, <1>5 DEF Inv

\* An idle executor has no obligations.
LEMMA IdleExecutor ==
  ASSUME exec'.pc = "idle"
  PROVE  ExecutorInv' /\ AppliedRecorded' /\ DhcpHandedOver'
  BY DEF ExecutorInv, ExecutorRow, CurrentTask, OtherTasks, EndingTasks, LateStart,
         AppliedRecorded, DhcpHandedOver, Working, Preparing, RollingOut

\* Executor steps that write no deployment table.
LEMMA ExecutorMoves ==
  ASSUME Inv, Working, exec'.dep = exec.dep,
         UNCHANGED <<deployments, tasks, written, lateStarts, starts>>
  PROVE  OneActiveDeployment' /\ RowInv' /\ DhcpOrdered' /\ row' = row
  BY RowsUnchanged DEF Inv, OneActiveDeployment, DhcpOrdered, OwnerLast, row, Working

\* A completely applied configuration serves DHCP on the owner only.
LEMMA EffectiveDhcp ==
  ASSUME NEW r, NEW n
  PROVE  Effective(r, n).dhcp => DhcpOwner[r] = n
  BY DEF Effective

\* EndingTasks constrains the two last steps only.
LEMMA NotEnding == exec'.pc \notin {"skip", "finish"} => EndingTasks'
  BY DEF EndingTasks

\* The invariant holds of a fresh cluster.
LEMMA InitInv == Init => Inv
  <1> SUFFICES ASSUME Init PROVE Inv
    OBVIOUS
  <1> USE DEF Init
  <1>1. TypeOK
    <2>1. deployments \in [Deployment -> DeploymentRow \cup {NoRow("unused"), NoRow("deleted")}]
      OBVIOUS
    <2>2. nodes \in [Node -> NodeRow]
      BY DEF NodeRow, Convergence
    <2>3. exec \in ExecutorState
      BY DEF Idle, ExecutorState, Step
    <2>4. config \in [Node -> [content : Content, dhcp : BOOLEAN]]
      BY SMTT(30) DEF Content
    <2> QED
      BY <2>1, <2>2, <2>3, <2>4 DEF TypeOK, TaskStatus
  <1>2. \A d \in Deployment : deployments[d].status = "unused" /\ DOMAIN deployments[d].targets = {}
    BY SMTT(30) DEF NoRow
  <1>3. exec.pc = "idle"
    BY DEF Idle
  <1>4. OneActiveDeployment /\ RowInv
    BY <1>2, <1>3, PositionNat, SMTT(30)
       DEF OneActiveDeployment, Active, Terminal, RowInv, SequentialStopOnFailure, OutcomeMatchesTasks,
           NeverReplayed, CancelStopsRollout, TaskRows, RestingRows
  <1>5. ExecutorInv /\ AppliedRecorded /\ DhcpHandedOver
    BY <1>3 DEF ExecutorInv, ExecutorRow, CurrentTask, OtherTasks, EndingTasks, LateStart,
                AppliedRecorded, DhcpHandedOver, Working, Preparing, RollingOut
  <1>6. DhcpOrdered
    BY <1>2 DEF DhcpOrdered, OwnerLast
  <1> QED
    BY <1>1, <1>4, <1>5, <1>6 DEF Inv

\* previewDocument lists existing nodes and puts the DHCP owner last.
LEMMA PreviewOrders ==
  ASSUME NEW r \in Revision, NEW selected \in SUBSET Node, NEW s \in PreviewTargets(r, selected)
  PROVE  s \in Targets /\ OwnerLast(r, s)
  <1> DEFINE S == {n \in selected : nodes[n].enabled /\ ~nodes[n].maintenance}
  <1>1. S # {} /\ S \subseteq Node /\ s \in Rollouts(r, S)
    BY DEF PreviewTargets
  <1> HIDE DEF S
  <1>2. PICK k \in Position : s \in [1 .. k -> S]
    BY <1>1 DEF Rollouts
  <1>3. s \in [1 .. k -> S] /\ \A i, j \in 1 .. k : i < j => Before(r, s[i], s[j])
    BY <1>1, <1>2 DEF Rollouts
  <1>4. s \in [1 .. k -> Node]
    BY <1>1, <1>3
  <1>5. s \in Targets
    BY <1>2, <1>4 DEF Targets
  <1>6. ASSUME NEW i \in DOMAIN s, DhcpOwner[r] = s[i], i + 1 \in DOMAIN s
        PROVE  FALSE
    <2>1. Before(r, s[i], s[i + 1]) /\ s[i] \in Node
      BY <1>2, <1>3, <1>4, <1>6, PositionNat, SMTT(30)
    <2>2. s[i] = s[i + 1] /\ Rank[s[i]] < Rank[s[i + 1]]
      BY <1>6, <2>1 DEF Before
    <2> QED
      BY <2>1, <2>2, RankOrders, SMTT(30)
  <1> QED
    BY <1>5, <1>6 DEF OwnerLast

\* PreviewDeployment preserves the invariant.
LEMMA PreviewDeploymentInv ==
  ASSUME Inv, NEW r \in Revision, NEW origin \in Origin, PreviewDeployment(r, origin)
  PROVE  Inv'
  <1>1. PICK s \in PreviewTargets(r, Node) :
          starts' = starts \cup {[revision |-> r, origin |-> origin, targets |-> s]}
    BY DEF PreviewDeployment
  <1>2. s \in Targets /\ OwnerLast(r, s)
    BY PreviewOrders
  <1>3. TypeOK'
    BY <1>1, <1>2, SMTT(30) DEF PreviewDeployment, Inv, TypeOK, StartRequest
  <1>4. \A q \in starts' : OwnerLast(q.revision, q.targets)
    BY <1>1, <1>2, SMTT(30) DEF Inv, DhcpOrdered
  <1> QED
    BY <1>3, <1>4, Frame DEF PreviewDeployment

\* The maintenance calls write two columns of a node row.
LEMMA MaintenanceWrite ==
  ASSUME nodes \in [Node -> NodeRow], NEW n \in Node, NEW flag \in BOOLEAN,
         NEW c \in Convergence,
         nodes' = [nodes EXCEPT ![n].maintenance = flag, ![n].convergence = c]
  PROVE  nodes' \in [Node -> NodeRow] /\ \A m \in Node : nodes'[m].applied = nodes[m].applied
  BY DEF NodeRow

\* The node-management and maintenance calls preserve the invariant.
LEMMA NodeApiInv == Inv /\ NodeApi => Inv'
  <1> SUFFICES ASSUME Inv, NodeApi PROVE Inv'
    OBVIOUS
  <1>1. PICK n \in Node : \/ \E enabled \in BOOLEAN : UpdateNode(n, enabled)
                          \/ SoftDeleteNode(n)
                          \/ MaintenancePreflight(n)
                          \/ EnterMaintenance(n)
                          \/ ReturnToService(n)
    BY DEF NodeApi
  <1>2. /\ UNCHANGED <<deployments, tasks, activeRevision, written, lateStarts, exec, config, starts>>
        /\ nodes' \in [Node -> NodeRow]
        /\ \A m \in Node : nodes'[m].applied = nodes[m].applied
        /\ observedDhcp' \in SUBSET Node
        /\ entering' \in SUBSET Node
    <2>1. ASSUME NEW enabled \in BOOLEAN, UpdateNode(n, enabled) PROVE <1>2!:
      <3> DEFINE c == IF nodes[n].maintenance THEN "maintenance" ELSE "pending"
      <3>1. nodes' = [nodes EXCEPT ![n].enabled = enabled, ![n].convergence = c]
        BY <2>1 DEF UpdateNode
      <3>2. c \in Convergence
        BY DEF Convergence
      <3> HIDE DEF c
      <3>3. nodes' \in [Node -> NodeRow] /\ \A m \in Node : nodes'[m].applied = nodes[m].applied
        <4>1. nodes \in [Node -> NodeRow] /\ nodes[n] \in NodeRow
          BY DEF Inv, TypeOK
        <4> DEFINE x == [nodes[n] EXCEPT !.enabled = enabled, !.convergence = c]
        <4>2. x \in NodeRow /\ x.applied = nodes[n].applied
          BY <3>2, <4>1 DEF NodeRow
        <4>3. nodes' = [nodes EXCEPT ![n] = x]
          BY <3>1
        <4> HIDE DEF x
        <4> QED
          BY <4>1, <4>2, <4>3
      <3> QED
        BY <2>1, <3>3 DEF UpdateNode, Inv, TypeOK
    <2>2. CASE SoftDeleteNode(n)
      BY <2>2, SMTT(30) DEF SoftDeleteNode, Inv, TypeOK, NodeRow
    <2>3. CASE MaintenancePreflight(n)
      BY <2>3 DEF MaintenancePreflight, Inv, TypeOK
    <2>4. CASE EnterMaintenance(n)
      <3>1. nodes' \in [Node -> NodeRow] /\ \A m \in Node : nodes'[m].applied = nodes[m].applied
        BY <2>4, MaintenanceWrite DEF EnterMaintenance, Inv, TypeOK, Convergence
      <3> QED
        BY <2>4, <3>1 DEF EnterMaintenance, Inv, TypeOK
    <2>5. CASE ReturnToService(n)
      <3>1. \/ nodes' = [nodes EXCEPT ![n].maintenance = FALSE, ![n].convergence = "pending"]
            \/ nodes' = nodes
        BY <2>5 DEF ReturnToService
      <3>2. nodes' \in [Node -> NodeRow] /\ \A m \in Node : nodes'[m].applied = nodes[m].applied
        BY <3>1, MaintenanceWrite DEF Inv, TypeOK, Convergence
      <3>3. observedDhcp' \in SUBSET Node
        BY <2>5 DEF ReturnToService, Observed, Inv, TypeOK
      <3> QED
        BY <2>5, <3>2, <3>3 DEF ReturnToService, Inv, TypeOK
    <2> QED
      BY <1>1, <2>1, <2>2, <2>3, <2>4, <2>5
  <1>3. TypeOK'
    BY <1>2 DEF Inv, TypeOK
  <1>4. \A q \in starts' : OwnerLast(q.revision, q.targets)
    BY <1>2 DEF Inv, DhcpOrdered
  <1> QED
    BY <1>2, <1>3, <1>4, Frame

\* A change of a node behind the controller preserves the invariant.
LEMMA EditNodeInv ==
  ASSUME Inv, NEW n \in Node, EditNode(n)
  PROVE  Inv'
  <1>1. TypeOK'
    BY DEF Inv, TypeOK, EditNode, Content
  <1>2. \A m \in Node : config'[m].dhcp => config[m].dhcp
    BY DEF Inv, TypeOK, EditNode
  <1>3. \A q \in starts' : OwnerLast(q.revision, q.targets)
    BY DEF Inv, DhcpOrdered, EditNode
  <1> QED
    BY <1>1, <1>2, <1>3, Frame DEF EditNode

\* The transaction of CreateDeployment preserves the invariant: it starts from
\* an identifier with clean history, and the unique index excludes another row.
LEMMA InsertInv ==
  ASSUME Inv, NEW d \in Deployment, NEW r \in Revision, NEW origin \in Origin,
         NEW s \in Targets, OwnerLast(r, s), InsertDeployment(d, r, origin, s),
         starts' \subseteq starts,
         UNCHANGED <<nodes, activeRevision, config, observedDhcp, exec, entering,
                     written, lateStarts>>
  PROVE  Inv'
  <1>1. exec.pc = "idle" /\ exec'.pc = "idle"
    BY WorkingRow DEF Inv, ExecutorInv, ExecutorRow, Working, InsertDeployment,
                      ClusterHasActiveDeployment, Active, row
  <1>2. /\ deployments' \in [Deployment -> DeploymentRow \cup {NoRow("unused"), NoRow("deleted")}]
        /\ deployments'[d].status = "queued" /\ deployments'[d].targets = s
        /\ deployments'[d].revision = r /\ ~deployments'[d].cancelRequested
        /\ \A e \in Deployment : e # d => deployments'[e] = deployments[e]
    BY DEF Inv, TypeOK, InsertDeployment, DeploymentRow, Active
  <1>3. /\ tasks' \in [Deployment -> [Position -> TaskStatus]]
        /\ \A i \in Position : tasks'[d][i] = IF i \in DOMAIN s THEN "pending" ELSE "none"
        /\ \A e \in Deployment : e # d => tasks'[e] = tasks[e]
    BY DEF Inv, TypeOK, InsertDeployment, TaskStatus
  <1>4. /\ lateStarts[d] = 0
        /\ \A i \in Position : written[d][i] = 0
    BY SMTT(30) DEF Inv, RowInv, RestingRows, NeverReplayed, InsertDeployment, NoRow
  <1>5. TypeOK'
    BY <1>2, <1>3 DEF Inv, TypeOK
  <1>6. OneActiveDeployment'
    BY <1>1, <1>2 DEF OneActiveDeployment, InsertDeployment, ClusterHasActiveDeployment
  <1>7. RowInv'
    <2>1. SequentialStopOnFailure'
      <3> SUFFICES ASSUME NEW e \in Deployment, NEW i \in Position, NEW j \in Position, i < j,
                          tasks'[e][j] \notin {"none", "pending", "skipped"}
                   PROVE  tasks'[e][i] = "succeeded"
        BY DEF SequentialStopOnFailure
      <3>1. e # d
        BY <1>3
      <3>2. tasks'[e] = tasks[e]
        BY <1>3, <3>1
      <3> QED
        BY <3>2, SMTT(30) DEF Inv, RowInv, SequentialStopOnFailure
    <2>2. OutcomeMatchesTasks'
      BY <1>2, <1>3, <1>4, PositionNat, SMTT(30) DEF Inv, RowInv, OutcomeMatchesTasks, Terminal
    <2>3. NeverReplayed'
      BY <1>2, <1>3, <1>4, PositionNat DEF Inv, RowInv, NeverReplayed
    <2>4. CancelStopsRollout'
      BY <1>2, <1>3, <1>4, PositionNat DEF Inv, RowInv, CancelStopsRollout
    <2>5. TaskRows'
      BY <1>2, <1>3, <1>4, PositionNat, SMTT(30) DEF Inv, RowInv, TaskRows
    <2>6. RestingRows'
      BY <1>2, <1>3, <1>4, PositionNat, SMTT(30) DEF Inv, RowInv, RestingRows
    <2> QED
      BY <2>1, <2>2, <2>3, <2>4, <2>5, <2>6 DEF RowInv
  <1>8. DhcpOrdered'
    BY <1>2 DEF Inv, DhcpOrdered
  <1> QED
    BY <1>1, <1>5, <1>6, <1>7, <1>8, IdleExecutor DEF Inv

\* A start request that inserts or conflicts preserves the invariant.
LEMMA CreateDeploymentInv ==
  ASSUME Inv, NEW q \in starts, CreateDeployment(q)
  PROVE  Inv'
  <1>1. q \in StartRequest /\ OwnerLast(q.revision, q.targets) /\ starts' \subseteq starts
    BY DEF Inv, TypeOK, DhcpOrdered, CreateDeployment
  <1>2. ASSUME NEW d \in Deployment, InsertDeployment(d, q.revision, q.origin, q.targets)
        PROVE  Inv'
    BY <1>1, <1>2, InsertInv DEF CreateDeployment, StartRequest
  <1>3. CASE UNCHANGED <<deployments, tasks>>
    <2>1. TypeOK' /\ \A p \in starts' : OwnerLast(p.revision, p.targets)
      BY <1>1, <1>3 DEF CreateDeployment, Inv, TypeOK, DhcpOrdered
    <2> QED
      BY <1>3, <2>1, Frame DEF CreateDeployment
  <1> QED
    BY <1>2, <1>3 DEF CreateDeployment

\* RequestDeploymentCancel preserves the invariant at any point of a rollout.
LEMMA CancelInv ==
  ASSUME Inv, NEW d \in Deployment, RequestDeploymentCancel(d)
  PROVE  Inv'
  <1>1. deployments[d] \in DeploymentRow
    BY RowType DEF Inv, RequestDeploymentCancel, Active
  <1>2. /\ deployments' \in [Deployment -> DeploymentRow \cup {NoRow("unused"), NoRow("deleted")}]
        /\ deployments'[d].status = IF deployments[d].status = "queued" THEN "cancelling" ELSE deployments[d].status
        /\ deployments'[d].targets = deployments[d].targets
        /\ deployments'[d].revision = deployments[d].revision
        /\ deployments'[d].cancelRequested
        /\ \A e \in Deployment : e # d => deployments'[e] = deployments[e]
    BY <1>1 DEF Inv, TypeOK, RequestDeploymentCancel, DeploymentRow, Active
  <1>3. UNCHANGED <<tasks, nodes, activeRevision, config, observedDhcp, exec,
                    starts, entering, written, lateStarts>>
    BY DEF RequestDeploymentCancel
  <1>4. TypeOK'
    BY <1>2, <1>3 DEF Inv, TypeOK
  <1>5. RowInv'
    <2>1. SequentialStopOnFailure'
      BY <1>2, <1>3, SMTT(30) DEF Inv, RowInv, SequentialStopOnFailure, RequestDeploymentCancel
    <2>2. OutcomeMatchesTasks'
      BY <1>2, <1>3, SMTT(30) DEF Inv, RowInv, OutcomeMatchesTasks, Terminal, RequestDeploymentCancel
    <2>3. NeverReplayed'
      BY <1>2, <1>3, SMTT(30) DEF Inv, RowInv, NeverReplayed, RequestDeploymentCancel
    <2>4. CancelStopsRollout'
      BY <1>2, <1>3 DEF Inv, RowInv, CancelStopsRollout, RequestDeploymentCancel
    <2>5. TaskRows'
      BY <1>2, <1>3, SMTT(30) DEF Inv, RowInv, TaskRows, RequestDeploymentCancel
    <2>6. RestingRows'
      <3> SUFFICES ASSUME NEW e \in Deployment PROVE RestingRows!(e)'
        BY DEF RestingRows
      <3>1. RestingRows!(e)
        BY DEF Inv, RowInv, RestingRows
      <3>2. CASE e # d
        BY <1>2, <1>3, <3>1, <3>2
      <3>3. CASE e = d
        BY <1>2, <1>3, <3>1, <3>3, SMTT(30) DEF RequestDeploymentCancel, Untouched
      <3> QED
        BY <3>2, <3>3
    <2> QED
      BY <2>1, <2>2, <2>3, <2>4, <2>5, <2>6 DEF RowInv
  <1>6. Working => /\ row'.status = row.status /\ row'.targets = row.targets
                   /\ row'.revision = row.revision /\ (row.cancelRequested => row'.cancelRequested)
    BY <1>2, <1>3, WorkingRow DEF Inv, ExecutorInv, ExecutorRow, row
  <1>7. OneActiveDeployment'
    BY <1>2, <1>3, <1>6, SMTT(30) DEF Inv, OneActiveDeployment, Working, Active, RequestDeploymentCancel
  <1>8. ExecutorInv' /\ AppliedRecorded' /\ DhcpHandedOver'
    <2>1. CASE ~Working
      BY <2>1, <1>3, IdleExecutor DEF Working
    <2>2. CASE Working
      <3>1. ExecutorRow'
        BY <2>2, <1>3, <1>6 DEF Inv, ExecutorInv, ExecutorRow, Working, Preparing, RollingOut
      <3>2. CurrentTask' /\ OtherTasks'
        BY <2>2, <1>3, <1>6 DEF Inv, ExecutorInv, CurrentTask, OtherTasks, Preparing, RollingOut
      <3>3. EndingTasks' /\ LateStart'
        BY <2>2, <1>3, <1>6 DEF Inv, ExecutorInv, EndingTasks, LateStart, Preparing
      <3>4. AppliedRecorded'
        BY <2>2, <1>3, <1>6 DEF Inv, AppliedRecorded, Working, RollingOut
      <3>5. DhcpHandedOver'
        BY <2>2, <1>3, <1>6 DEF Inv, DhcpHandedOver, RollingOut
      <3> QED
        BY <3>1, <3>2, <3>3, <3>4, <3>5 DEF ExecutorInv
    <2> QED
      BY <2>1, <2>2
  <1>9. DhcpOrdered'
    BY <1>2, <1>3 DEF Inv, DhcpOrdered
  <1> QED
    BY <1>4, <1>5, <1>7, <1>8, <1>9 DEF Inv

\* DeleteUnstartedDeployment preserves the invariant: a queued deployment is
\* not the one the executor works on.
LEMMA DeleteInv ==
  ASSUME Inv, NEW d \in Deployment, DeleteUnstartedDeployment(d)
  PROVE  Inv'
  <1>1. exec.pc = "idle" /\ exec'.pc = "idle"
    BY WorkingRow DEF Inv, OneActiveDeployment, ExecutorInv, ExecutorRow, Working, DeleteUnstartedDeployment, Active, row
  <1>2. /\ deployments' \in [Deployment -> DeploymentRow \cup {NoRow("unused"), NoRow("deleted")}]
        /\ deployments'[d].status = "deleted" /\ DOMAIN deployments'[d].targets = {}
        /\ ~deployments'[d].cancelRequested
        /\ \A e \in Deployment : e # d => deployments'[e] = deployments[e]
    BY SMTT(30) DEF Inv, TypeOK, DeleteUnstartedDeployment, NoRow
  <1>3. /\ tasks' \in [Deployment -> [Position -> TaskStatus]]
        /\ \A i \in Position : tasks'[d][i] = "none"
        /\ \A e \in Deployment : e # d => tasks'[e] = tasks[e]
        /\ UNCHANGED <<nodes, activeRevision, config, observedDhcp, exec,
                       starts, entering, written, lateStarts>>
    BY DEF Inv, TypeOK, DeleteUnstartedDeployment, TaskStatus
  <1>4. /\ lateStarts[d] = 0
        /\ \A i \in Position : written[d][i] = 0
    BY SMTT(30) DEF Inv, RowInv, RestingRows, NeverReplayed, DeleteUnstartedDeployment
  <1>5. TypeOK'
    BY <1>2, <1>3 DEF Inv, TypeOK
  <1>6. OneActiveDeployment'
    BY <1>1, <1>2 DEF Inv, OneActiveDeployment, Active
  <1>7. RowInv'
    <2>1. SequentialStopOnFailure'
      <3> SUFFICES ASSUME NEW e \in Deployment, NEW i \in Position, NEW j \in Position, i < j,
                          tasks'[e][j] \notin {"none", "pending", "skipped"}
                   PROVE  tasks'[e][i] = "succeeded"
        BY DEF SequentialStopOnFailure
      <3>1. e # d
        BY <1>3
      <3>2. tasks'[e] = tasks[e]
        BY <1>3, <3>1
      <3> QED
        BY <3>2, SMTT(30) DEF Inv, RowInv, SequentialStopOnFailure
    <2>2. OutcomeMatchesTasks'
      BY <1>2, <1>3, <1>4, PositionNat, SMTT(30) DEF Inv, RowInv, OutcomeMatchesTasks, Terminal
    <2>3. NeverReplayed'
      BY <1>2, <1>3, <1>4, PositionNat DEF Inv, RowInv, NeverReplayed
    <2>4. CancelStopsRollout'
      BY <1>2, <1>3, <1>4, PositionNat DEF Inv, RowInv, CancelStopsRollout
    <2>5. TaskRows'
      <3>1. \A i \in Position : i \in DOMAIN deployments'[d].targets <=> tasks'[d][i] # "none"
        BY <1>2, <1>3
      <3>2. ASSUME NEW e \in Deployment, e # d
            PROVE  \A i \in Position : i \in DOMAIN deployments'[e].targets <=> tasks'[e][i] # "none"
        BY <1>2, <1>3, <3>2, SMTT(30) DEF Inv, RowInv, TaskRows
      <3> QED
        BY <3>1, <3>2 DEF TaskRows
    <2>6. RestingRows'
      BY <1>2, <1>3, <1>4, PositionNat, SMTT(30) DEF Inv, RowInv, RestingRows
    <2> QED
      BY <2>1, <2>2, <2>3, <2>4, <2>5, <2>6 DEF RowInv
  <1>8. DhcpOrdered'
    BY <1>2, <1>3 DEF Inv, DhcpOrdered, OwnerLast
  <1> QED
    BY <1>1, <1>5, <1>6, <1>7, <1>8, IdleExecutor DEF Inv

-----------------------------------------------------------------------------
\* Steps of execute that change no task row

\* failBeforeMutation and cancel before any mutation skip every task.
LEMMA SkipAll ==
  ASSUME AtRow, exec'.pc = "skip", exec'.index = 1, exec'.outcome \in {"failed", "cancelled"},
         exec'.dep = exec.dep, row' = row, UNCHANGED tasks,
         \A i \in DOMAIN row.targets : tasks[exec.dep][i] \in {"pending", "skipped"}
  PROVE  EndingTasks'
  <1>1. \A i \in DOMAIN row.targets : ~(i < 1)
    BY PositionNat DEF AtRow
  <1>2. exec'.pc # "finish" /\ exec'.outcome # "partially_succeeded"
    OBVIOUS
  <1> QED
    BY <1>1, <1>2 DEF EndingTasks

\* Loading the claimed deployment preserves the invariant.
LEMMA LoadInv == Inv /\ LoadDeployment => Inv'
  <1> SUFFICES ASSUME Inv, LoadDeployment PROVE Inv'
    OBVIOUS
  <1>1. Working /\ exec \in ExecutorState /\ exec.outcome \in Terminal \cup {None}
    BY DEF LoadDeployment, Working, Inv, TypeOK, ExecutorState
  <1>2. \/ Move("skip", 1, "cancelled")
        \/ row.status # "cancelling" /\ Move("skip", 1, "failed")
        \/ row.status # "cancelling" /\ Move("prepare", 1, exec.outcome)
    BY DEF LoadDeployment, SkipFrom, GoToTarget
  <1>3. /\ exec' \in ExecutorState /\ exec'.dep = exec.dep /\ exec'.index = 1
        /\ \/ exec'.pc = "skip" /\ exec'.outcome \in {"cancelled", "failed"}
           \/ exec'.pc = "prepare" /\ row.status # "cancelling"
    BY <1>1, <1>2, MoveStep, SMTT(30) DEF Step, Terminal
  <1>4. /\ OneActiveDeployment' /\ RowInv' /\ DhcpOrdered' /\ row' = row
        /\ UNCHANGED <<deployments, tasks, nodes, activeRevision, config, observedDhcp,
                       starts, entering, written, lateStarts>>
    BY <1>1, <1>3, ExecutorMoves DEF LoadDeployment
  <1>5. TypeOK'
    BY <1>3, <1>4 DEF Inv, TypeOK
  <1>6. row.status \in {"validating", "cancelling"}
    BY <1>1 DEF Inv, ExecutorInv, ExecutorRow, LoadDeployment
  <1>7. AtRow
    BY <1>1, WorkingRow
  <1>8. \A i \in DOMAIN row.targets : tasks[exec.dep][i] \in {"pending", "skipped"}
    BY <1>1, <1>6, <1>7, SMTT(30) DEF AtRow, LoadDeployment, Inv, ExecutorInv, OtherTasks, Preparing,
       RowInv, RestingRows, TaskRows, Untouched, row
  <1>9. ExecutorRow'
    BY <1>1, <1>3, <1>4, <1>6, <1>7, SMTT(30) DEF AtRow, ExecutorRow, Working, RollingOut
  <1>10. CurrentTask' /\ OtherTasks'
    BY <1>1, <1>3, <1>4, <1>6, <1>7 DEF AtRow, LoadDeployment, Inv, ExecutorInv, CurrentTask, OtherTasks, Preparing, RollingOut
  <1>11. EndingTasks'
    BY <1>3, <1>4, <1>7, <1>8, NotEnding, SkipAll
  <1>12. LateStart'
    BY <1>3, <1>4 DEF LoadDeployment, Inv, ExecutorInv, LateStart, Preparing
  <1>13. AppliedRecorded' /\ DhcpHandedOver'
    BY <1>3 DEF AppliedRecorded, DhcpHandedOver, RollingOut
  <1> QED
    BY <1>4, <1>5, <1>9, <1>10, <1>11, <1>12, <1>13 DEF Inv, ExecutorInv

\* Recording convergence "applying" preserves the invariant.
LEMMA NoteApplyingInv == Inv /\ NoteApplying => Inv'
  <1> SUFFICES ASSUME Inv, NoteApplying PROVE Inv'
    OBVIOUS
  <1>1. Working /\ RollingOut /\ exec.pc = "noteApplying" /\ exec \in ExecutorState
    BY DEF NoteApplying, Working, RollingOut, Inv, TypeOK
  <1>2. /\ exec' \in ExecutorState /\ exec'.pc = "write" /\ exec'.dep = exec.dep
        /\ exec'.index = exec.index /\ exec'.outcome = exec.outcome
    BY <1>1, GoToStep DEF NoteApplying, Step
  <1>3. /\ OneActiveDeployment' /\ RowInv' /\ DhcpOrdered' /\ row' = row
        /\ UNCHANGED <<deployments, tasks, activeRevision, config, observedDhcp, starts, entering,
                       written, lateStarts>>
    BY <1>1, <1>2, ExecutorMoves DEF NoteApplying
  <1>4. nodes' \in [Node -> NodeRow] /\ \A n \in Node : nodes'[n].applied = nodes[n].applied
    <2>1. nodes \in [Node -> NodeRow] /\ target \in Node
      BY <1>1, RollingRow DEF AtTarget, Inv, TypeOK
    <2> QED
      BY <2>1, ConvergenceStep DEF NoteApplying, Convergence
  <1>5. AtTarget
    BY <1>1, WorkingRow, RollingRow
  <1>6. TypeOK'
    BY <1>1, <1>2, <1>3, <1>4 DEF Inv, TypeOK
  <1>7. ExecutorRow'
    BY <1>1, <1>2, <1>3, <1>5, PositionNat DEF AtRow, AtTarget, Inv, ExecutorInv, ExecutorRow, Working, RollingOut
  <1>8. CurrentTask' /\ OtherTasks'
    BY <1>1, <1>2, <1>3, <1>5, PositionNat DEF AtRow, AtTarget, Inv, ExecutorInv, CurrentTask, OtherTasks, Preparing, RollingOut
  <1>9. EndingTasks'
    BY <1>1, <1>2, <1>3, <1>5, PositionNat DEF Inv, ExecutorInv, EndingTasks
  <1>10. LateStart'
    BY <1>1, <1>2, <1>3, <1>5 DEF Inv, ExecutorInv, LateStart, Preparing
  <1>11. AppliedRecorded'
    BY <1>1, <1>2, <1>3, <1>5, PositionNat, <1>4 DEF AtRow, AtTarget, Inv, AppliedRecorded, Working, RollingOut
  <1>12. DhcpHandedOver'
    BY <1>1, <1>2, <1>3, <1>5, PositionNat DEF AtRow, AtTarget, Inv, DhcpHandedOver, RollingOut
  <1> QED
    BY <1>3, <1>6, <1>7, <1>8, <1>9, <1>10, <1>11, <1>12 DEF Inv, ExecutorInv

\* Recording convergence "verifying" preserves the invariant.
LEMMA NoteVerifyingInv == Inv /\ NoteVerifying => Inv'
  <1> SUFFICES ASSUME Inv, NoteVerifying PROVE Inv'
    OBVIOUS
  <1>1. Working /\ RollingOut /\ exec.pc = "noteVerifying" /\ exec \in ExecutorState
    BY DEF NoteVerifying, Working, RollingOut, Inv, TypeOK
  <1>2. /\ exec' \in ExecutorState /\ exec'.pc = "readBack" /\ exec'.dep = exec.dep
        /\ exec'.index = exec.index /\ exec'.outcome = exec.outcome
    BY <1>1, GoToStep DEF NoteVerifying, Step
  <1>3. /\ OneActiveDeployment' /\ RowInv' /\ DhcpOrdered' /\ row' = row
        /\ UNCHANGED <<deployments, tasks, activeRevision, config, observedDhcp, starts, entering,
                       written, lateStarts>>
    BY <1>1, <1>2, ExecutorMoves DEF NoteVerifying
  <1>4. nodes' \in [Node -> NodeRow] /\ \A n \in Node : nodes'[n].applied = nodes[n].applied
    <2>1. nodes \in [Node -> NodeRow] /\ target \in Node
      BY <1>1, RollingRow DEF AtTarget, Inv, TypeOK
    <2> QED
      BY <2>1, ConvergenceStep DEF NoteVerifying, Convergence
  <1>5. AtTarget
    BY <1>1, WorkingRow, RollingRow
  <1>6. TypeOK'
    BY <1>1, <1>2, <1>3, <1>4 DEF Inv, TypeOK
  <1>7. ExecutorRow'
    BY <1>1, <1>2, <1>3, <1>5, PositionNat DEF AtRow, AtTarget, Inv, ExecutorInv, ExecutorRow, Working, RollingOut
  <1>8. CurrentTask' /\ OtherTasks'
    BY <1>1, <1>2, <1>3, <1>5, PositionNat DEF AtRow, AtTarget, Inv, ExecutorInv, CurrentTask, OtherTasks, Preparing, RollingOut
  <1>9. EndingTasks'
    BY <1>1, <1>2, <1>3, <1>5, PositionNat DEF Inv, ExecutorInv, EndingTasks
  <1>10. LateStart'
    BY <1>1, <1>2, <1>3, <1>5 DEF Inv, ExecutorInv, LateStart, Preparing
  <1>11. AppliedRecorded'
    BY <1>1, <1>2, <1>3, <1>5, PositionNat, <1>4 DEF AtRow, AtTarget, Inv, AppliedRecorded, Working, RollingOut
  <1>12. DhcpHandedOver'
    BY <1>1, <1>2, <1>3, <1>5, PositionNat DEF AtRow, AtTarget, Inv, DhcpHandedOver, RollingOut
  <1> QED
    BY <1>3, <1>6, <1>7, <1>8, <1>9, <1>10, <1>11, <1>12 DEF Inv, ExecutorInv

\* Revalidating a target preserves the invariant.
LEMMA PrepareInv == Inv /\ PrepareTarget => Inv'
  <1> SUFFICES ASSUME Inv, PrepareTarget PROVE Inv'
    OBVIOUS
  <1>1. Working /\ exec.pc = "prepare" /\ exec \in ExecutorState
    BY DEF PrepareTarget, Working, RollingOut, Inv, TypeOK
  <1>2. /\ exec' \in ExecutorState /\ exec'.dep = exec.dep
        /\ \/ exec'.pc = "setRunning"
           \/ exec'.pc = "prepare" /\ exec'.index \in DOMAIN row.targets
           \/ exec'.pc = "skip" /\ exec'.index = 1 /\ exec'.outcome = "failed"
    <2>1. exec.index \in Nat /\ exec.index + 1 \in Nat /\ exec.outcome \in Terminal \cup {None}
      BY <1>1, SMTT(30) DEF ExecutorState
    <2>2. \/ Move("setRunning", exec.index, exec.outcome)
          \/ exec.index + 1 \in DOMAIN row.targets /\ Move("prepare", exec.index + 1, exec.outcome)
          \/ Move("skip", 1, "failed")
      BY DEF PrepareTarget, GoTo, GoToTarget, SkipFrom, atLast
    <2> QED
      BY <1>1, <2>1, <2>2, MoveStep, SMTT(30) DEF Step, Terminal
  <1>3. /\ OneActiveDeployment' /\ RowInv' /\ DhcpOrdered' /\ row' = row
        /\ UNCHANGED <<deployments, tasks, nodes, activeRevision, config, starts, entering,
                       written, lateStarts>>
    BY <1>1, <1>2, ExecutorMoves DEF PrepareTarget
  <1>4. observedDhcp' \in SUBSET Node
    BY <1>1, RollingRow DEF AtTarget, PrepareTarget, Observed, Inv, TypeOK
  <1>5. \A i \in DOMAIN row.targets : tasks[exec.dep][i] = "pending"
    BY <1>1 DEF Inv, ExecutorInv, ExecutorRow, OtherTasks, Working, Preparing
  <1>6. AtTarget
    BY <1>1, WorkingRow, RollingRow
  <1>7. TypeOK'
    BY <1>1, <1>2, <1>3, <1>4 DEF Inv, TypeOK
  <1>8. ExecutorRow'
    BY <1>1, <1>2, <1>3, <1>6, PositionNat, SMTT(30) DEF AtRow, AtTarget, Inv, ExecutorInv, ExecutorRow, Working, RollingOut
  <1>9. CurrentTask' /\ OtherTasks'
    BY <1>1, <1>2, <1>3, <1>6, PositionNat DEF AtRow, AtTarget, Inv, ExecutorInv, CurrentTask, OtherTasks, Preparing, RollingOut
  <1>10. EndingTasks'
    BY <1>1, <1>2, <1>3, <1>6, PositionNat, <1>5, NotEnding, SkipAll DEF AtTarget
  <1>11. LateStart'
    BY <1>1, <1>2, <1>3, <1>6 DEF Inv, ExecutorInv, LateStart, Preparing
  <1>12. AppliedRecorded'
    BY <1>1, <1>2, <1>3, <1>6, PositionNat DEF AppliedRecorded, RollingOut
  <1>13. DhcpHandedOver'
    BY <1>1, <1>2, <1>3, <1>6, PositionNat DEF DhcpHandedOver, RollingOut
  <1> QED
    BY <1>3, <1>7, <1>8, <1>9, <1>10, <1>11, <1>12, <1>13 DEF Inv, ExecutorInv

\* The cancellation check between two tasks preserves the invariant.
LEMMA SafeBoundaryInv == Inv /\ SafeBoundary => Inv'
  <1> SUFFICES ASSUME Inv, SafeBoundary PROVE Inv'
    OBVIOUS
  <1>1. Working /\ RollingOut /\ exec.pc = "boundary" /\ exec \in ExecutorState
    BY DEF SafeBoundary, Working, RollingOut, Inv, TypeOK
  <1>2. /\ exec' \in ExecutorState /\ exec'.dep = exec.dep /\ exec'.index = exec.index
        /\ \/ exec'.pc = "skip" /\ exec'.outcome = "cancelled"
           \/ exec'.pc = "begin" /\ ~row.cancelRequested
    <2>1. exec.index \in Nat /\ exec.outcome \in Terminal \cup {None}
      BY <1>1 DEF ExecutorState
    <2>2. \/ Move("skip", exec.index, "cancelled")
          \/ ~row.cancelRequested /\ Move("begin", exec.index, exec.outcome)
      BY DEF SafeBoundary, GoTo, SkipFrom
    <2> QED
      BY <1>1, <2>1, <2>2, MoveStep, SMTT(30) DEF Step, Terminal
  <1>3. /\ OneActiveDeployment' /\ RowInv' /\ DhcpOrdered' /\ row' = row
        /\ UNCHANGED <<observedDhcp, deployments, tasks, nodes, activeRevision, config, starts, entering,
                       written, lateStarts>>
    BY <1>1, <1>2, ExecutorMoves DEF SafeBoundary
  <1>4. /\ tasks[exec.dep][exec.index] = "pending"
        /\ \A i \in DOMAIN row.targets : /\ i < exec.index => tasks[exec.dep][i] = "succeeded"
                                         /\ exec.index < i => tasks[exec.dep][i] = "pending"
    BY <1>1 DEF Inv, ExecutorInv, CurrentTask, OtherTasks
  <1>5. AtTarget
    BY <1>1, WorkingRow, RollingRow
  <1>6. TypeOK'
    BY <1>1, <1>2, <1>3 DEF Inv, TypeOK
  <1>7. ExecutorRow'
    BY <1>1, <1>2, <1>3, <1>5, PositionNat, SMTT(30) DEF AtRow, AtTarget, Inv, ExecutorInv, ExecutorRow, Working, RollingOut
  <1>8. CurrentTask' /\ OtherTasks'
    BY <1>1, <1>2, <1>3, <1>5, PositionNat DEF AtRow, AtTarget, Inv, ExecutorInv, CurrentTask, OtherTasks, Preparing, RollingOut, RowInv, NeverReplayed
  <1>9. EndingTasks'
    BY <1>1, <1>2, <1>3, <1>5, PositionNat, <1>4, SMTT(30) DEF AtRow, AtTarget, EndingTasks, Evidence
  <1>10. LateStart'
    <2>1. lateStarts[exec.dep] > 0 => row.cancelRequested
      BY <1>1 DEF Inv, ExecutorInv, LateStart
    <2>2. lateStarts[exec.dep] \in Nat
      BY <1>5 DEF Inv, TypeOK, AtRow, AtTarget
    <2> QED
      BY <1>2, <1>3, <2>1, <2>2, SMTT(30) DEF LateStart, Preparing
  <1>11. AppliedRecorded'
    BY <1>1, <1>2, <1>3, <1>5, PositionNat DEF AtRow, AtTarget, Inv, AppliedRecorded, Working, RollingOut
  <1>12. DhcpHandedOver'
    BY <1>1, <1>2, <1>3, <1>5, PositionNat DEF AtRow, AtTarget, Inv, DhcpHandedOver, RollingOut
  <1> QED
    BY <1>3, <1>6, <1>7, <1>8, <1>9, <1>10, <1>11, <1>12 DEF Inv, ExecutorInv

\* Reading a target back preserves the invariant.
LEMMA ReadBackInv == Inv /\ ReadBack => Inv'
  <1> SUFFICES ASSUME Inv, ReadBack PROVE Inv'
    OBVIOUS
  <1>1. Working /\ RollingOut /\ exec.pc = "readBack" /\ exec \in ExecutorState
    BY DEF ReadBack, Working, RollingOut, Inv, TypeOK
  <1>2. /\ exec' \in ExecutorState /\ exec'.dep = exec.dep /\ exec'.index = exec.index
        /\ \/ exec'.pc = "fail"
           \/ exec'.pc = "succeed" /\ config[target] = Effective(row.revision, target)
    BY <1>1, GoToStep DEF ReadBack, Step
  <1>3. /\ OneActiveDeployment' /\ RowInv' /\ DhcpOrdered' /\ row' = row
        /\ UNCHANGED <<deployments, tasks, nodes, activeRevision, config, starts, entering,
                       written, lateStarts>>
    BY <1>1, <1>2, ExecutorMoves DEF ReadBack
  <1>4. observedDhcp' \in SUBSET Node
    BY <1>1, RollingRow DEF AtTarget, ReadBack, Observed, Inv, TypeOK
  <1>5. exec'.pc = "succeed" => (config[target].dhcp => DhcpOwner[row.revision] = target)
    BY <1>2, EffectiveDhcp
  <1>6. AtTarget
    BY <1>1, WorkingRow, RollingRow
  <1>7. TypeOK'
    BY <1>1, <1>2, <1>3, <1>4 DEF Inv, TypeOK
  <1>8. ExecutorRow'
    BY <1>1, <1>2, <1>3, <1>6, PositionNat DEF AtRow, AtTarget, Inv, ExecutorInv, ExecutorRow, Working, RollingOut
  <1>9. CurrentTask' /\ OtherTasks'
    BY <1>1, <1>2, <1>3, <1>6, PositionNat DEF AtRow, AtTarget, Inv, ExecutorInv, CurrentTask, OtherTasks, Preparing, RollingOut
  <1>10. EndingTasks'
    BY <1>1, <1>2, <1>3, <1>6, PositionNat, NotEnding
  <1>11. LateStart'
    BY <1>1, <1>2, <1>3, <1>6 DEF Inv, ExecutorInv, LateStart, Preparing
  <1>12. AppliedRecorded'
    BY <1>1, <1>2, <1>3, <1>6, PositionNat DEF AtRow, AtTarget, Inv, AppliedRecorded, Working, RollingOut
  <1>13. DhcpHandedOver'
    BY <1>1, <1>2, <1>3, <1>6, PositionNat, <1>5 DEF AtRow, AtTarget, Inv, DhcpHandedOver, RollingOut, target
  <1> QED
    BY <1>3, <1>7, <1>8, <1>9, <1>10, <1>11, <1>12, <1>13 DEF Inv, ExecutorInv

\* At the last target every other target has been passed.
LEMMA LastTarget ==
  ASSUME Inv, Working, exec.index \in Position, atLast
  PROVE  \A i \in DOMAIN row.targets : i < exec.index \/ i = exec.index
  <1>1. /\ AtRow
        /\ \A i \in DOMAIN row.targets : \A j \in Position : j < i => j \in DOMAIN row.targets
    BY WorkingRow
  <1>2. ASSUME NEW i \in DOMAIN row.targets, exec.index < i
        PROVE  FALSE
    <2>1. i \in Position /\ exec.index + 1 \in Position
      BY <1>1, <1>2, PositionNat, SMTT(30) DEF AtRow, Position
    <2>2. i \in Nat /\ exec.index \in Nat
      BY <1>1, <2>1, PositionNat DEF AtRow
    <2>3. exec.index + 1 = i \/ exec.index + 1 < i
      BY <1>2, <2>2, PositionNat, SMTT(30)
    <2>4. exec.index + 1 \in DOMAIN row.targets
      BY <1>1, <2>1, <2>3
    <2> QED
      BY <2>4 DEF atLast
  <1> TAKE i \in DOMAIN row.targets
  <1>3. i \in Nat /\ exec.index \in Nat /\ ~(exec.index < i)
    BY <1>1, <1>2, PositionNat DEF AtRow
  <1> QED
    BY <1>3, SMTT(30)

\* Order of the positions around the next one.
LEMMA NextTarget ==
  ASSUME AtTarget
  PROVE  \A i \in DOMAIN row.targets :
           /\ i < exec.index + 1 => i < exec.index \/ i = exec.index
           /\ exec.index + 1 < i => exec.index < i
           /\ exec.index + 1 <= i => exec.index < i
           /\ exec.index < exec.index + 1
  <1> TAKE i \in DOMAIN row.targets
  <1>1. i \in Nat /\ exec.index \in Nat
    BY PositionNat DEF AtRow, AtTarget
  <1> QED
    BY <1>1, SMTT(30)

\* MarkNodeApplied writes two columns of a node row.
LEMMA AppliedWrite ==
  ASSUME nodes \in [Node -> NodeRow], NEW n \in Node, NEW r \in Revision, NEW c \in Convergence,
         nodes' = [nodes EXCEPT ![n].applied = r, ![n].convergence = c]
  PROVE  /\ nodes' \in [Node -> NodeRow]
         /\ nodes'[n].applied = r
         /\ \A m \in Node : m # n => nodes'[m].applied = nodes[m].applied
  BY DEF NodeRow

\* MarkNodeApplied preserves the invariant.
LEMMA MarkAppliedInv == Inv /\ MarkNodeApplied => Inv'
  <1> SUFFICES ASSUME Inv, MarkNodeApplied PROVE Inv'
    OBVIOUS
  <1>1. Working /\ RollingOut /\ exec.pc = "markApplied" /\ exec \in ExecutorState
    BY DEF MarkNodeApplied, Working, RollingOut, Inv, TypeOK
  <1>2. /\ exec' \in ExecutorState /\ exec'.dep = exec.dep
        /\ \/ /\ exec'.pc = "finish" /\ exec'.outcome = "succeeded" /\ atLast
           \/ /\ exec'.pc = "boundary" /\ exec'.index = exec.index + 1
              /\ exec'.index \in DOMAIN row.targets
    <2>1. exec.index \in Nat /\ exec.index + 1 \in Nat /\ exec.outcome \in Terminal \cup {None}
      BY <1>1, SMTT(30) DEF ExecutorState
    <2>2. \/ Move("finish", exec.index, "succeeded") /\ atLast
          \/ Move("boundary", exec.index + 1, exec.outcome) /\ exec.index + 1 \in DOMAIN row.targets
      BY DEF MarkNodeApplied, GoToTarget, atLast
    <2> QED
      BY <1>1, <2>1, <2>2, MoveStep, SMTT(30) DEF Step, Terminal
  <1>3. /\ OneActiveDeployment' /\ RowInv' /\ DhcpOrdered' /\ row' = row
        /\ UNCHANGED <<deployments, tasks, activeRevision, config, observedDhcp, starts, entering,
                       written, lateStarts>>
    <2>1. UNCHANGED <<deployments, tasks, activeRevision, config, observedDhcp, starts, entering,
                      written, lateStarts>>
      BY DEF MarkNodeApplied
    <2>2. exec'.dep = exec.dep
      BY <1>2
    <2> QED
      BY <1>1, <2>1, <2>2, ExecutorMoves
  <1>4. AtTarget
    BY <1>1, WorkingRow, RollingRow
  <1>5. /\ nodes' \in [Node -> NodeRow]
        /\ nodes'[target].applied = row.revision
        /\ \A n \in Node : n # target => nodes'[n].applied = nodes[n].applied
    <2>1. target \in Node /\ row.revision \in Revision
      BY <1>1, WorkingRow, RollingRow DEF AtTarget, DeploymentRow
    <2> QED
      BY <2>1, AppliedWrite DEF MarkNodeApplied, Inv, TypeOK, Convergence
  <1>6. /\ tasks[exec.dep][exec.index] = "succeeded"
        /\ \A i \in DOMAIN row.targets : /\ i < exec.index => tasks[exec.dep][i] = "succeeded"
                                         /\ exec.index < i => tasks[exec.dep][i] = "pending"
        /\ row.status = "running"
    BY <1>1 DEF Inv, ExecutorInv, CurrentTask, OtherTasks, ExecutorRow
  <1>7. atLast => \A i \in DOMAIN row.targets : i < exec.index \/ i = exec.index
    BY <1>1, <1>4, LastTarget DEF AtTarget
  <1>8. TypeOK'
    BY <1>1, <1>2, <1>3, <1>5 DEF Inv, TypeOK
  <1>9. ExecutorRow'
    BY <1>1, <1>2, <1>3, <1>4, PositionNat DEF AtRow, AtTarget, Inv, ExecutorInv, ExecutorRow, Working, RollingOut
  <1>10. CurrentTask' /\ OtherTasks'
    BY <1>1, <1>2, <1>3, <1>4, PositionNat, <1>6, NextTarget DEF AtRow, AtTarget, CurrentTask, OtherTasks, Preparing, RollingOut
  <1>11. EndingTasks'
    BY <1>1, <1>2, <1>3, <1>4, PositionNat, <1>6, <1>7 DEF EndingTasks, Evidence, AtRow, AtTarget
  <1>12. LateStart'
    BY <1>1, <1>2, <1>3, <1>4 DEF Inv, RowInv, RestingRows, LateStart, Preparing, row, AtRow, AtTarget
  <1>13. AppliedRecorded'
    BY <1>1, <1>2, <1>3, <1>4, PositionNat, <1>5, <1>7, NextTarget DEF AtRow, AtTarget, Inv, AppliedRecorded, Working, RollingOut, target
  <1>14. DhcpHandedOver'
    BY <1>1, <1>2, <1>3, <1>4, PositionNat, NextTarget DEF AtRow, AtTarget, Inv, DhcpHandedOver, RollingOut
  <1> QED
    BY <1>3, <1>8, <1>9, <1>10, <1>11, <1>12, <1>13, <1>14 DEF Inv, ExecutorInv

\* failNode preserves the invariant when it stops the rollout.
LEMMA NoteFailedInv == Inv /\ NoteFailed => Inv'
  <1> SUFFICES ASSUME Inv, NoteFailed PROVE Inv'
    OBVIOUS
  <1>1. Working /\ RollingOut /\ exec.pc = "noteFailed" /\ exec \in ExecutorState
    BY DEF NoteFailed, Working, RollingOut, Inv, TypeOK
  <1>2. /\ exec' \in ExecutorState /\ exec'.dep = exec.dep
        /\ exec'.pc = "skip" /\ exec'.index = exec.index + 1
        /\ exec'.outcome = IF exec.index > 1 THEN "partially_succeeded" ELSE "failed"
    <2>1. exec.index + 1 \in Nat
      BY <1>1, SMTT(30) DEF ExecutorState
    <2>2. Move("skip", exec.index + 1, IF exec.index > 1 THEN "partially_succeeded" ELSE "failed")
      BY DEF NoteFailed, SkipFrom
    <2> QED
      BY <1>1, <2>1, <2>2, MoveStep DEF Step, Terminal
  <1>3. /\ OneActiveDeployment' /\ RowInv' /\ DhcpOrdered' /\ row' = row
        /\ UNCHANGED <<deployments, tasks, activeRevision, config, observedDhcp, starts, entering,
                       written, lateStarts>>
    BY <1>1, <1>2, ExecutorMoves DEF NoteFailed
  <1>4. AtTarget
    BY <1>1, WorkingRow, RollingRow
  <1>5. nodes' \in [Node -> NodeRow] /\ \A n \in Node : nodes'[n].applied = nodes[n].applied
    <2>1. nodes \in [Node -> NodeRow] /\ target \in Node
      BY <1>1, RollingRow DEF AtTarget, Inv, TypeOK
    <2> QED
      BY <2>1, ConvergenceStep DEF NoteFailed, Convergence
  <1>6. /\ tasks[exec.dep][exec.index] = "failed"
        /\ \A i \in DOMAIN row.targets : /\ i < exec.index => tasks[exec.dep][i] = "succeeded"
                                         /\ exec.index < i => tasks[exec.dep][i] = "pending"
    <2>1. tasks[exec.dep][exec.index] = "failed"
      BY <1>1 DEF Inv, ExecutorInv, CurrentTask
    <2>2. \A i \in DOMAIN row.targets : /\ i < exec.index => tasks[exec.dep][i] = "succeeded"
                                        /\ exec.index < i => tasks[exec.dep][i] = "pending"
      BY <1>1 DEF Inv, ExecutorInv, OtherTasks
    <2> QED
      BY <2>1, <2>2
  <1>7. TypeOK'
    BY <1>1, <1>2, <1>3, <1>5 DEF Inv, TypeOK
  <1>8. ExecutorRow'
    BY <1>1, <1>2, <1>3, <1>4, PositionNat, SMTT(30) DEF AtRow, AtTarget, Inv, ExecutorInv, ExecutorRow, Working, RollingOut
  <1>9. CurrentTask' /\ OtherTasks'
    BY <1>1, <1>2, <1>3, <1>4, PositionNat DEF AtRow, AtTarget, Inv, ExecutorInv, CurrentTask, OtherTasks, Preparing, RollingOut
  <1>10. EndingTasks'
    BY <1>1, <1>2, <1>3, <1>4, PositionNat, <1>6, NextTarget, SMTT(30) DEF EndingTasks, Evidence, AtRow, AtTarget
  <1>11. LateStart'
    BY <1>1, <1>2, <1>3, <1>4 DEF Inv, ExecutorInv, LateStart, Preparing
  <1>12. AppliedRecorded'
    BY <1>1, <1>2, <1>3, <1>4, PositionNat DEF AtRow, AtTarget, Inv, AppliedRecorded, Working, RollingOut
  <1>13. DhcpHandedOver'
    BY <1>1, <1>2, <1>3, <1>4, PositionNat DEF AtRow, AtTarget, Inv, DhcpHandedOver, RollingOut
  <1> QED
    BY <1>3, <1>7, <1>8, <1>9, <1>10, <1>11, <1>12, <1>13 DEF Inv, ExecutorInv

-----------------------------------------------------------------------------
\* Steps that write task rows

\* Statuses of a task the executor has started.
Touched == {"applying", "verifying", "succeeded", "failed"}

\* A task that is started or decided keeps the row invariants.
LEMMA TaskStep ==
  ASSUME Inv, RollingOut, NEW s \in Touched, SetTask(s), exec'.dep = exec.dep,
         UNCHANGED <<deployments, written, starts>>
  PROVE  /\ OneActiveDeployment' /\ DhcpOrdered' /\ row' = row
         /\ tasks' \in [Deployment -> [Position -> TaskStatus]]
         /\ tasks'[exec.dep][exec.index] = s
         /\ \A d \in Deployment, i \in Position :
              d # exec.dep \/ i # exec.index => tasks'[d][i] = tasks[d][i]
         /\ SequentialStopOnFailure' /\ OutcomeMatchesTasks' /\ NeverReplayed' /\ TaskRows'
  <1>1. Working
    BY DEF Working, RollingOut
  <1>2. /\ AtTarget /\ AtRow
        /\ \A i \in DOMAIN row.targets : \A j \in Position : j < i => j \in DOMAIN row.targets
    BY <1>1, RollingRow, WorkingRow
  <1>3. /\ tasks' \in [Deployment -> [Position -> TaskStatus]]
        /\ tasks'[exec.dep][exec.index] = s
        /\ \A d \in Deployment, i \in Position :
             d # exec.dep \/ i # exec.index => tasks'[d][i] = tasks[d][i]
    BY <1>2, SetTaskStep DEF Inv, TypeOK, AtRow, AtTarget, Touched, TaskStatus
  <1>4. OneActiveDeployment' /\ DhcpOrdered' /\ row' = row
    BY <1>1 DEF Inv, OneActiveDeployment, DhcpOrdered, OwnerLast, row, Working
  <1>5. /\ row.status = "running"
        /\ \A i \in DOMAIN row.targets : /\ i < exec.index => tasks[exec.dep][i] = "succeeded"
                                         /\ exec.index < i => tasks[exec.dep][i] = "pending"
    BY <1>1 DEF Inv, ExecutorInv, ExecutorRow, OtherTasks
  <1>6. TaskRows'
    BY <1>2, <1>3, SMTT(30) DEF Inv, RowInv, TaskRows, AtRow, AtTarget, Touched, row
  <1>7. SequentialStopOnFailure'
    <2>1. \A i \in Position : i < exec.index => tasks[exec.dep][i] = "succeeded"
      BY <1>2, <1>5 DEF AtTarget
    <2>2. \A i \in Position : exec.index < i => tasks[exec.dep][i] \in {"none", "pending"}
      BY <1>2, <1>5 DEF Inv, RowInv, TaskRows, AtRow, row
    <2> QED
      BY <1>2, <1>3, <2>1, <2>2, PositionNat, SMTT(30) DEF Inv, RowInv, SequentialStopOnFailure, AtRow, AtTarget
  <1>8. OutcomeMatchesTasks'
    <2>1. \A d \in Deployment : \A i \in DOMAIN deployments[d].targets : i \in Position
      BY RowType DEF Inv
    <2>2. row.status \notin Terminal
      BY <1>5 DEF Terminal
    <2> QED
      BY <1>2, <1>3, <2>1, <2>2, SMTT(30) DEF Inv, RowInv, OutcomeMatchesTasks, Terminal, AtRow, row
  <1>9. NeverReplayed'
    BY <1>2, <1>3 DEF Inv, RowInv, NeverReplayed, Touched, AtRow, AtTarget
  <1> QED
    BY <1>3, <1>4, <1>6, <1>7, <1>8, <1>9

\* Beginning a task preserves the invariant.
LEMMA BeginInv == Inv /\ BeginTask => Inv'
  <1> SUFFICES ASSUME Inv, BeginTask PROVE Inv'
    OBVIOUS
  <1>1. Working /\ RollingOut /\ exec.pc = "begin" /\ exec \in ExecutorState
    BY DEF BeginTask, Working, RollingOut, Inv, TypeOK
  <1>2. AtTarget /\ AtRow
    BY <1>1, RollingRow, WorkingRow
  <1>3. /\ exec' \in ExecutorState /\ exec'.pc = "noteApplying" /\ exec'.dep = exec.dep
        /\ exec'.index = exec.index /\ exec'.outcome = exec.outcome
    BY <1>1, GoToStep DEF BeginTask, Step
  <1>4. SetTask("applying") /\ UNCHANGED <<deployments, nodes, activeRevision, config, observedDhcp, starts,
                                               entering, written>>
    BY DEF BeginTask
  <1>5. /\ OneActiveDeployment' /\ DhcpOrdered' /\ row' = row
        /\ tasks' \in [Deployment -> [Position -> TaskStatus]]
        /\ tasks'[exec.dep][exec.index] = "applying"
        /\ \A d \in Deployment, i \in Position :
             d # exec.dep \/ i # exec.index => tasks'[d][i] = tasks[d][i]
        /\ SequentialStopOnFailure' /\ OutcomeMatchesTasks' /\ NeverReplayed' /\ TaskRows'
    BY <1>1, <1>3, <1>4, TaskStep DEF Touched
  <1>6. /\ lateStarts' \in [Deployment -> Nat]
        /\ lateStarts'[exec.dep] <= 1
        /\ lateStarts'[exec.dep] > 0 => row.cancelRequested
        /\ \A d \in Deployment : d # exec.dep => lateStarts'[d] = lateStarts[d]
    <2>1. lateStarts[exec.dep] = 0 /\ lateStarts \in [Deployment -> Nat]
      BY <1>1 DEF Inv, ExecutorInv, LateStart, TypeOK
    <2> QED
      BY <1>2, <2>1, SMTT(30) DEF BeginTask, AtRow
  <1>7. TypeOK'
    BY <1>3, <1>4, <1>5, <1>6 DEF Inv, TypeOK
  <1>8. RestingRows' /\ CancelStopsRollout'
    <2>1. row.status = "running"
      BY <1>1 DEF Inv, ExecutorInv, ExecutorRow
    <2>2. RestingRows'
      <3> SUFFICES ASSUME NEW d \in Deployment PROVE RestingRows!(d)'
        BY DEF RestingRows
      <3>1. CASE d = exec.dep
        BY <3>1, <1>4, <2>1, <1>6 DEF Inv, RowInv, RestingRows, row
      <3>2. CASE d # exec.dep
        <4>1. RestingRows!(d)
          BY DEF Inv, RowInv, RestingRows
        <4>2. \A i \in Position : tasks'[d][i] = tasks[d][i]
          BY <3>2, <1>5
        <4>3. lateStarts'[d] = lateStarts[d] /\ deployments'[d] = deployments[d]
          BY <3>2, <1>4, <1>6
        <4> QED
          BY <4>1, <4>2, <4>3, SMTT(30)
      <3> QED
        BY <3>1, <3>2
    <2>3. CancelStopsRollout'
      BY <1>2, <1>4, <1>6 DEF Inv, RowInv, CancelStopsRollout, AtRow
    <2> QED
      BY <2>2, <2>3
  <1>9. ExecutorRow' /\ EndingTasks'
    BY <1>1, <1>2, <1>3, <1>5, NotEnding DEF Inv, ExecutorInv, ExecutorRow, Working, RollingOut, AtRow, AtTarget
  <1>10. CurrentTask' /\ OtherTasks'
    <2>1. CurrentTask'
      BY <1>1, <1>3, <1>4, <1>5 DEF Inv, ExecutorInv, CurrentTask, RollingOut
    <2>2. \A i \in DOMAIN row.targets : i < exec.index \/ exec.index < i => i # exec.index
      BY <1>2, PositionNat, SMTT(30) DEF AtRow, AtTarget
    <2>3. OtherTasks'
      BY <1>1, <1>2, <1>3, <1>5, <2>2, SMTT(30) DEF Inv, ExecutorInv, OtherTasks, Preparing, AtRow
    <2> QED
      BY <2>1, <2>3
  <1>11. LateStart'
    BY <1>3 DEF LateStart, Preparing
  <1>12. AppliedRecorded' /\ DhcpHandedOver'
    BY <1>1, <1>2, <1>3, <1>4, <1>5 DEF Inv, AppliedRecorded, DhcpHandedOver, Working, RollingOut, AtRow, AtTarget
  <1> QED
    BY <1>5, <1>7, <1>8, <1>9, <1>10, <1>11, <1>12 DEF Inv, RowInv, ExecutorInv

\* Marking a task as verifying preserves the invariant.
LEMMA MarkVerifyingInv == Inv /\ MarkVerifying => Inv'
  <1> SUFFICES ASSUME Inv, MarkVerifying PROVE Inv'
    OBVIOUS
  <1>1. Working /\ RollingOut /\ exec.pc = "markVerifying" /\ exec \in ExecutorState
    BY DEF MarkVerifying, Working, RollingOut, Inv, TypeOK
  <1>2. AtTarget /\ AtRow
    BY <1>1, RollingRow, WorkingRow
  <1>3. /\ exec' \in ExecutorState /\ exec'.pc = "noteVerifying" /\ exec'.dep = exec.dep
        /\ exec'.index = exec.index /\ exec'.outcome = exec.outcome
    BY <1>1, GoToStep DEF MarkVerifying, Step
  <1>4. SetTask("verifying") /\ UNCHANGED <<deployments, nodes, activeRevision, config, observedDhcp, starts,
                                               entering, written, lateStarts>>
    BY DEF MarkVerifying
  <1>5. /\ OneActiveDeployment' /\ DhcpOrdered' /\ row' = row
        /\ tasks' \in [Deployment -> [Position -> TaskStatus]]
        /\ tasks'[exec.dep][exec.index] = "verifying"
        /\ \A d \in Deployment, i \in Position :
             d # exec.dep \/ i # exec.index => tasks'[d][i] = tasks[d][i]
        /\ SequentialStopOnFailure' /\ OutcomeMatchesTasks' /\ NeverReplayed' /\ TaskRows'
    BY <1>1, <1>3, <1>4, TaskStep DEF Touched
  <1>6. TypeOK'
    BY <1>3, <1>4, <1>5 DEF Inv, TypeOK
  <1>7. RestingRows' /\ CancelStopsRollout'
    <2>1. row.status = "running"
      BY <1>1 DEF Inv, ExecutorInv, ExecutorRow
    <2>2. RestingRows'
      <3> SUFFICES ASSUME NEW d \in Deployment PROVE RestingRows!(d)'
        BY DEF RestingRows
      <3>1. CASE d = exec.dep
        BY <3>1, <1>4, <2>1 DEF Inv, RowInv, RestingRows, row
      <3>2. CASE d # exec.dep
        BY <3>2, <1>4, <1>5 DEF Inv, RowInv, RestingRows
      <3> QED
        BY <3>1, <3>2
    <2>3. CancelStopsRollout'
      BY <1>2, <1>4 DEF Inv, RowInv, CancelStopsRollout, AtRow
    <2> QED
      BY <2>2, <2>3
  <1>8. ExecutorRow' /\ EndingTasks'
    BY <1>1, <1>2, <1>3, <1>5, NotEnding DEF Inv, ExecutorInv, ExecutorRow, Working, RollingOut, AtRow, AtTarget
  <1>9. CurrentTask' /\ OtherTasks'
    <2>1. CurrentTask'
      BY <1>1, <1>3, <1>4, <1>5 DEF Inv, ExecutorInv, CurrentTask, RollingOut
    <2>2. \A i \in DOMAIN row.targets : i < exec.index \/ exec.index < i => i # exec.index
      BY <1>2, PositionNat, SMTT(30) DEF AtRow, AtTarget
    <2>3. OtherTasks'
      BY <1>1, <1>2, <1>3, <1>5, <2>2, SMTT(30) DEF Inv, ExecutorInv, OtherTasks, Preparing, AtRow
    <2> QED
      BY <2>1, <2>3
  <1>10. LateStart'
    BY <1>3 DEF LateStart, Preparing
  <1>11. AppliedRecorded' /\ DhcpHandedOver'
    BY <1>1, <1>2, <1>3, <1>4, <1>5 DEF Inv, AppliedRecorded, DhcpHandedOver, Working, RollingOut, AtRow, AtTarget
  <1> QED
    BY <1>5, <1>6, <1>7, <1>8, <1>9, <1>10, <1>11 DEF Inv, RowInv, ExecutorInv

\* Recording a verified task preserves the invariant.
LEMMA SucceedInv == Inv /\ SucceedTask => Inv'
  <1> SUFFICES ASSUME Inv, SucceedTask PROVE Inv'
    OBVIOUS
  <1>1. Working /\ RollingOut /\ exec.pc = "succeed" /\ exec \in ExecutorState
    BY DEF SucceedTask, Working, RollingOut, Inv, TypeOK
  <1>2. AtTarget /\ AtRow
    BY <1>1, RollingRow, WorkingRow
  <1>3. /\ exec' \in ExecutorState /\ exec'.pc = "markApplied" /\ exec'.dep = exec.dep
        /\ exec'.index = exec.index /\ exec'.outcome = exec.outcome
    BY <1>1, GoToStep DEF SucceedTask, Step
  <1>4. SetTask("succeeded") /\ UNCHANGED <<deployments, nodes, activeRevision, config, observedDhcp, starts,
                                               entering, written, lateStarts>>
    BY DEF SucceedTask
  <1>5. /\ OneActiveDeployment' /\ DhcpOrdered' /\ row' = row
        /\ tasks' \in [Deployment -> [Position -> TaskStatus]]
        /\ tasks'[exec.dep][exec.index] = "succeeded"
        /\ \A d \in Deployment, i \in Position :
             d # exec.dep \/ i # exec.index => tasks'[d][i] = tasks[d][i]
        /\ SequentialStopOnFailure' /\ OutcomeMatchesTasks' /\ NeverReplayed' /\ TaskRows'
    BY <1>1, <1>3, <1>4, TaskStep DEF Touched
  <1>6. TypeOK'
    BY <1>3, <1>4, <1>5 DEF Inv, TypeOK
  <1>7. RestingRows' /\ CancelStopsRollout'
    <2>1. row.status = "running"
      BY <1>1 DEF Inv, ExecutorInv, ExecutorRow
    <2>2. RestingRows'
      <3> SUFFICES ASSUME NEW d \in Deployment PROVE RestingRows!(d)'
        BY DEF RestingRows
      <3>1. CASE d = exec.dep
        BY <3>1, <1>4, <2>1 DEF Inv, RowInv, RestingRows, row
      <3>2. CASE d # exec.dep
        BY <3>2, <1>4, <1>5 DEF Inv, RowInv, RestingRows
      <3> QED
        BY <3>1, <3>2
    <2>3. CancelStopsRollout'
      BY <1>2, <1>4 DEF Inv, RowInv, CancelStopsRollout, AtRow
    <2> QED
      BY <2>2, <2>3
  <1>8. ExecutorRow' /\ EndingTasks'
    BY <1>1, <1>2, <1>3, <1>5, NotEnding DEF Inv, ExecutorInv, ExecutorRow, Working, RollingOut, AtRow, AtTarget
  <1>9. CurrentTask' /\ OtherTasks'
    <2>1. CurrentTask'
      BY <1>1, <1>3, <1>4, <1>5 DEF Inv, ExecutorInv, CurrentTask, RollingOut
    <2>2. \A i \in DOMAIN row.targets : i < exec.index \/ exec.index < i => i # exec.index
      BY <1>2, PositionNat, SMTT(30) DEF AtRow, AtTarget
    <2>3. OtherTasks'
      BY <1>1, <1>2, <1>3, <1>5, <2>2, SMTT(30) DEF Inv, ExecutorInv, OtherTasks, Preparing, AtRow
    <2> QED
      BY <2>1, <2>3
  <1>10. LateStart'
    BY <1>3 DEF LateStart, Preparing
  <1>11. AppliedRecorded' /\ DhcpHandedOver'
    BY <1>1, <1>2, <1>3, <1>4, <1>5, SMTT(30) DEF Inv, AppliedRecorded, DhcpHandedOver, Working, RollingOut, AtRow, AtTarget
  <1> QED
    BY <1>5, <1>6, <1>7, <1>8, <1>9, <1>10, <1>11 DEF Inv, RowInv, ExecutorInv

\* Recording a failed task preserves the invariant.
LEMMA FailInv == Inv /\ FailTask => Inv'
  <1> SUFFICES ASSUME Inv, FailTask PROVE Inv'
    OBVIOUS
  <1>1. Working /\ RollingOut /\ exec.pc = "fail" /\ exec \in ExecutorState
    BY DEF FailTask, Working, RollingOut, Inv, TypeOK
  <1>2. AtTarget /\ AtRow
    BY <1>1, RollingRow, WorkingRow
  <1>3. /\ exec' \in ExecutorState /\ exec'.pc = "noteFailed" /\ exec'.dep = exec.dep
        /\ exec'.index = exec.index /\ exec'.outcome = exec.outcome
    BY <1>1, GoToStep DEF FailTask, Step
  <1>4. SetTask("failed") /\ UNCHANGED <<deployments, nodes, activeRevision, config, observedDhcp, starts,
                                               entering, written, lateStarts>>
    BY DEF FailTask
  <1>5. /\ OneActiveDeployment' /\ DhcpOrdered' /\ row' = row
        /\ tasks' \in [Deployment -> [Position -> TaskStatus]]
        /\ tasks'[exec.dep][exec.index] = "failed"
        /\ \A d \in Deployment, i \in Position :
             d # exec.dep \/ i # exec.index => tasks'[d][i] = tasks[d][i]
        /\ SequentialStopOnFailure' /\ OutcomeMatchesTasks' /\ NeverReplayed' /\ TaskRows'
    BY <1>1, <1>3, <1>4, TaskStep DEF Touched
  <1>6. TypeOK'
    BY <1>3, <1>4, <1>5 DEF Inv, TypeOK
  <1>7. RestingRows' /\ CancelStopsRollout'
    <2>1. row.status = "running"
      BY <1>1 DEF Inv, ExecutorInv, ExecutorRow
    <2>2. RestingRows'
      <3> SUFFICES ASSUME NEW d \in Deployment PROVE RestingRows!(d)'
        BY DEF RestingRows
      <3>1. CASE d = exec.dep
        BY <3>1, <1>4, <2>1 DEF Inv, RowInv, RestingRows, row
      <3>2. CASE d # exec.dep
        BY <3>2, <1>4, <1>5 DEF Inv, RowInv, RestingRows
      <3> QED
        BY <3>1, <3>2
    <2>3. CancelStopsRollout'
      BY <1>2, <1>4 DEF Inv, RowInv, CancelStopsRollout, AtRow
    <2> QED
      BY <2>2, <2>3
  <1>8. ExecutorRow' /\ EndingTasks'
    BY <1>1, <1>2, <1>3, <1>5, NotEnding DEF Inv, ExecutorInv, ExecutorRow, Working, RollingOut, AtRow, AtTarget
  <1>9. CurrentTask' /\ OtherTasks'
    <2>1. CurrentTask'
      BY <1>1, <1>3, <1>4, <1>5 DEF Inv, ExecutorInv, CurrentTask, RollingOut
    <2>2. \A i \in DOMAIN row.targets : i < exec.index \/ exec.index < i => i # exec.index
      BY <1>2, PositionNat, SMTT(30) DEF AtRow, AtTarget
    <2>3. OtherTasks'
      BY <1>1, <1>2, <1>3, <1>5, <2>2, SMTT(30) DEF Inv, ExecutorInv, OtherTasks, Preparing, AtRow
    <2> QED
      BY <2>1, <2>3
  <1>10. LateStart'
    BY <1>3 DEF LateStart, Preparing
  <1>11. AppliedRecorded' /\ DhcpHandedOver'
    BY <1>1, <1>2, <1>3, <1>4, <1>5 DEF Inv, AppliedRecorded, DhcpHandedOver, Working, RollingOut, AtRow, AtTarget
  <1> QED
    BY <1>5, <1>6, <1>7, <1>8, <1>9, <1>10, <1>11 DEF Inv, RowInv, ExecutorInv

\* A step that changes the status of one deployment and nothing else of the rows.
StatusStep(d, status) ==
  /\ deployments' = [deployments EXCEPT ![d].status = status]
  /\ UNCHANGED <<tasks, written, lateStarts, starts>>

\* What a change of one deployment status preserves.
LEMMA StatusStepRows ==
  ASSUME Inv, NEW d \in Deployment, deployments[d] \in DeploymentRow,
         NEW status \in Active \cup Terminal, StatusStep(d, status)
  PROVE  /\ deployments' \in [Deployment -> DeploymentRow \cup {NoRow("unused"), NoRow("deleted")}]
         /\ deployments'[d].status = status
         /\ deployments'[d].targets = deployments[d].targets
         /\ deployments'[d].revision = deployments[d].revision
         /\ deployments'[d].cancelRequested = deployments[d].cancelRequested
         /\ \A e \in Deployment : e # d => deployments'[e] = deployments[e]
         /\ SequentialStopOnFailure' /\ NeverReplayed' /\ CancelStopsRollout' /\ TaskRows'
         /\ DhcpOrdered'
  <1>1. /\ deployments' \in [Deployment -> DeploymentRow \cup {NoRow("unused"), NoRow("deleted")}]
        /\ deployments'[d].status = status
        /\ deployments'[d].targets = deployments[d].targets
        /\ deployments'[d].revision = deployments[d].revision
        /\ deployments'[d].cancelRequested = deployments[d].cancelRequested
        /\ \A e \in Deployment : e # d => deployments'[e] = deployments[e]
    <2> DEFINE x == [deployments[d] EXCEPT !.status = status]
    <2>1. /\ x \in DeploymentRow /\ x.status = status /\ x.targets = deployments[d].targets
          /\ x.revision = deployments[d].revision
          /\ x.cancelRequested = deployments[d].cancelRequested
      BY DEF DeploymentRow
    <2>2. deployments' = [deployments EXCEPT ![d] = x]
      BY DEF StatusStep
    <2> HIDE DEF x
    <2> QED
      BY <2>1, <2>2 DEF Inv, TypeOK
  <1>2. SequentialStopOnFailure' /\ NeverReplayed' /\ CancelStopsRollout'
    BY DEF StatusStep, Inv, RowInv, SequentialStopOnFailure, NeverReplayed, CancelStopsRollout
  <1>3. TaskRows' /\ DhcpOrdered'
    BY <1>1, SMTT(30) DEF StatusStep, Inv, RowInv, TaskRows, DhcpOrdered
  <1> QED
    BY <1>1, <1>2, <1>3

\* ClaimDeployment preserves the invariant.
LEMMA ClaimInv == Inv /\ ClaimDeployment => Inv'
  <1> SUFFICES ASSUME Inv, ClaimDeployment PROVE Inv'
    OBVIOUS
  <1> DEFINE s(d) == IF deployments[d].cancelRequested THEN "cancelling" ELSE "validating"
  <1>1. PICK d \in Deployment :
          /\ deployments[d].status \in {"queued", "cancelling"}
          /\ deployments' = [deployments EXCEPT ![d].status = s(d)]
          /\ exec' = [Idle EXCEPT !.pc = "load", !.dep = d]
    BY DEF ClaimDeployment
  <1>2. /\ exec' \in ExecutorState /\ exec'.pc = "load" /\ exec'.dep = d
        /\ UNCHANGED <<tasks, nodes, activeRevision, config, observedDhcp, starts, entering,
                       written, lateStarts>>
    BY <1>1 DEF ClaimDeployment, Idle, ExecutorState, Step
  <1>3. s(d) = IF deployments[d].status = "cancelling" THEN "cancelling" ELSE "validating"
    BY <1>1 DEF Inv, RowInv, RestingRows
  <1>4. deployments[d] \in DeploymentRow /\ s(d) \in Active \cup Terminal
    BY <1>1, RowType DEF Inv, Active
  <1> HIDE DEF s
  <1>5. StatusStep(d, s(d))
    BY <1>1, <1>2 DEF StatusStep
  <1>6. /\ deployments' \in [Deployment -> DeploymentRow \cup {NoRow("unused"), NoRow("deleted")}]
        /\ deployments'[d].status = s(d)
        /\ deployments'[d].targets = deployments[d].targets
        /\ deployments'[d].revision = deployments[d].revision
        /\ deployments'[d].cancelRequested = deployments[d].cancelRequested
        /\ \A e \in Deployment : e # d => deployments'[e] = deployments[e]
        /\ SequentialStopOnFailure' /\ NeverReplayed' /\ CancelStopsRollout' /\ TaskRows'
        /\ DhcpOrdered'
    BY <1>4, <1>5, StatusStepRows
  <1>7. TypeOK'
    BY <1>2, <1>6 DEF Inv, TypeOK
  <1>8. OneActiveDeployment'
    <2>1. OneActiveDeployment
      BY DEF Inv
    <2> QED
      BY <1>1, <1>2, <1>3, <1>6, <2>1, SMTT(30) DEF OneActiveDeployment, Active, row
  <1>9. OutcomeMatchesTasks'
    BY <1>2, <1>3, <1>6, SMTT(30) DEF Inv, RowInv, OutcomeMatchesTasks, Terminal
  <1>10. RestingRows'
    BY <1>1, <1>2, <1>3, <1>6, SMTT(30) DEF Inv, RowInv, RestingRows
  <1>11. lateStarts[d] = 0
    BY <1>1 DEF Inv, RowInv, RestingRows
  <1>12. deployments[d].status = "queued" =>
           \A i \in DOMAIN deployments[d].targets : tasks[d][i] = "pending"
    BY RowType DEF Inv, RowInv, RestingRows, TaskRows
  <1>13. ExecutorInv'
    BY <1>1, <1>2, <1>3, <1>6, <1>11, <1>12, SMTT(30)
       DEF ExecutorInv, ExecutorRow, CurrentTask, OtherTasks, EndingTasks, LateStart,
           Working, Preparing, RollingOut, row
  <1>14. AppliedRecorded' /\ DhcpHandedOver'
    BY <1>2 DEF AppliedRecorded, DhcpHandedOver, RollingOut
  <1> QED
    BY <1>6, <1>7, <1>8, <1>9, <1>10, <1>13, <1>14 DEF Inv, RowInv

\* SetDeploymentRunning preserves the invariant.
LEMMA SetRunningInv == Inv /\ SetDeploymentRunning => Inv'
  <1> SUFFICES ASSUME Inv, SetDeploymentRunning PROVE Inv'
    OBVIOUS
  <1>1. Working /\ exec.pc = "setRunning" /\ exec \in ExecutorState /\ exec.outcome \in Terminal \cup {None}
    BY DEF SetDeploymentRunning, Working, Inv, TypeOK, ExecutorState
  <1>2. AtRow /\ row \in DeploymentRow /\ row.status = "validating"
    BY <1>1, WorkingRow DEF Inv, ExecutorInv, ExecutorRow
  <1>3. /\ exec' \in ExecutorState /\ exec'.pc = "boundary" /\ exec'.dep = exec.dep /\ exec'.index = 1
        /\ UNCHANGED <<tasks, nodes, activeRevision, config, observedDhcp, starts, entering,
                       written, lateStarts>>
    BY <1>1, MoveStep, SMTT(30) DEF SetDeploymentRunning, GoToTarget, Step
  <1>4. StatusStep(exec.dep, "running")
    BY <1>2, <1>3 DEF StatusStep, SetDeploymentRunning, row
  <1>5. /\ deployments' \in [Deployment -> DeploymentRow \cup {NoRow("unused"), NoRow("deleted")}]
        /\ row'.status = "running"
        /\ row'.targets = row.targets
        /\ row'.revision = row.revision
        /\ row'.cancelRequested = row.cancelRequested
        /\ \A e \in Deployment : e # exec.dep => deployments'[e] = deployments[e]
        /\ SequentialStopOnFailure' /\ NeverReplayed' /\ CancelStopsRollout' /\ TaskRows'
        /\ DhcpOrdered'
    BY <1>2, <1>3, <1>4, StatusStepRows DEF AtRow, Active, row
  <1>6. TypeOK'
    BY <1>3, <1>5 DEF Inv, TypeOK
  <1>7. OneActiveDeployment'
    BY <1>2, <1>3, <1>5, SMTT(30) DEF Inv, OneActiveDeployment, Active, row
  <1>8. OutcomeMatchesTasks'
    BY <1>3, <1>5 DEF Inv, RowInv, OutcomeMatchesTasks, Terminal, row
  <1>9. RestingRows'
    BY <1>3, <1>5, SMTT(30) DEF Inv, RowInv, RestingRows, row
  <1>10. /\ \A i \in DOMAIN row.targets : tasks[exec.dep][i] = "pending"
         /\ lateStarts[exec.dep] = 0
    BY <1>1, <1>2 DEF Inv, ExecutorInv, OtherTasks, LateStart, Preparing
  <1>11. \A i \in DOMAIN row.targets : ~(i < 1)
    BY <1>2, PositionNat DEF AtRow
  <1>12. ExecutorRow'
    BY <1>2, <1>3, <1>5 DEF ExecutorRow, Working, RollingOut, AtRow
  <1>13. CurrentTask' /\ OtherTasks' /\ LateStart'
    BY <1>2, <1>3, <1>5, <1>10, <1>11, SMTT(30) DEF CurrentTask, OtherTasks, LateStart, Preparing, AtRow
  <1>14. AppliedRecorded' /\ DhcpHandedOver' /\ EndingTasks'
    BY <1>3, <1>5, <1>11, NotEnding DEF AppliedRecorded, DhcpHandedOver
  <1> QED
    BY <1>5, <1>6, <1>7, <1>8, <1>9, <1>12, <1>13, <1>14 DEF Inv, RowInv, ExecutorInv

\* FinishDeployment preserves the invariant.
LEMMA FinishInv == Inv /\ FinishDeployment => Inv'
  <1> SUFFICES ASSUME Inv, FinishDeployment PROVE Inv'
    OBVIOUS
  <1>1. Working /\ exec.pc = "finish"
    BY DEF FinishDeployment, Working
  <1>2. /\ AtRow /\ row \in DeploymentRow
        /\ exec.outcome \in {"succeeded", "failed", "partially_succeeded", "cancelled"}
    BY <1>1, WorkingRow DEF Inv, ExecutorInv, ExecutorRow
  <1>3. /\ exec' \in ExecutorState /\ exec'.pc = "idle"
        /\ UNCHANGED <<tasks, nodes, config, observedDhcp, starts, entering, written, lateStarts>>
        /\ activeRevision' \in Revision \cup {None}
    BY <1>2 DEF FinishDeployment, Idle, ExecutorState, Step, DeploymentRow, Inv, TypeOK
  <1>4. StatusStep(exec.dep, exec.outcome)
    BY <1>3 DEF StatusStep, FinishDeployment
  <1>5. /\ deployments' \in [Deployment -> DeploymentRow \cup {NoRow("unused"), NoRow("deleted")}]
        /\ deployments'[exec.dep].status = exec.outcome
        /\ deployments'[exec.dep].targets = row.targets
        /\ deployments'[exec.dep].cancelRequested = row.cancelRequested
        /\ \A e \in Deployment : e # exec.dep => deployments'[e] = deployments[e]
        /\ SequentialStopOnFailure' /\ NeverReplayed' /\ CancelStopsRollout' /\ TaskRows'
        /\ DhcpOrdered'
    BY <1>2, <1>4, StatusStepRows DEF AtRow, Terminal, row
  <1>6. TypeOK'
    BY <1>3, <1>5 DEF Inv, TypeOK
  <1>7. OneActiveDeployment'
    BY <1>2, <1>3, <1>5 DEF Inv, OneActiveDeployment, Active
  <1>8. OutcomeMatchesTasks'
    <2>1. EndingTasks /\ OutcomeMatchesTasks
      BY DEF Inv, RowInv, ExecutorInv
    <2> QED
      BY <1>1, <1>3, <1>5, <2>1, SMTT(30) DEF EndingTasks, OutcomeMatchesTasks
  <1>9. RestingRows'
    BY <1>2, <1>3, <1>5, SMTT(30) DEF Inv, RowInv, RestingRows, row
  <1> QED
    BY <1>3, <1>5, <1>6, <1>7, <1>8, <1>9, IdleExecutor DEF Inv, RowInv

-----------------------------------------------------------------------------
\* Node writes, skipped tasks, failures, restarts

\* A repository error that ends RunOnce preserves the invariant.
LEMMA RepositoryFailsInv == Inv /\ RepositoryFails => Inv'
  <1> SUFFICES ASSUME Inv, RepositoryFails PROVE Inv'
    OBVIOUS
  <1>1. /\ exec' \in ExecutorState /\ exec'.pc = "idle"
        /\ UNCHANGED <<deployments, tasks, nodes, activeRevision, config, observedDhcp,
                       starts, entering, written, lateStarts>>
    BY DEF RepositoryFails, Idle, ExecutorState, Step
  <1>2. TypeOK'
    BY <1>1 DEF Inv, TypeOK
  <1>3. RowInv' /\ OneActiveDeployment'
    BY <1>1, RowsUnchanged DEF OneActiveDeployment
  <1>4. DhcpOrdered'
    BY <1>1 DEF Inv, DhcpOrdered, OwnerLast
  <1> QED
    BY <1>1, <1>2, <1>3, <1>4, IdleExecutor DEF Inv

\* Whatever ApplyConfiguration leaves on a target, it serves DHCP only if it
\* did before or is the owner.
LEMMA WrittenConfig ==
  ASSUME Inv, AtTarget, row \in DeploymentRow, ApplyConfiguration
  PROVE  \E c \in [content : Content, dhcp : BOOLEAN] :
           /\ config' = [config EXCEPT ![target] = c]
           /\ c.dhcp => config[target].dhcp \/ DhcpOwner[row.revision] = target
  <1> DEFINE e == Effective(row.revision, target)
  <1>1. /\ config[target] \in [content : Content, dhcp : BOOLEAN]
        /\ e \in [content : Content, dhcp : BOOLEAN]
        /\ e.dhcp => DhcpOwner[row.revision] = target
        /\ Foreign \in Content
    BY EffectiveDhcp DEF Inv, TypeOK, Effective, Content, DeploymentRow, AtTarget
  <1>2. \/ config' = [config EXCEPT ![target] = e]
        \/ \E c \in PartialWrites(row.revision, target) : config' = [config EXCEPT ![target] = c]
    BY DEF ApplyConfiguration
  <1> HIDE DEF e
  <1>3. \A c \in {config[target], [config[target] EXCEPT !.content = Foreign],
                  [e EXCEPT !.content = Foreign], e} :
          /\ c \in [content : Content, dhcp : BOOLEAN]
          /\ c.dhcp => config[target].dhcp \/ DhcpOwner[row.revision] = target
    BY <1>1
  <1>4. PartialWrites(row.revision, target) =
          {config[target], [config[target] EXCEPT !.content = Foreign],
           [e EXCEPT !.content = Foreign], e}
    BY DEF PartialWrites, e
  <1> QED
    BY <1>2, <1>3, <1>4

\* Writing a node preserves the invariant.
LEMMA ApplyInv == Inv /\ ApplyConfiguration => Inv'
  <1> SUFFICES ASSUME Inv, ApplyConfiguration PROVE Inv'
    OBVIOUS
  <1>1. Working /\ RollingOut /\ exec.pc = "write" /\ exec \in ExecutorState
    BY DEF ApplyConfiguration, Working, RollingOut, Inv, TypeOK
  <1>2. AtTarget /\ AtRow /\ row \in DeploymentRow
    BY <1>1, RollingRow, WorkingRow
  <1>3. /\ exec' \in ExecutorState /\ exec'.pc \in {"markVerifying", "fail"} /\ exec'.dep = exec.dep
        /\ exec'.index = exec.index /\ exec'.outcome = exec.outcome
        /\ UNCHANGED <<deployments, tasks, nodes, activeRevision, observedDhcp, starts,
                       entering, lateStarts>>
    BY <1>1, GoToStep DEF ApplyConfiguration, Step
  <1>4. /\ written' \in [Deployment -> [Position -> Nat]]
        /\ written'[exec.dep][exec.index] = 1
        /\ \A d \in Deployment, i \in Position :
             d # exec.dep \/ i # exec.index => written'[d][i] = written[d][i]
    <2>1. written[exec.dep][exec.index] = 0 /\ written \in [Deployment -> [Position -> Nat]]
      BY <1>1 DEF Inv, ExecutorInv, CurrentTask, TypeOK
    <2>2. written' = [written EXCEPT ![exec.dep][exec.index] = @ + 1]
      BY DEF ApplyConfiguration
    <2> QED
      BY <1>2, <2>1, <2>2, SMTT(30) DEF AtRow, AtTarget
  <1>5. PICK c \in [content : Content, dhcp : BOOLEAN] :
          /\ config' = [config EXCEPT ![target] = c]
          /\ c.dhcp => config[target].dhcp \/ DhcpOwner[row.revision] = target
    BY <1>2, WrittenConfig
  <1>6. TypeOK'
    BY <1>2, <1>3, <1>4, <1>5 DEF Inv, TypeOK, AtTarget
  <1>7. OneActiveDeployment' /\ DhcpOrdered' /\ row' = row
    BY <1>1, <1>3 DEF Inv, OneActiveDeployment, DhcpOrdered, OwnerLast, row, Working
  <1>8. RowInv'
    <2>1. NeverReplayed'
      BY <1>1, <1>2, <1>3, <1>4, SMTT(30) DEF Inv, RowInv, ExecutorInv, CurrentTask, NeverReplayed, AtRow, AtTarget
    <2>2. OutcomeMatchesTasks'
      BY <1>3 DEF Inv, RowInv, OutcomeMatchesTasks
    <2>3. SequentialStopOnFailure' /\ CancelStopsRollout' /\ TaskRows'
      BY <1>3 DEF Inv, RowInv, SequentialStopOnFailure, CancelStopsRollout, TaskRows
    <2>4. RestingRows'
      BY <1>3 DEF Inv, RowInv, RestingRows
    <2> QED
      BY <2>1, <2>2, <2>3, <2>4 DEF RowInv
  <1>9. ExecutorRow' /\ EndingTasks' /\ LateStart'
    <2>1. ExecutorRow'
      BY <1>1, <1>2, <1>3, <1>7
         DEF Inv, ExecutorInv, ExecutorRow, Working, RollingOut, AtRow, AtTarget
    <2>2. EndingTasks' /\ LateStart'
      BY <1>3, NotEnding DEF LateStart, Preparing
    <2> QED
      BY <2>1, <2>2
  <1>10. CurrentTask' /\ OtherTasks'
    BY <1>1, <1>3, <1>7 DEF Inv, ExecutorInv, CurrentTask, OtherTasks, Preparing, RollingOut
  <1>11. AppliedRecorded'
    BY <1>1, <1>3, <1>7 DEF Inv, AppliedRecorded, Working, RollingOut
  <1>12. DhcpHandedOver'
    <2>1. /\ config'[target].dhcp => config[target].dhcp \/ DhcpOwner[row.revision] = target
          /\ \A n \in Node : n # target => config'[n] = config[n]
      BY <1>2, <1>5 DEF Inv, TypeOK, AtTarget
    <2> QED
      BY <1>1, <1>2, <1>3, <1>7, <2>1 DEF Inv, DhcpHandedOver, RollingOut, AtRow
  <1> QED
    BY <1>6, <1>7, <1>8, <1>9, <1>10, <1>11, <1>12 DEF Inv, ExecutorInv

\* Skipping a task, or finding none left, preserves the invariant.
LEMMA SkipTaskInv == Inv /\ SkipTask => Inv'
  <1> SUFFICES ASSUME Inv, SkipTask PROVE Inv'
    OBVIOUS
  <1>1. /\ Working /\ exec.pc = "skip" /\ exec \in ExecutorState /\ exec.index \in Nat
        /\ exec.index + 1 \in Nat /\ exec.outcome \in Terminal \cup {None}
    BY SMTT(30) DEF SkipTask, Working, Inv, TypeOK, ExecutorState
  <1>2. /\ AtRow
        /\ \A i \in DOMAIN row.targets : \A j \in Position : j < i => j \in DOMAIN row.targets
        /\ exec.outcome \in {"failed", "partially_succeeded", "cancelled"} /\ exec.index > 0
        /\ row.status \in {"validating", "running", "cancelling"}
    BY <1>1, WorkingRow DEF Inv, ExecutorInv, ExecutorRow
  <1>3. /\ UNCHANGED <<deployments, nodes, activeRevision, config, observedDhcp, starts,
                       entering, written, lateStarts>>
        /\ exec' \in ExecutorState /\ exec'.dep = exec.dep /\ exec'.outcome = exec.outcome
        /\ exec'.pc \in {"skip", "finish"}
    BY <1>1, MoveStep, GoToStep, SMTT(30) DEF SkipTask, GoToTarget, Step
  <1>4. OneActiveDeployment' /\ DhcpOrdered' /\ row' = row
    BY <1>1, <1>3 DEF Inv, OneActiveDeployment, DhcpOrdered, OwnerLast, row, Working
  <1>5. /\ \A i \in DOMAIN row.targets :
             /\ i < exec.index => tasks[exec.dep][i] \in Evidence(exec.outcome)
             /\ exec.index <= i => tasks[exec.dep][i] \in {"pending", "skipped"}
        /\ exec.outcome = "partially_succeeded" =>
             /\ \E i \in DOMAIN row.targets : tasks[exec.dep][i] = "succeeded"
             /\ \E i \in DOMAIN row.targets : tasks[exec.dep][i] = "failed"
    BY <1>1 DEF Inv, ExecutorInv, EndingTasks
  <1>6. AppliedRecorded' /\ DhcpHandedOver' /\ CurrentTask' /\ OtherTasks' /\ LateStart'
    BY <1>2, <1>3 DEF AppliedRecorded, DhcpHandedOver, CurrentTask, OtherTasks, LateStart,
                      Preparing, RollingOut
  <1>7. CASE exec.index \notin DOMAIN row.targets
    <2>1. exec'.pc = "finish" /\ UNCHANGED tasks
      BY <1>1, <1>7, GoToStep DEF SkipTask, Step
    <2>2. \A i \in DOMAIN row.targets : i < exec.index
      <3> TAKE i \in DOMAIN row.targets
      <3>1. i \in Position /\ i \in Nat /\ i # exec.index
        BY <1>2, <1>7, PositionNat DEF AtRow
      <3>2. exec.index < i => exec.index \in Position
        BY <1>1, <1>2, <3>1, PositionNat, SMTT(30) DEF Position
      <3>3. ~(exec.index < i)
        BY <1>2, <1>7, <3>2
      <3> QED
        BY <1>1, <3>1, <3>3, SMTT(30)
    <2>3. TypeOK' /\ RowInv'
      BY <1>3, <2>1, RowsUnchanged DEF Inv, TypeOK
    <2>4. ExecutorRow'
      BY <1>2, <1>3, <1>4, <2>1 DEF ExecutorRow, Working, Preparing, RollingOut, AtRow
    <2>5. EndingTasks'
      BY <1>2, <1>3, <1>4, <1>5, <2>1, <2>2 DEF EndingTasks
    <2> QED
      BY <1>4, <1>6, <2>3, <2>4, <2>5 DEF Inv, ExecutorInv
  <1>8. CASE exec.index \in DOMAIN row.targets
    <2>1. exec'.pc = "skip" /\ exec'.index = exec.index + 1
      BY <1>1, <1>8, MoveStep, SMTT(30) DEF SkipTask, GoToTarget, Step
    <2>2. AtTarget
      BY <1>2, <1>8 DEF AtRow, AtTarget, target
    <2>3. tasks[exec.dep][exec.index] \in {"pending", "skipped"}
      BY <1>1, <1>5, <1>8, SMTT(30)
    <2>4. /\ tasks' \in [Deployment -> [Position -> TaskStatus]]
          /\ tasks'[exec.dep][exec.index] = "skipped"
          /\ \A d \in Deployment, i \in Position :
               d # exec.dep \/ i # exec.index => tasks'[d][i] = tasks[d][i]
      <3>1. CASE SetTask("skipped")
        BY <3>1, <1>2, <2>2, SetTaskStep DEF Inv, TypeOK, AtRow, AtTarget, TaskStatus
      <3>2. CASE tasks[exec.dep][exec.index] # "pending" /\ UNCHANGED tasks
        BY <3>2, <2>3 DEF Inv, TypeOK
      <3> QED
        BY <1>8, <3>1, <3>2 DEF SkipTask
    <2>5. TypeOK'
      BY <1>3, <2>4 DEF Inv, TypeOK
    <2>6. RowInv'
      <3>1. SequentialStopOnFailure'
        <4>1. SequentialStopOnFailure
          BY DEF Inv, RowInv
        <4> QED
          BY <1>2, <2>2, <2>3, <2>4, PositionNat, <4>1, SMTT(30) DEF SequentialStopOnFailure, AtRow, AtTarget
      <3>2. OutcomeMatchesTasks'
        <4>1. \A d \in Deployment : \A i \in DOMAIN deployments[d].targets : i \in Position
          BY RowType DEF Inv
        <4>2. row.status \notin Terminal
          BY <1>2 DEF Terminal
        <4> QED
          BY <1>2, <1>3, <2>4, <4>1, <4>2, SMTT(30) DEF Inv, RowInv, OutcomeMatchesTasks, Terminal, AtRow, row
      <3>3. NeverReplayed'
        <4>1. NeverReplayed
          BY DEF Inv, RowInv
        <4> QED
          BY <1>2, <1>3, <2>2, <2>3, <2>4, <4>1, SMTT(30) DEF NeverReplayed, AtRow, AtTarget
      <3>4. TaskRows'
        BY <1>2, <1>3, <2>2, <2>4, SMTT(30) DEF Inv, RowInv, TaskRows, AtRow, AtTarget, row
      <3>5. CancelStopsRollout'
        BY <1>3 DEF Inv, RowInv, CancelStopsRollout
      <3>6. RestingRows'
        <4>1. RestingRows /\ UNCHANGED <<deployments, lateStarts>>
          BY <1>3 DEF Inv, RowInv
        <4>2. deployments[exec.dep].status \notin {"unused", "deleted", "queued"}
          BY <1>2 DEF row
        <4>3. \A d \in Deployment, i \in Position :
                tasks'[d][i] = tasks[d][i] \/ (d = exec.dep /\ tasks'[d][i] \in Untouched)
          BY <2>4 DEF Untouched
        <4>4. \A d \in Deployment : deployments[d].status \in {"unused", "deleted", "queued"} =>
                \A i \in Position : tasks'[d][i] \in {"none", "pending"}
          <5> SUFFICES ASSUME NEW d \in Deployment, NEW i \in Position,
                              deployments[d].status \in {"unused", "deleted", "queued"}
                       PROVE  tasks'[d][i] \in {"none", "pending"}
            OBVIOUS
          <5>1. d # exec.dep
            BY <4>2
          <5>2. tasks'[d][i] = tasks[d][i]
            BY <4>3, <5>1
          <5>3. tasks[d][i] \in {"none", "pending"}
            BY <4>1 DEF RestingRows
          <5> QED
            BY <5>2, <5>3
        <4>5. \A d \in Deployment : deployments[d].status = "cancelling" =>
                \A i \in Position : tasks'[d][i] \in Untouched
          BY <4>1, <4>3 DEF RestingRows
        <4> QED
          BY <4>1, <4>4, <4>5 DEF RestingRows
      <3> QED
        BY <3>1, <3>2, <3>3, <3>4, <3>5, <3>6 DEF RowInv
    <2>7. ExecutorRow'
      BY <1>1, <1>2, <1>3, <1>4, <2>1, SMTT(30) DEF ExecutorRow, Working, Preparing, RollingOut, AtRow
    <2>8. EndingTasks'
      <3>1. "skipped" \in Evidence(exec.outcome)
        BY <1>2 DEF Evidence
      <3>2. \A i \in DOMAIN row.targets : i # exec.index => tasks'[exec.dep][i] = tasks[exec.dep][i]
        BY <1>2, <2>4 DEF AtRow
      <3>3. \A i \in DOMAIN row.targets :
              /\ i < exec.index + 1 => tasks'[exec.dep][i] \in Evidence(exec.outcome)
              /\ exec.index + 1 <= i => tasks'[exec.dep][i] \in {"pending", "skipped"}
        <4> TAKE i \in DOMAIN row.targets
        <4>1. i \in Nat
          BY <1>2, PositionNat DEF AtRow
        <4>2. CASE i = exec.index
          BY <1>1, <2>4, <3>1, <4>2
        <4>3. CASE i < exec.index
          BY <1>1, <1>5, <3>2, <4>1, <4>3, SMTT(30)
        <4>4. CASE exec.index < i
          BY <1>1, <1>5, <3>2, <4>1, <4>4, SMTT(30)
        <4> QED
          BY <1>1, <4>1, <4>2, <4>3, <4>4, SMTT(30)
      <3>4. exec.outcome = "partially_succeeded" =>
              /\ \E i \in DOMAIN row.targets : tasks'[exec.dep][i] = "succeeded"
              /\ \E i \in DOMAIN row.targets : tasks'[exec.dep][i] = "failed"
        BY <1>5, <2>3, <3>2
      <3> QED
        BY <1>3, <1>4, <2>1, <3>3, <3>4 DEF EndingTasks
    <2> QED
      BY <1>4, <1>6, <2>5, <2>6, <2>7, <2>8 DEF Inv, ExecutorInv
  <1> QED
    BY <1>7, <1>8

\* InterruptDeployments preserves the invariant.
LEMMA RestartInv == Inv /\ Restart => Inv'
  <1> SUFFICES ASSUME Inv, Restart PROVE Inv'
    OBVIOUS
  <1> DEFINE cut(d) == deployments[d].status \in {"validating", "running", "cancelling"}
  <1>1. /\ exec' \in ExecutorState /\ exec'.pc = "idle" /\ starts' = {} /\ entering' = {}
        /\ UNCHANGED <<nodes, activeRevision, config, observedDhcp, written, lateStarts>>
    BY DEF Restart, Idle, ExecutorState, Step
  <1>2. \A d \in Deployment :
          /\ cut(d) => deployments[d] \in DeploymentRow
          /\ \A i \in DOMAIN deployments[d].targets : i \in Position
          /\ deployments[d].status \in Active \cup Terminal \cup {"unused", "deleted"}
    BY RowType DEF Inv, Active
  <1>3. /\ deployments' = [d \in Deployment |->
             IF cut(d) THEN [deployments[d] EXCEPT !.status = "interrupted"] ELSE deployments[d]]
        /\ tasks' = [d \in Deployment |-> [i \in Position |->
             CASE tasks[d][i] \in {"applying", "verifying"} -> "interrupted"
               [] tasks[d][i] = "pending" /\ cut(d) -> "skipped"
               [] OTHER -> tasks[d][i]]]
    BY DEF Restart, InterruptDeployments
  <1>4. /\ \A d \in Deployment : ~cut(d) => deployments'[d] = deployments[d]
        /\ \A d \in Deployment : cut(d) =>
             /\ deployments'[d] \in DeploymentRow /\ deployments'[d].status = "interrupted"
             /\ deployments'[d].targets = deployments[d].targets
             /\ deployments'[d].revision = deployments[d].revision
             /\ deployments'[d].cancelRequested = deployments[d].cancelRequested
        /\ deployments' \in [Deployment -> DeploymentRow \cup {NoRow("unused"), NoRow("deleted")}]
    <2>1. \A d \in Deployment : ~cut(d) => deployments'[d] = deployments[d]
      BY <1>3
    <2>2. \A d \in Deployment : cut(d) =>
             /\ deployments'[d] \in DeploymentRow /\ deployments'[d].status = "interrupted"
             /\ deployments'[d].targets = deployments[d].targets
             /\ deployments'[d].revision = deployments[d].revision
             /\ deployments'[d].cancelRequested = deployments[d].cancelRequested
      BY <1>2, <1>3 DEF DeploymentRow, Terminal
    <2> QED
      BY <1>3, <2>1, <2>2 DEF Inv, TypeOK
  <1>5. /\ tasks' \in [Deployment -> [Position -> TaskStatus]]
        /\ \A d \in Deployment, i \in Position :
             /\ tasks[d][i] \in {"applying", "verifying"} => tasks'[d][i] = "interrupted"
             /\ tasks[d][i] = "pending" /\ cut(d) => tasks'[d][i] = "skipped"
             /\ tasks[d][i] \notin {"applying", "verifying"} /\ ~(tasks[d][i] = "pending" /\ cut(d)) =>
                  tasks'[d][i] = tasks[d][i]
    BY <1>3 DEF Inv, TypeOK, TaskStatus
  <1> HIDE DEF cut
  <1>6. TypeOK'
    BY <1>1, <1>4, <1>5 DEF Inv, TypeOK
  <1>7. OneActiveDeployment'
    <2>1. \A d \in Deployment : deployments'[d].status \in Active => deployments[d].status \in Active
      BY <1>4 DEF Active
    <2> QED
      BY <1>1, <2>1 DEF Inv, OneActiveDeployment
  <1>8. RowInv'
    <2>1. SequentialStopOnFailure'
      <3>1. \A d \in Deployment, i \in Position :
              /\ tasks[d][i] = "succeeded" => tasks'[d][i] = "succeeded"
              /\ tasks'[d][i] \notin {"none", "pending", "skipped"} =>
                   tasks[d][i] \notin {"none", "pending", "skipped"}
        BY <1>5
      <3> QED
        BY <3>1 DEF Inv, RowInv, SequentialStopOnFailure
    <2>2. NeverReplayed'
      <3>1. \A d \in Deployment, i \in Position :
              tasks'[d][i] \in {"none", "pending", "skipped"} =>
                tasks[d][i] \in {"none", "pending", "skipped"}
        BY <1>5
      <3> QED
        BY <1>1, <3>1 DEF Inv, RowInv, NeverReplayed
    <2>3. CancelStopsRollout'
      BY <1>1 DEF Inv, RowInv, CancelStopsRollout
    <2>4. TaskRows'
      <3>1. \A d \in Deployment, i \in Position : tasks[d][i] # "none" <=> tasks'[d][i] # "none"
        BY <1>5
      <3>2. \A d \in Deployment : deployments'[d].targets = deployments[d].targets
        BY <1>4
      <3> QED
        BY <3>1, <3>2 DEF Inv, RowInv, TaskRows
    <2>5. OutcomeMatchesTasks'
      <3> SUFFICES ASSUME NEW d \in Deployment PROVE OutcomeMatchesTasks!(d)'
        BY DEF OutcomeMatchesTasks
      <3>1. CASE cut(d)
        <4>1. \A i \in DOMAIN deployments[d].targets :
                tasks'[d][i] \in {"succeeded", "failed", "skipped", "interrupted"}
          <5>1. TypeOK /\ TaskRows
            BY DEF Inv, RowInv
          <5> QED
            BY <3>1, <1>2, <1>5, <5>1, SMTT(30) DEF TypeOK, TaskStatus, TaskRows
        <4> QED
          BY <3>1, <1>4, <4>1 DEF Evidence
      <3>2. CASE ~cut(d) /\ deployments[d].status \in Terminal
        <4>1. \A i \in DOMAIN deployments[d].targets : tasks[d][i] \notin {"applying", "verifying", "pending"}
          BY <3>2 DEF Inv, RowInv, OutcomeMatchesTasks, Evidence, Terminal
        <4>2. \A i \in DOMAIN deployments[d].targets : tasks'[d][i] = tasks[d][i]
          BY <1>2, <1>5, <4>1
        <4> QED
          BY <3>2, <1>4, <4>2, SMTT(30) DEF Inv, RowInv, OutcomeMatchesTasks
      <3>3. CASE ~cut(d) /\ deployments[d].status \notin Terminal
        BY <3>3, <1>4 DEF Terminal
      <3> QED
        BY <3>1, <3>2, <3>3
    <2>6. RestingRows'
      <3> SUFFICES ASSUME NEW d \in Deployment PROVE RestingRows!(d)'
        BY DEF RestingRows
      <3>1. CASE cut(d)
        BY <3>1, <1>1, <1>4 DEF Inv, RowInv, RestingRows
      <3>2. CASE ~cut(d)
        <4>1. deployments[d].status # "cancelling"
          BY <3>2 DEF cut
        <4> QED
          <5>1. RestingRows
            BY DEF Inv, RowInv
          <5> QED
            BY <3>2, <4>1, <1>1, <1>4, <1>5, <5>1, SMTT(30) DEF RestingRows
      <3> QED
        BY <3>1, <3>2
    <2> QED
      BY <2>1, <2>2, <2>3, <2>4, <2>5, <2>6 DEF RowInv
  <1>9. DhcpOrdered'
    BY <1>1, <1>4 DEF Inv, DhcpOrdered
  <1> QED
    BY <1>1, <1>6, <1>7, <1>8, <1>9, IdleExecutor DEF Inv

\* Every step preserves the invariant.
LEMMA NextInv == Inv /\ [Next]_vars => Inv'
  <1> SUFFICES ASSUME Inv, [Next]_vars PROVE Inv'
    OBVIOUS
  <1>1. CASE DeploymentApi
    BY <1>1, PreviewDeploymentInv, CreateDeploymentInv, CancelInv, DeleteInv DEF DeploymentApi
  <1>2. CASE NodeApi
    BY <1>2, NodeApiInv
  <1>3. CASE ExecutorStep
    BY <1>3, LoadInv, PrepareInv, SetRunningInv, SafeBoundaryInv, BeginInv, NoteApplyingInv,
       ApplyInv, MarkVerifyingInv, NoteVerifyingInv, ReadBackInv, SucceedInv, MarkAppliedInv,
       FailInv, NoteFailedInv, SkipTaskInv DEF ExecutorStep
  <1>4. CASE ClaimDeployment \/ FinishDeployment
    BY <1>4, ClaimInv, FinishInv
  <1>5. CASE Environment
    BY <1>5, RepositoryFailsInv, RestartInv, EditNodeInv DEF Environment
  <1>6. CASE UNCHANGED vars
    <2>1. TypeOK' /\ \A q \in starts' : OwnerLast(q.revision, q.targets)
      BY <1>6 DEF vars, Inv, TypeOK, DhcpOrdered
    <2> QED
      BY <1>6, <2>1, Frame DEF vars
  <1> QED
    BY <1>1, <1>2, <1>3, <1>4, <1>5, <1>6 DEF Next, Executor

\* The inductive invariant holds in every reachable state.
THEOREM Invariance == Spec => []Inv
  BY InitInv, NextInv, PTL DEF Spec

-----------------------------------------------------------------------------
\* The properties: consequences of the inductive invariant, for any number of
\* nodes, revisions and deployments, any node order and any DHCP ownership, with
\* every call and every fault.


\* Every row, request and history counter keeps its type.
THEOREM TypeCorrect == Spec => []TypeOK
  <1>1. Inv => TypeOK
    BY DEF Inv
  <1> QED
    BY <1>1, Invariance, PTL

\* Two rollouts never overlap, and the executor works only for an active one.
THEOREM RolloutsExclude == Spec => []OneActiveDeployment
  <1>1. Inv => OneActiveDeployment
    BY DEF Inv
  <1> QED
    BY <1>1, Invariance, PTL

\* execute applies targets one after the other and stops at the first failure.
THEOREM RolloutSequential == Spec => []SequentialStopOnFailure
  <1>1. Inv => SequentialStopOnFailure
    BY DEF Inv, RowInv
  <1> QED
    BY <1>1, Invariance, PTL

\* The final status FinishDeployment or InterruptDeployments stores agrees with
\* the task rows.
THEOREM OutcomeFaithful == Spec => []OutcomeMatchesTasks
  <1>1. Inv => OutcomeMatchesTasks
    BY DEF Inv, RowInv
  <1> QED
    BY <1>1, Invariance, PTL

\* No deployment writes a node twice, whatever fails or restarts.
THEOREM AtMostOnce == Spec => []NeverReplayed
  <1>1. Inv => NeverReplayed
    BY DEF Inv, RowInv
  <1> QED
    BY <1>1, Invariance, PTL

\* A cancellation lets at most the task already past its boundary begin.
THEOREM CancelBounded == Spec => []CancelStopsRollout
  <1>1. Inv => CancelStopsRollout
    BY DEF Inv, RowInv
  <1> QED
    BY <1>1, Invariance, PTL

\* Only FinishDeployment writes clusters.active_revision_id, and only for a
\* fully verified manual or rollback deployment.
LEMMA ActivationInductive == Inv /\ [Next]_vars => [ActivationStep]_vars
  <1> SUFFICES ASSUME Inv, Next PROVE ActivationStep
    OBVIOUS
  <1>1. CASE FinishDeployment
    <2> SUFFICES ASSUME exec.outcome = "succeeded", row.origin # "reconciliation",
                        activeRevision' = row.revision
                 PROVE  ActivationStep
      BY <1>1 DEF FinishDeployment, ActivationStep
    <2>1. AtRow /\ row \in DeploymentRow
      BY <1>1, WorkingRow DEF FinishDeployment, Working
    <2>2. row.status = "running" /\ deployments'[exec.dep].status = "succeeded"
      BY <1>1, <2>1 DEF FinishDeployment, Inv, TypeOK, ExecutorInv, EndingTasks, AtRow, DeploymentRow, row
    <2>3. \A i \in DOMAIN row.targets :
            tasks[exec.dep][i] = "succeeded" /\ nodes[row.targets[i]].applied = row.revision
      BY <1>1 DEF FinishDeployment, Inv, ExecutorInv, EndingTasks, Evidence, AppliedRecorded, Working
    <2> QED
      BY <2>1, <2>2, <2>3 DEF ActivationStep, AtRow, row
  <1>2. CASE ~FinishDeployment
    <2>1. UNCHANGED activeRevision
      BY <1>2 DEF Next, DeploymentApi, NodeApi, Executor, ExecutorStep, Environment,
           PreviewDeployment, CreateDeployment, RequestDeploymentCancel, DeleteUnstartedDeployment,
           UpdateNode, SoftDeleteNode, MaintenancePreflight, EnterMaintenance, ReturnToService,
           ClaimDeployment, LoadDeployment, PrepareTarget, SetDeploymentRunning, SafeBoundary,
           BeginTask, NoteApplying, ApplyConfiguration, MarkVerifying, NoteVerifying, ReadBack,
           SucceedTask, MarkNodeApplied, FailTask, NoteFailed, SkipTask, RepositoryFails, Restart,
           EditNode
    <2> QED
      BY <2>1 DEF ActivationStep
  <1> QED
    BY <1>1, <1>2

\* The active revision changes only to one that every target verifiably runs.
THEOREM ActivationSafe == Spec => ActivationVerified
  <1>1. Spec => []Inv /\ [][Next]_vars
    BY Invariance, PTL DEF Spec
  <1> QED
    BY <1>1, ActivationInductive, PTL DEF ActivationVerified

\* Only ApplyConfiguration may start DHCP on a node, and it does so on the last
\* target, after every other target has been read back.
LEMMA DhcpInductive == Inv /\ [Next]_vars => [DhcpStep]_vars
  <1> SUFFICES ASSUME Inv, Next PROVE DhcpStep
    OBVIOUS
  <1>1. CASE ApplyConfiguration
    <2> SUFFICES ASSUME NEW n \in Node, config'[n].dhcp, ~config[n].dhcp,
                        NEW i \in DOMAIN row.targets, row.targets[i] # n
                 PROVE  ~config[row.targets[i]].dhcp
      BY DEF DhcpStep
    <2>1. Working /\ RollingOut /\ exec.pc = "write"
      BY <1>1 DEF ApplyConfiguration, Working, RollingOut
    <2>2. AtTarget /\ AtRow /\ row \in DeploymentRow
      BY <2>1, RollingRow, WorkingRow
    <2>3. n = target /\ DhcpOwner[row.revision] = n
      <3>1. PICK c \in [content : Content, dhcp : BOOLEAN] :
              /\ config' = [config EXCEPT ![target] = c]
              /\ c.dhcp => config[target].dhcp \/ DhcpOwner[row.revision] = target
        BY <1>1, <2>2, WrittenConfig
      <3>2. n = target
        BY <3>1 DEF Inv, TypeOK
      <3> QED
        BY <2>2, <3>1, <3>2 DEF Inv, TypeOK, AtTarget
    <2>4. atLast
      BY <2>2, <2>3 DEF Inv, DhcpOrdered, OwnerLast, AtRow, AtTarget, atLast, target, row
    <2>5. i < exec.index \/ i = exec.index
      BY <2>1, <2>2, <2>4, LastTarget DEF AtTarget
    <2>6. i < exec.index
      BY <2>3, <2>5 DEF target
    <2> QED
      BY <2>1, <2>3, <2>6 DEF Inv, DhcpHandedOver
  <1>2. CASE ~ApplyConfiguration
    <2>1. \A n \in Node : config'[n].dhcp => config[n].dhcp
      BY <1>2 DEF Inv, TypeOK, Next, DeploymentApi, NodeApi, Executor, ExecutorStep, Environment,
           PreviewDeployment, CreateDeployment, RequestDeploymentCancel, DeleteUnstartedDeployment,
           UpdateNode, SoftDeleteNode, MaintenancePreflight, EnterMaintenance, ReturnToService,
           ClaimDeployment, LoadDeployment, PrepareTarget, SetDeploymentRunning, SafeBoundary,
           BeginTask, NoteApplying, MarkVerifying, NoteVerifying, ReadBack,
           SucceedTask, MarkNodeApplied, FailTask, NoteFailed, SkipTask, FinishDeployment,
           RepositoryFails, Restart, EditNode
    <2> QED
      BY <2>1 DEF DhcpStep
  <1> QED
    BY <1>1, <1>2

\* A rollout never runs two of its targets as DHCP servers by its own doing.
THEOREM DhcpHandoverSafe == Spec => DhcpDisabledBeforeEnabled
  <1>1. Spec => []Inv /\ [][Next]_vars
    BY Invariance, PTL DEF Spec
  <1> QED
    BY <1>1, DhcpInductive, PTL DEF DhcpDisabledBeforeEnabled

\* Every step leaves the row and the tasks of a terminal deployment alone.
LEMMA HistoryInductive == Inv /\ [Next]_vars => [HistoryStep]_vars
  <1> SUFFICES ASSUME Inv, Next, NEW d \in Deployment, deployments[d].status \in Terminal
               PROVE  deployments'[d] = deployments[d] /\ tasks'[d] = tasks[d]
    BY DEF HistoryStep
  <1>1. /\ deployments[d].status \notin Active \cup {"unused", "deleted"}
        /\ Working => exec.dep # d
    BY DEF Inv, ExecutorInv, ExecutorRow, Active, Terminal, row
  <1>2. CASE DeploymentApi
    <2>1. ASSUME NEW e \in Deployment, RequestDeploymentCancel(e) \/ DeleteUnstartedDeployment(e)
          PROVE  deployments'[d] = deployments[d] /\ tasks'[d] = tasks[d]
      <3>1. e # d
        BY <1>1, <2>1 DEF RequestDeploymentCancel, DeleteUnstartedDeployment, Active
      <3> QED
        BY <2>1, <3>1 DEF RequestDeploymentCancel, DeleteUnstartedDeployment, Inv, TypeOK
    <2>2. ASSUME NEW e \in Deployment, NEW q \in starts,
                 InsertDeployment(e, q.revision, q.origin, q.targets)
          PROVE  deployments'[d] = deployments[d] /\ tasks'[d] = tasks[d]
      <3>1. e # d
        BY <1>1, <2>2, SMTT(30) DEF InsertDeployment, NoRow
      <3>2. DOMAIN deployments = Deployment /\ DOMAIN tasks = Deployment
        BY DEF Inv, TypeOK
      <3> QED
        BY <2>2, <3>1, <3>2 DEF InsertDeployment
    <2> QED
      BY <1>2, <2>1, <2>2 DEF DeploymentApi, PreviewDeployment, CreateDeployment
  <1>3. CASE NodeApi
    BY <1>3 DEF NodeApi, UpdateNode, SoftDeleteNode, MaintenancePreflight, EnterMaintenance,
         ReturnToService
  <1>4. CASE ClaimDeployment
    BY <1>1, <1>4, SMTT(30) DEF ClaimDeployment, Active
  <1>5. CASE SetDeploymentRunning \/ FinishDeployment
    BY <1>1, <1>5 DEF SetDeploymentRunning, FinishDeployment, Working, Inv, TypeOK
  <1>6. CASE BeginTask \/ MarkVerifying \/ SucceedTask \/ FailTask \/ SkipTask
    BY <1>1, <1>6 DEF BeginTask, MarkVerifying, SucceedTask, FailTask, SkipTask, SetTask, Working, Inv, TypeOK
  <1>7. CASE \/ LoadDeployment \/ PrepareTarget \/ SafeBoundary \/ NoteApplying \/ ApplyConfiguration
             \/ NoteVerifying \/ ReadBack \/ MarkNodeApplied \/ NoteFailed
    BY <1>7 DEF LoadDeployment, PrepareTarget, SafeBoundary, NoteApplying, ApplyConfiguration,
         NoteVerifying, ReadBack, MarkNodeApplied, NoteFailed
  <1>8. CASE RepositoryFails \/ \E n \in Node : EditNode(n)
    BY <1>8 DEF RepositoryFails, EditNode
  <1>9. CASE Restart
    <2>1. \A i \in Position : tasks[d][i] \notin {"applying", "verifying"}
      BY DEF Inv, RowInv, TaskRows, OutcomeMatchesTasks, Evidence, Terminal
    <2>2. deployments[d].status \notin {"validating", "running", "cancelling"}
      BY <1>1 DEF Active
    <2>3. deployments'[d] = deployments[d]
      BY <1>9, <2>2 DEF Restart, InterruptDeployments
    <2>4. tasks'[d] = [i \in Position |-> tasks[d][i]]
      BY <1>9, <2>1, <2>2 DEF Restart, InterruptDeployments
    <2> QED
      BY <2>3, <2>4 DEF Inv, TypeOK
  <1> QED
    BY <1>2, <1>3, <1>4, <1>5, <1>6, <1>7, <1>8, <1>9 DEF Next, Executor, ExecutorStep, Environment

\* A finished deployment is immutable evidence.
THEOREM HistorySafe == Spec => TerminalIsFinal
  <1>1. Spec => []Inv /\ [][Next]_vars
    BY Invariance, PTL DEF Spec
  <1> QED
    BY <1>1, HistoryInductive, PTL DEF TerminalIsFinal

===============================================================================
