------------------------ MODULE OperationalCommands ------------------------
(***************************************************************************)
(* The table operational_commands: fleet commands (upstream and filter     *)
(* tests, cache, query log and statistics resets), which a worker executes *)
(* node by node, and DHCP resets, which the API request itself executes.   *)
(* Creation is idempotent by (requested_by, idempotency_key).              *)
(*                                                                         *)
(* Sources: internal/operations/{service,executor}.go,                     *)
(* internal/inventory/dhcp_operations.go,                                  *)
(* internal/database/{dns_operational_commands,operational_commands}.go.   *)
(*                                                                         *)
(* One step is one repository or node call.  After a restart the recovery  *)
(* of main runs before the worker and the API.                             *)
(***************************************************************************)
EXTENDS Integers, FiniteSets

CONSTANTS
  NodeCount,     \* nodes, by their position in ListNodes
  Slot,          \* pairs (requested_by, idempotency_key)
  FleetInput,    \* command, target scope and arguments of a fleet command
  DhcpInput,     \* command and node of a DHCP reset
  Scope,         \* the nodes a fleet input names
  DhcpNode,      \* the node a DHCP input names
  MaxStarting,   \* bound: requests between selection and insert
  Faults,        \* environment faults that may happen
  None

Node == 1 .. NodeCount
CommandFault == {"repository", "node", "payload", "restart", "manage"}

ASSUME NodeCountNat == NodeCount \in Nat
ASSUME InputFacts ==
  /\ FleetInput \cap DhcpInput = {} /\ None \notin FleetInput \cup DhcpInput \cup Slot
  /\ Scope \in [FleetInput -> SUBSET Node] /\ DhcpNode \in [DhcpInput -> Node]
ASSUME CommandBounds == MaxStarting \in Nat /\ Faults \subseteq CommandFault

VARIABLES
  commands,   \* table operational_commands
  results,    \* table operational_command_node_results: status by node
  nodes,      \* what the selection reads of a node
  starting,   \* requests that have read the nodes and not yet inserted
  exec,       \* the main goroutine during recovery, the worker afterwards
  dhcp,       \* where the request that created a DHCP reset stands
  calls,      \* history: calls of a node made for a command
  abandoned   \* history: commands the worker gave up since the controller started

vars == <<commands, results, nodes, starting, exec, dhcp, calls, abandoned>>

Ended == {"succeeded", "partial_success", "failed", "interrupted"}
Status == {"none", "queued", "running"} \cup Ended
Result == {"none", "pending", "running", "succeeded", "failed"}
\* A disabled node, and one that lacks support, is to a fleet command like one
\* in maintenance and to a DHCP reset like one in service.
NodeMode == {"service", "maintenance"}
CommandRow == [status : Status, input : FleetInput \cup DhcpInput \cup {None}]
NoCommand == [status |-> "none", input |-> None]
StartRequest == [slot : Slot, input : FleetInput \cup DhcpInput, targets : SUBSET Node]
WorkerStep == {"load", "loop", "call", "succeed", "fail", "failAll"}
RecoveryStep == {"recoverNext", "recover"}
WorkerState == [pc : WorkerStep \cup RecoveryStep \cup {"idle"}, cmd : Slot \cup {None},
                index : Nat, seen : SUBSET {"succeeded", "failed"}]
At(pc, s, i, seen) == [pc |-> pc, cmd |-> s, index |-> i, seen |-> seen]
Idle == At("idle", None, 0, {})
Recovering == At("recoverNext", None, 0, {})
DhcpStep == {"none", "check", "call", "succeed", "fail"}

TypeOK ==
  /\ commands \in [Slot -> CommandRow]
  /\ results \in [Slot -> [Node -> Result]]
  /\ nodes \in [Node -> NodeMode]
  /\ starting \in SUBSET StartRequest
  /\ exec \in WorkerState
  /\ dhcp \in [Slot -> DhcpStep]
  /\ calls \in [Slot -> [Node -> Nat]]
  /\ abandoned \in SUBSET Slot

Init ==
  /\ commands = [s \in Slot |-> NoCommand]
  /\ results = [s \in Slot |-> [n \in Node |-> "none"]]
  /\ nodes \in [Node -> NodeMode]
  /\ starting = {}
  /\ exec = Recovering
  /\ dhcp = [s \in Slot |-> "none"]
  /\ calls = [s \in Slot |-> [n \in Node |-> 0]]
  /\ abandoned = {}

Serving == exec.pc \notin RecoveryStep
SetStatus(s, status) == commands' = [commands EXCEPT ![s].status = status]
SetResult(s, n, result) == results' = [results EXCEPT ![s][n] = result]
Fleet(s) == commands[s].input \in FleetInput

-----------------------------------------------------------------------------
\* Starting a fleet command (Service.start)

\* Selection: enabled, not in maintenance, supporting the command.
StartCommand(s, input) ==
  LET selected == {n \in Scope[input] : nodes[n] = "service"}
  IN  /\ Serving
      /\ Cardinality(starting) < MaxStarting
      /\ selected # {}
      /\ starting' = starting \cup {[slot |-> s, input |-> input, targets |-> selected]}
      /\ UNCHANGED <<commands, results, nodes, exec, dhcp, calls, abandoned>>

\* INSERT ... ON CONFLICT (requested_by, idempotency_key) DO NOTHING; a repeat
\* reads the stored command and answers with it, or with a conflict.
CreateOperationalCommand(q) ==
  /\ q \in starting /\ q.input \in FleetInput
  /\ starting' = starting \ {q}
  /\ IF commands[q.slot].status = "none"
       THEN /\ commands' = [commands EXCEPT ![q.slot] =
                 [status |-> "queued", input |-> q.input]]
            /\ results' = [results EXCEPT ![q.slot] =
                 [n \in Node |-> IF n \in q.targets THEN "pending" ELSE "none"]]
       ELSE UNCHANGED <<commands, results>>
  /\ UNCHANGED <<nodes, exec, dhcp, calls, abandoned>>

-----------------------------------------------------------------------------
\* The worker (CommandExecutor.RunOnce, failAll)

\* Mutant: an interrupted command is claimed again.
ClaimUnfinished ==
  /\ exec.pc = "idle"
  /\ \E s \in Slot :
       /\ commands[s].status \in {"queued", "interrupted"}
       /\ SetStatus(s, "running")
       /\ exec' = At("load", s, 1, {})
  /\ UNCHANGED <<results, nodes, starting, dhcp, calls, abandoned>>
ClaimOperationalCommand ==
  /\ exec.pc = "idle"
  /\ \E s \in Slot :
       /\ commands[s].status = "queued"
       /\ SetStatus(s, "running")
       /\ exec' = At("load", s, 1, {})
  /\ UNCHANGED <<results, nodes, starting, dhcp, calls, abandoned>>

\* Load the command and decode its payload.
LoadCommand ==
  /\ exec.pc = "load"
  /\ \/ exec' = [exec EXCEPT !.pc = "loop"]
     \/ "payload" \in Faults /\ exec' = [exec EXCEPT !.pc = "failAll"]
  /\ UNCHANGED <<commands, results, nodes, starting, dhcp, calls, abandoned>>

BeginResult ==
  /\ exec.pc = "loop" /\ exec.index \in Node
  /\ IF results[exec.cmd][exec.index] = "pending"
       THEN /\ SetResult(exec.cmd, exec.index, "running")
            /\ exec' = [exec EXCEPT !.pc = "call"]
       ELSE exec' = [exec EXCEPT !.index = @ + 1] /\ UNCHANGED results
  /\ UNCHANGED <<commands, nodes, starting, dhcp, calls, abandoned>>

\* The call.  An error may come before it (record, credentials), from the node,
\* or after the node has acted.
Called(s, n, k) == calls' = [calls EXCEPT ![s][n] = @ + k]
CallNode ==
  /\ exec.pc = "call"
  /\ \/ /\ Called(exec.cmd, exec.index, 1)
        /\ exec' = [exec EXCEPT !.pc = "succeed"]
     \/ /\ "node" \in Faults
        /\ \E k \in {0, 1} : Called(exec.cmd, exec.index, k)
        /\ exec' = [exec EXCEPT !.pc = "fail"]
  /\ UNCHANGED <<commands, results, nodes, starting, dhcp, abandoned>>

\* The observation that follows a destructive command changes no command row.
RecordResult ==
  /\ exec.pc \in {"succeed", "fail"}
  /\ LET result == IF exec.pc = "succeed" THEN "succeeded" ELSE "failed"
     IN  /\ SetResult(exec.cmd, exec.index, result)
         /\ exec' = At("loop", exec.cmd, exec.index + 1, exec.seen \cup {result})
  /\ UNCHANGED <<commands, nodes, starting, dhcp, calls, abandoned>>

\* Mutant: one success makes the command a success.
OutcomeOptimistic(seen) == IF "succeeded" \in seen THEN "succeeded" ELSE "failed"
\* The status from the counters of the loop.
Outcome(seen) ==
  IF "failed" \notin seen THEN "succeeded"
  ELSE IF "succeeded" \in seen THEN "partial_success" ELSE "failed"

\* UPDATE ... WHERE id = $1 AND status = 'running'
FinishOperationalCommand ==
  /\ exec.pc = "loop" /\ exec.index \notin Node
  /\ commands[exec.cmd].status = "running"
  /\ SetStatus(exec.cmd, Outcome(exec.seen))
  /\ exec' = Idle
  /\ UNCHANGED <<results, nodes, starting, dhcp, calls, abandoned>>

\* Results that have not ended are failed one by one, then the command.
Unended(s, n) == results[s][n] \in {"pending", "running"}
FailResults(pc, status, next) ==
  /\ exec.pc = pc
  /\ IF exec.index \in Node
       THEN /\ IF Unended(exec.cmd, exec.index)
                 THEN SetResult(exec.cmd, exec.index, "failed") ELSE UNCHANGED results
            /\ exec' = [exec EXCEPT !.index = @ + 1]
            /\ UNCHANGED commands
       ELSE SetStatus(exec.cmd, status) /\ exec' = next /\ UNCHANGED results
  /\ UNCHANGED <<nodes, starting, dhcp, calls, abandoned>>
FailAll == FailResults("failAll", "failed", Idle)

\* Any repository call of RunOnce may fail; the rows stay as they are.
RepositoryFails ==
  /\ "repository" \in Faults
  /\ exec.pc \in WorkerStep \ {"call"}
  /\ exec' = Idle
  /\ abandoned' = abandoned \cup {exec.cmd}
  /\ UNCHANGED <<commands, results, nodes, starting, dhcp, calls>>

-----------------------------------------------------------------------------
\* DHCP resets (Service.RunDHCPOperation, failDHCPOperation): one node, inside
\* the API request

\* The node record is read here and its mode used after the insert.
StartDHCPOperation(s, input) ==
  /\ Serving
  /\ Cardinality(starting) < MaxStarting
  /\ LET targets == {n \in {DhcpNode[input]} : nodes[n] = "maintenance"}
     IN  starting' = starting \cup {[slot |-> s, input |-> input, targets |-> targets]}
  /\ UNCHANGED <<commands, results, nodes, exec, dhcp, calls, abandoned>>

\* The same insert; a repeat answers from the stored row.
BeginDHCPOperation(q) ==
  /\ q \in starting /\ q.input \in DhcpInput
  /\ starting' = starting \ {q}
  /\ IF commands[q.slot].status = "none"
       THEN /\ commands' = [commands EXCEPT ![q.slot] =
                 [status |-> "running", input |-> q.input]]
            /\ SetResult(q.slot, DhcpNode[q.input], "running")
            /\ dhcp' = [dhcp EXCEPT ![q.slot] = IF q.targets = {} THEN "fail" ELSE "check"]
       ELSE UNCHANGED <<commands, results, dhcp>>
  /\ UNCHANGED <<nodes, exec, calls, abandoned>>

\* Active deployment, Enforce policy or unreadable credentials refuse it.
CheckDHCPOperation(s) ==
  /\ dhcp[s] = "check"
  /\ dhcp' \in {[dhcp EXCEPT ![s] = "call"], [dhcp EXCEPT ![s] = "fail"]}
  /\ UNCHANGED <<commands, results, nodes, starting, exec, calls, abandoned>>

ResetDHCP(s) ==
  LET n == DhcpNode[commands[s].input]
  IN  /\ dhcp[s] = "call"
      /\ \/ Called(s, n, 1) /\ dhcp' = [dhcp EXCEPT ![s] = "succeed"]
         \/ /\ "node" \in Faults
            /\ \E k \in {0, 1} : Called(s, n, k)
            /\ dhcp' = [dhcp EXCEPT ![s] = "fail"]
      /\ UNCHANGED <<commands, results, nodes, starting, exec, abandoned>>

\* One transaction for the command and its result; if it fails the request
\* ends and the rows stay 'running'.
FinishDHCPOperation(s) ==
  LET status == IF dhcp[s] = "succeed" THEN "succeeded" ELSE "failed"
  IN  /\ dhcp[s] \in {"succeed", "fail"}
      /\ \/ /\ SetStatus(s, status)
            /\ SetResult(s, DhcpNode[commands[s].input], status)
         \/ "repository" \in Faults /\ UNCHANGED <<commands, results>>
      /\ dhcp' = [dhcp EXCEPT ![s] = "none"]
      /\ UNCHANGED <<nodes, starting, exec, calls, abandoned>>

-----------------------------------------------------------------------------
\* Restart and recovery (CommandExecutor.RecoverInterrupted)

Restart ==
  /\ "restart" \in Faults
  /\ starting' = {}
  /\ exec' = Recovering
  /\ dhcp' = [s \in Slot |-> "none"]
  /\ abandoned' = {}
  /\ UNCHANGED <<commands, results, nodes, calls>>

\* Mutant: recovery finds nothing to do.
RecoverNothing ==
  /\ exec.pc = "recoverNext"
  /\ exec' = Idle
  /\ UNCHANGED <<commands, results, nodes, starting, dhcp, calls, abandoned>>
\* RunningOperationalCommands lists the five fleet command types only.
RecoverNext ==
  LET running == {s \in Slot : commands[s].status = "running" /\ Fleet(s)}
  IN  /\ exec.pc = "recoverNext"
      /\ \/ running = {} /\ exec' = Idle
         \/ \E s \in running : exec' = At("recover", s, 1, {})
      /\ UNCHANGED <<commands, results, nodes, starting, dhcp, calls, abandoned>>

\* Mutant: interrupted work is queued again.
RecoverByRequeue ==
  /\ exec.pc = "recover"
  /\ SetStatus(exec.cmd, "queued")
  /\ results' = [results EXCEPT ![exec.cmd] =
       [n \in Node |-> IF Unended(exec.cmd, n) THEN "pending" ELSE @[n]]]
  /\ exec' = Recovering
  /\ UNCHANGED <<nodes, starting, dhcp, calls, abandoned>>
RecoverInterrupted == FailResults("recover", "interrupted", Recovering)

\* Node management and health polling change what later selections see.
ManageNode(n) ==
  /\ "manage" \in Faults
  /\ \E mode \in NodeMode : nodes' = [nodes EXCEPT ![n] = mode]
  /\ UNCHANGED <<commands, results, starting, exec, dhcp, calls, abandoned>>

-----------------------------------------------------------------------------
Worker ==
  \/ ClaimOperationalCommand \/ LoadCommand \/ BeginResult \/ CallNode \/ RecordResult
  \/ FinishOperationalCommand \/ FailAll \/ RecoverNext \/ RecoverInterrupted

DhcpRequest(s) == CheckDHCPOperation(s) \/ ResetDHCP(s) \/ FinishDHCPOperation(s)

Next ==
  \/ \E s \in Slot :
       \/ \E input \in FleetInput : StartCommand(s, input)
       \/ \E input \in DhcpInput : StartDHCPOperation(s, input)
       \/ DhcpRequest(s)
  \/ \E q \in starting : CreateOperationalCommand(q) \/ BeginDHCPOperation(q)
  \/ Worker \/ RepositoryFails \/ Restart
  \/ \E n \in Node : ManageNode(n)

\* The goroutine of main and the worker never stop; a request runs to its end.
Fairness == WF_vars(Worker) /\ \A s \in Slot : WF_vars(DhcpRequest(s))

Spec == Init /\ [][Next]_vars /\ Fairness

-----------------------------------------------------------------------------
\* Properties

\* However often a key is repeated, whatever fails and whenever the controller
\* restarts, a command calls a node at most once; a result that is pending
\* means the node was not called and one that succeeded that it was
\* (controller-api.md: no second node call, no automatic replay).
CalledAtMostOnce ==
  \A s \in Slot, n \in Node :
    /\ calls[s][n] <= 1
    /\ results[s][n] \in {"none", "pending"} => calls[s][n] = 0
    /\ results[s][n] = "succeeded" => calls[s][n] = 1

\* A command that has ended agrees with its node results, which have all ended.
Some(s, result) == \E n \in Node : results[s][n] = result
OutcomeMatchesResults ==
  \A s \in Slot : commands[s].status \in Ended =>
    /\ \A n \in Node : results[s][n] \in {"none", "succeeded", "failed"}
    /\ commands[s].status \in {"succeeded", "partial_success"} => Some(s, "succeeded")
    /\ commands[s].status \in {"failed", "partial_success"} => Some(s, "failed")
    /\ commands[s].status = "succeeded" => ~Some(s, "failed")
    /\ commands[s].status = "failed" => ~Some(s, "succeeded")

\* UpdateOperationalCommandNode has no status guard; still no worker, recovery
\* or request writes to a command that has ended.
HistoryStep ==
  \A s \in Slot : commands[s].status \in Ended =>
    commands'[s] = commands[s] /\ results'[s] = results[s]
EndedIsFinal == [][HistoryStep]_vars

\* Once the controller stops being restarted, every stored fleet command ends,
\* those included that the worker gave up on an error of the database before the
\* last restart; one given up since waits for the next (RunOnce,
\* RecoverInterrupted).
FleetCommandEnds ==
  <>[][~Restart]_vars =>
    \A s \in Slot :
      commands[s].status \in {"queued", "running"} /\ Fleet(s)
        ~> commands[s].status \in Ended \/ s \in abandoned

=============================================================================
