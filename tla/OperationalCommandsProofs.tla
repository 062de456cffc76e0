----------------------- MODULE OperationalCommandsProofs ----------------------
(***************************************************************************)
(* A command calls a node at most once, ends with a status that its        *)
(* results bear out, and is never written again: for any number of         *)
(* commands, nodes, requests and inputs.                                   *)
(***************************************************************************)
EXTENDS OperationalCommands, TLAPS

\* Zenon proves the steps that name no other prover.
USE ZenonT(30)

-----------------------------------------------------------------------------
\* The inductive invariant

\* A stored command has results; one not yet claimed has only pending ones.
RowInv(s) ==
  /\ commands[s].status = "none" => \A n \in Node : results[s][n] = "none"
  /\ commands[s].status # "none" => \E n \in Node : results[s][n] # "none"
  /\ commands[s].status = "queued" =>
       Fleet(s) /\ \A n \in Node : results[s][n] \in {"none", "pending"}

\* The worker has passed the nodes below its index and not touched those above.
Passed(n) == results[exec.cmd][n] \in {"none", "succeeded", "failed"}
Untouched(n) == results[exec.cmd][n] \in {"none", "pending"}
WorkerInv ==
  /\ exec.pc \in WorkerStep \cup {"recover"} =>
       /\ exec.cmd \in Slot /\ commands[exec.cmd].status = "running" /\ Fleet(exec.cmd)
       /\ exec.index \in 1 .. NodeCount + 1
       /\ \A n \in Node : n < exec.index => Passed(n)
  /\ exec.pc \in WorkerStep => \A n \in Node : n > exec.index => Untouched(n)
  /\ exec.pc \in {"load", "loop", "failAll"} => \A n \in Node : n = exec.index => Untouched(n)
  /\ exec.pc \in {"call", "succeed", "fail"} =>
       exec.index \in Node /\ results[exec.cmd][exec.index] = "running"
  /\ exec.pc = "call" => calls[exec.cmd][exec.index] = 0
  /\ exec.pc = "succeed" => calls[exec.cmd][exec.index] = 1
  /\ exec.pc = "load" => exec.index = 1 /\ exec.seen = {}
  /\ exec.pc = "failAll" => \A n \in Node : results[exec.cmd][n] # "succeeded"
  /\ exec.pc \in WorkerStep \ {"failAll"} => \A r \in {"succeeded", "failed"} :
       r \in exec.seen <=> \E n \in Node : n < exec.index /\ results[exec.cmd][n] = r

\* A request that executes a DHCP reset owns its command and its one result.
DhcpInv(s) ==
  dhcp[s] # "none" =>
    /\ commands[s].status = "running" /\ commands[s].input \in DhcpInput
    /\ results[s][DhcpNode[commands[s].input]] = "running"
    /\ \A n \in Node \ {DhcpNode[commands[s].input]} : results[s][n] = "none"
    /\ dhcp[s] \in {"check", "call"} => calls[s][DhcpNode[commands[s].input]] = 0
    /\ dhcp[s] = "succeed" => calls[s][DhcpNode[commands[s].input]] = 1

\* What the worker, the requests and recovery rely on between two calls.
CommandsInv ==
  /\ TypeOK
  /\ CalledAtMostOnce
  /\ OutcomeMatchesResults
  /\ \A q \in starting : q.input \in FleetInput => q.targets # {}
  /\ \A s \in Slot : RowInv(s) /\ DhcpInv(s)
  /\ WorkerInv

-----------------------------------------------------------------------------
\* Facts used below

(* A position is a node, or lies past the last one. *)
LEMMA NodeFacts ==
  ASSUME NEW i \in 1 .. NodeCount + 1
  PROVE  /\ i \notin Node => i = NodeCount + 1
         /\ i \in Node => i + 1 \in 1 .. NodeCount + 1
         /\ 1 \in 1 .. NodeCount + 1
         /\ \A n \in Node : n \in Nat /\ n < NodeCount + 1 /\ n >= 1
         /\ \A n \in Node : n < i + 1 <=> n < i \/ n = i
         /\ \A n \in Node : n > i + 1 => n > i
         /\ \A n \in Node : n < i \/ n = i \/ n > i
BY NodeCountNat, SMTT(30) DEF Node

(* Where the worker stands, field by field. *)
LEMMA WorkerFacts ==
  ASSUME TypeOK
  PROVE  /\ exec.pc \in WorkerStep \cup RecoveryStep \cup {"idle"}
         /\ exec.cmd \in Slot \cup {None}
         /\ exec.index \in Nat
         /\ exec.seen \in SUBSET {"succeeded", "failed"}
         /\ \A pc, s, i, seen : /\ At(pc, s, i, seen).pc = pc
                                /\ At(pc, s, i, seen).cmd = s
                                /\ At(pc, s, i, seen).index = i
                                /\ At(pc, s, i, seen).seen = seen
BY DEF TypeOK, WorkerState, At

(* Steps that write to no table keep what is said of the tables. *)
LEMMA TablesKept ==
  ASSUME CommandsInv, UNCHANGED <<commands, results, calls>>
  PROVE  /\ CalledAtMostOnce'
         /\ OutcomeMatchesResults'
         /\ \A s \in Slot : RowInv(s)'
BY SMTT(30) DEF CommandsInv, CalledAtMostOnce, OutcomeMatchesResults, Some, RowInv, Fleet

(* Steps that also leave the requests alone keep what is said of them. *)
LEMMA DhcpKept ==
  ASSUME CommandsInv, UNCHANGED <<commands, results, calls, dhcp>>
  PROVE  \A s \in Slot : DhcpInv(s)'
BY DEF CommandsInv, DhcpInv

(* ... and steps that leave the worker alone what is said of it. *)
LEMMA WorkerKept ==
  ASSUME CommandsInv, UNCHANGED <<commands, results, calls, exec>>
  PROVE  WorkerInv'
BY DEF CommandsInv, WorkerInv, Passed, Untouched, Fleet

-----------------------------------------------------------------------------
\* Steps that write to no table

(* Selecting the nodes of a command, or reading the node of a DHCP reset. *)
LEMMA SelectionInv ==
  ASSUME CommandsInv, NEW s \in Slot,
         \/ \E input \in FleetInput : StartCommand(s, input)
         \/ \E input \in DhcpInput : StartDHCPOperation(s, input)
  PROVE  CommandsInv'
<1>1. UNCHANGED <<commands, results, nodes, exec, dhcp, calls, abandoned>>
  BY DEF StartCommand, StartDHCPOperation
<1>2. /\ starting' \in SUBSET StartRequest
      /\ \A q \in starting' : q.input \in FleetInput => q.targets # {}
  <2>1. CASE \E input \in FleetInput : StartCommand(s, input)
    BY <2>1, InputFacts, SMTT(30) DEF CommandsInv, TypeOK, StartCommand, StartRequest
  <2>2. CASE \E input \in DhcpInput : StartDHCPOperation(s, input)
    BY <2>2, InputFacts, SMTT(30) DEF CommandsInv, TypeOK, StartDHCPOperation, StartRequest
  <2> QED
    BY <2>1, <2>2
<1>3. TypeOK'
  BY <1>1, <1>2 DEF CommandsInv, TypeOK
<1> QED
  BY <1>1, <1>2, <1>3, TablesKept, DhcpKept, WorkerKept DEF CommandsInv

(* A node changes its mode. *)
LEMMA ManageInv ==
  ASSUME CommandsInv, NEW n \in Node, ManageNode(n)
  PROVE  CommandsInv'
<1>1. UNCHANGED <<commands, results, starting, exec, dhcp, calls, abandoned>>
  BY DEF ManageNode
<1>2. TypeOK'
  BY <1>1 DEF CommandsInv, TypeOK, ManageNode
<1> QED
  BY <1>1, <1>2, TablesKept, DhcpKept, WorkerKept DEF CommandsInv

(* The worker gives a command up on an error of the database. *)
LEMMA RepositoryInv ==
  ASSUME CommandsInv, RepositoryFails
  PROVE  CommandsInv'
<1>1. UNCHANGED <<commands, results, nodes, starting, dhcp, calls>> /\ exec' = Idle
  BY DEF RepositoryFails
<1>2. TypeOK'
  BY <1>1, SMTT(30) DEF CommandsInv, TypeOK, WorkerInv, RepositoryFails, Idle, At, WorkerState
<1>3. WorkerInv'
  BY <1>1 DEF WorkerInv, Idle, At, WorkerStep
<1> QED
  BY <1>1, <1>2, <1>3, TablesKept, DhcpKept DEF CommandsInv

(* A restart loses the requests and the worker, not the rows. *)
LEMMA RestartInv ==
  ASSUME CommandsInv, Restart
  PROVE  CommandsInv'
<1>1. /\ UNCHANGED <<commands, results, nodes, calls>>
      /\ exec' = Recovering /\ starting' = {} /\ dhcp' = [s \in Slot |-> "none"] /\ abandoned' = {}
  BY DEF Restart
<1>2. TypeOK'
  BY <1>1 DEF CommandsInv, TypeOK, Recovering, At, WorkerState, RecoveryStep, DhcpStep
<1>3. WorkerInv'
  BY <1>1 DEF WorkerInv, Recovering, At, WorkerStep
<1>4. \A s \in Slot : DhcpInv(s)'
  BY <1>1 DEF DhcpInv
<1> QED
  BY <1>1, <1>2, <1>3, <1>4, TablesKept DEF CommandsInv

(* Loading a command, or choosing the next one to recover. *)
LEMMA LoadInv ==
  ASSUME CommandsInv, LoadCommand \/ RecoverNext
  PROVE  CommandsInv'
<1>1. UNCHANGED <<commands, results, nodes, starting, dhcp, calls, abandoned>>
  BY DEF LoadCommand, RecoverNext
<1>2. TypeOK' /\ WorkerInv'
  <2>1. CASE LoadCommand
    <3>1. exec \in WorkerState /\ exec.pc = "load"
      BY <2>1 DEF LoadCommand, CommandsInv, TypeOK
    <3>2. PICK pc \in {"loop", "failAll"} : exec' = At(pc, exec.cmd, exec.index, exec.seen)
      BY <2>1, <3>1 DEF LoadCommand, At, WorkerState
    <3>3. TypeOK'
      BY <1>1, <3>1, <3>2 DEF CommandsInv, TypeOK, WorkerState, WorkerStep, At
    <3>4. /\ exec'.pc = pc /\ exec'.cmd = exec.cmd /\ exec'.index = exec.index
          /\ exec'.seen = exec.seen
      BY <3>2 DEF At
    <3>5. /\ exec.cmd \in Slot /\ commands[exec.cmd].status = "running" /\ Fleet(exec.cmd)
          /\ exec.index = 1 /\ exec.seen = {}
          /\ exec.index \in 1 .. NodeCount + 1
          /\ \A n \in Node : n < exec.index => Passed(n)
          /\ \A n \in Node : n > exec.index \/ n = exec.index => Untouched(n)
      BY <3>1 DEF CommandsInv, WorkerInv, WorkerStep
    <3>6. \A n \in Node : ~(n < 1) /\ Untouched(n)
      BY <3>5, SMTT(30) DEF Node
    <3>7. WorkerInv'
      BY <1>1, <3>4, <3>5, <3>6 DEF WorkerInv, WorkerStep, Passed, Untouched, Fleet
    <3> QED
      BY <3>3, <3>7
  <2>2. CASE RecoverNext
    <3>1. CASE exec' = Idle
      BY <1>1, <3>1 DEF CommandsInv, TypeOK, WorkerInv, Idle, At, WorkerState, WorkerStep
    <3>2. CASE \E s \in Slot : commands[s].status = "running" /\ Fleet(s) /\ exec' = At("recover", s, 1, {})
      <4> PICK s \in Slot : commands[s].status = "running" /\ Fleet(s) /\ exec' = At("recover", s, 1, {})
        BY <3>2
      <4>1. TypeOK'
        BY <1>1 DEF CommandsInv, TypeOK, At, WorkerState, RecoveryStep
      <4>2. exec'.pc = "recover" /\ exec'.cmd = s /\ exec'.index = 1
        BY DEF At
      <4>3. 1 \in 1 .. NodeCount + 1 /\ \A n \in Node : ~(n < 1)
        BY NodeCountNat, SMTT(30) DEF Node
      <4> QED
        BY <1>1, <4>1, <4>2, <4>3 DEF WorkerInv, WorkerStep, Fleet
    <3> QED
      BY <2>2, <3>1, <3>2 DEF RecoverNext
  <2> QED
    BY <2>1, <2>2
<1> QED
  BY <1>1, <1>2, TablesKept, DhcpKept DEF CommandsInv

(* The checks before a DHCP reset. *)
LEMMA CheckInv ==
  ASSUME CommandsInv, NEW s \in Slot, CheckDHCPOperation(s)
  PROVE  CommandsInv'
<1>1. UNCHANGED <<commands, results, nodes, starting, exec, calls, abandoned>>
  BY DEF CheckDHCPOperation
<1>2. PICK step \in {"call", "fail"} : dhcp' = [dhcp EXCEPT ![s] = step]
  BY DEF CheckDHCPOperation
<1>3. TypeOK'
  BY <1>1, <1>2 DEF CommandsInv, TypeOK, DhcpStep
<1>4. \A t \in Slot : DhcpInv(t)'
  <2> TAKE t \in Slot
  <2>1. dhcp'[t] = IF t = s THEN step ELSE dhcp[t]
    BY <1>2 DEF CommandsInv, TypeOK
  <2>2. dhcp[s] = "check" /\ DhcpInv(s) /\ DhcpInv(t)
    BY DEF CheckDHCPOperation, CommandsInv
  <2> QED
    BY <1>1, <2>1, <2>2 DEF DhcpInv
<1> QED
  BY <1>1, <1>3, <1>4, TablesKept, WorkerKept DEF CommandsInv

-----------------------------------------------------------------------------
\* Steps that write to one command

\* What CalledAtMostOnce says of one command.
CallsAgree(s) ==
  \A n \in Node :
    /\ calls[s][n] <= 1
    /\ results[s][n] \in {"none", "pending"} => calls[s][n] = 0
    /\ results[s][n] = "succeeded" => calls[s][n] = 1

\* The invariant of one command, as the properties and the rows state it.
SlotInv(s) ==
  /\ CallsAgree(s)
  /\ commands[s].status \in Ended =>
       /\ \A n \in Node : results[s][n] \in {"none", "succeeded", "failed"}
       /\ commands[s].status \in {"succeeded", "partial_success"} => Some(s, "succeeded")
       /\ commands[s].status \in {"failed", "partial_success"} => Some(s, "failed")
       /\ commands[s].status = "succeeded" => ~Some(s, "failed")
       /\ commands[s].status = "failed" => ~Some(s, "succeeded")
  /\ RowInv(s)
  /\ DhcpInv(s)

\* Every command but s keeps its rows, its history and its request.
OnlyWrites(s) ==
  \A t \in Slot \ {s} :
    commands'[t] = commands[t] /\ results'[t] = results[t] /\ calls'[t] = calls[t] /\ dhcp'[t] = dhcp[t]

(* The invariant of the tables is that of every command. *)
LEMMA SlotForm ==
  CommandsInv <=>
    /\ TypeOK /\ WorkerInv
    /\ \A q \in starting : q.input \in FleetInput => q.targets # {}
    /\ \A s \in Slot : SlotInv(s)
BY DEF CommandsInv, CalledAtMostOnce, OutcomeMatchesResults, SlotInv, CallsAgree

(* What it says of one command, taken apart. *)
LEMMA SlotFacts ==
  ASSUME CommandsInv, NEW s \in Slot
  PROVE  CallsAgree(s) /\ RowInv(s) /\ DhcpInv(s)
BY SlotForm DEF SlotInv

(* A step that writes to one command has to keep the invariant of that one. *)
LEMMA SlotStep ==
  ASSUME CommandsInv, NEW s \in Slot, OnlyWrites(s), SlotInv(s)',
         TypeOK', WorkerInv', starting' \subseteq starting
  PROVE  CommandsInv'
<1>1. \A t \in Slot \ {s} : SlotInv(t)'
  BY SlotForm, SMTT(30) DEF OnlyWrites, SlotInv, CallsAgree, Some, RowInv, DhcpInv, Fleet
<1>2. \A t \in Slot : SlotInv(t)'
  BY <1>1
<1>3. CalledAtMostOnce' /\ OutcomeMatchesResults'
  BY <1>2 DEF CalledAtMostOnce, OutcomeMatchesResults, SlotInv, CallsAgree
<1>4. \A t \in Slot : RowInv(t)' /\ DhcpInv(t)'
  BY <1>2 DEF SlotInv
<1>5. (\A q \in starting : q.input \in FleetInput => q.targets # {})'
  BY DEF CommandsInv
<1> QED
  BY <1>3, <1>4, <1>5 DEF CommandsInv

(* The worker and a request never hold the same command. *)
LEMMA WorkerHoldsFleet ==
  ASSUME CommandsInv, NEW s \in Slot, Fleet(s)
  PROVE  dhcp[s] = "none"
BY InputFacts DEF CommandsInv, DhcpInv, Fleet

(* A step that writes to a command the worker does not hold. *)
LEMMA WorkerElsewhere ==
  ASSUME CommandsInv, NEW s \in Slot, OnlyWrites(s), UNCHANGED exec,
         ~(commands[s].status = "running" /\ Fleet(s))
  PROVE  WorkerInv'
<1>1. exec.pc \in WorkerStep \cup {"recover"} => exec.cmd \in Slot /\ exec.cmd # s
  BY DEF CommandsInv, WorkerInv
<1>2. exec.pc \in WorkerStep \cup {"recover"} =>
        /\ commands'[exec.cmd] = commands[exec.cmd] /\ results'[exec.cmd] = results[exec.cmd]
        /\ calls'[exec.cmd] = calls[exec.cmd]
  BY <1>1 DEF OnlyWrites
<1> QED
  BY <1>2, SMTT(30) DEF CommandsInv, WorkerInv, Passed, Untouched, Fleet, WorkerStep

(* Writing a status keeps the rest of the table. *)
LEMMA StatusWritten ==
  ASSUME TypeOK, NEW s \in Slot, NEW status \in Status, SetStatus(s, status)
  PROVE  /\ commands' \in [Slot -> CommandRow]
         /\ commands'[s].status = status /\ commands'[s].input = commands[s].input
         /\ \A t \in Slot \ {s} : commands'[t] = commands[t]
<1>1. commands \in [Slot -> CommandRow] /\ commands[s] \in CommandRow
  BY DEF TypeOK
<1>2. commands' = [commands EXCEPT ![s] = [commands[s] EXCEPT !.status = status]]
  BY DEF SetStatus
<1>3. [commands[s] EXCEPT !.status = status] = [status |-> status, input |-> commands[s].input]
  BY <1>1, SMTT(30) DEF CommandRow
<1>4. [status |-> status, input |-> commands[s].input] \in CommandRow
  BY <1>1 DEF CommandRow
<1> QED
  BY <1>1, <1>2, <1>3, <1>4

(* Writing a result keeps the rest of the table. *)
LEMMA ResultWritten ==
  ASSUME TypeOK, NEW s \in Slot, NEW n \in Node, NEW result \in Result, SetResult(s, n, result)
  PROVE  /\ results' \in [Slot -> [Node -> Result]]
         /\ results'[s][n] = result
         /\ \A k \in Node \ {n} : results'[s][k] = results[s][k]
         /\ \A t \in Slot \ {s} : results'[t] = results[t]
BY DEF TypeOK, SetResult

(* A repeat of a key stores nothing; a new one stores pending results. *)
LEMMA CreateInv ==
  ASSUME CommandsInv, NEW q \in starting, CreateOperationalCommand(q)
  PROVE  CommandsInv'
<1>1. /\ UNCHANGED <<nodes, exec, dhcp, calls, abandoned>> /\ starting' \subseteq starting
      /\ q \in StartRequest /\ q.slot \in Slot /\ q.targets \subseteq Node /\ q.input \in FleetInput
      /\ q.targets # {}
  BY DEF CreateOperationalCommand, CommandsInv, TypeOK, StartRequest
<1>2. CASE UNCHANGED <<commands, results>>
  <2>1. TypeOK'
    BY <1>1, <1>2 DEF CommandsInv, TypeOK
  <2> QED
    BY <1>1, <1>2, <2>1, TablesKept, DhcpKept, WorkerKept DEF CommandsInv
<1>3. CASE commands[q.slot].status = "none"
  <2> DEFINE s == q.slot
             row == [status |-> "queued", input |-> q.input]
             pending == [n \in Node |-> IF n \in q.targets THEN "pending" ELSE "none"]
  <2>1. /\ commands' = [commands EXCEPT ![s] = row] /\ results' = [results EXCEPT ![s] = pending]
        /\ row \in CommandRow /\ pending \in [Node -> Result]
    BY <1>1, <1>3 DEF CreateOperationalCommand, CommandRow, Status, Result
  <2>2. TypeOK'
    BY <1>1, <2>1 DEF CommandsInv, TypeOK
  <2>3. /\ commands'[s] = row /\ results'[s] = pending /\ OnlyWrites(s)
    BY <1>1, <2>1 DEF CommandsInv, TypeOK, OnlyWrites
  <2>4. dhcp[s] = "none" /\ \A n \in Node : calls[s][n] = 0
    BY <1>1, <1>3, SMTT(30) DEF CommandsInv, DhcpInv, RowInv, CalledAtMostOnce
  <2>5. SlotInv(s)'
    BY <1>1, <2>3, <2>4, SMTT(30) DEF SlotInv, CallsAgree, RowInv, DhcpInv, Fleet, Ended
  <2>6. WorkerInv'
    BY <1>1, <1>3, <2>3, WorkerElsewhere
  <2> QED
    BY <1>1, <2>2, <2>3, <2>5, <2>6, SlotStep
<1> QED
  BY <1>2, <1>3 DEF CreateOperationalCommand

(* The worker takes a queued command, whose results are all pending. *)
LEMMA ClaimInv ==
  ASSUME CommandsInv, ClaimOperationalCommand
  PROVE  CommandsInv'
<1>1. PICK s \in Slot : /\ commands[s].status = "queued"
                        /\ SetStatus(s, "running")
                        /\ exec' = At("load", s, 1, {})
  BY DEF ClaimOperationalCommand
<1>2. UNCHANGED <<results, nodes, starting, dhcp, calls, abandoned>>
  BY DEF ClaimOperationalCommand
<1>3. /\ commands' \in [Slot -> CommandRow]
      /\ commands'[s].status = "running" /\ commands'[s].input = commands[s].input
      /\ \A t \in Slot \ {s} : commands'[t] = commands[t]
  BY <1>1, StatusWritten DEF CommandsInv, Status
<1>4. TypeOK'
  BY <1>1, <1>2, <1>3 DEF CommandsInv, TypeOK, WorkerState, WorkerStep, At
<1>5. /\ commands'[s].status = "running" /\ commands'[s].input = commands[s].input /\ OnlyWrites(s)
  BY <1>2, <1>3 DEF OnlyWrites
<1>6. Fleet(s) /\ dhcp[s] = "none" /\ \A n \in Node : results[s][n] \in {"none", "pending"}
  BY <1>1, WorkerHoldsFleet DEF CommandsInv, RowInv
<1>7. SlotInv(s)'
  BY <1>1, <1>2, <1>5, <1>6, SlotFacts, SMTT(30) DEF SlotInv, CallsAgree, RowInv, DhcpInv, Ended
<1>8. WorkerInv'
  <2>1. exec'.pc = "load" /\ exec'.cmd = s /\ exec'.index = 1 /\ exec'.seen = {}
    BY <1>1 DEF At
  <2>2. 1 \in 1 .. NodeCount + 1 /\ \A n \in Node : ~(n < 1)
    BY NodeCountNat, SMTT(30) DEF Node
  <2> QED
    BY <1>2, <1>5, <1>6, <2>1, <2>2 DEF WorkerInv, WorkerStep, Passed, Untouched, Fleet
<1> QED
  BY <1>2, <1>4, <1>5, <1>7, <1>8, SlotStep

(* A worker at work holds a running command and stands at a position of it. *)
LEMMA WorkerPosition ==
  ASSUME CommandsInv, exec.pc \in WorkerStep \cup {"recover"}
  PROVE  \E c \in Slot, i \in 1 .. NodeCount + 1 : c = exec.cmd /\ i = exec.index
BY DEF CommandsInv, WorkerInv

(* What a running command of the worker has to keep. *)
LEMMA RunningSlot ==
  ASSUME NEW s \in Slot, commands'[s].status = "running", dhcp'[s] = "none",
         NEW i \in Node, results'[s][i] # "none",
         CallsAgree(s)'
  PROVE  SlotInv(s)'
BY DEF SlotInv, RowInv, DhcpInv, Ended

(* What a command has to fulfil when it ends. *)
LEMMA EndedSlot ==
  ASSUME NEW s \in Slot, commands'[s].status \in Ended, dhcp'[s] = "none",
         \A n \in Node : results'[s][n] \in {"none", "succeeded", "failed"},
         \E n \in Node : results'[s][n] # "none",
         commands'[s].status \in {"succeeded", "partial_success"} => Some(s, "succeeded")',
         commands'[s].status \in {"failed", "partial_success"} => Some(s, "failed")',
         commands'[s].status = "succeeded" => ~Some(s, "failed")',
         commands'[s].status = "failed" => ~Some(s, "succeeded")',
         CallsAgree(s)'
  PROVE  SlotInv(s)'
BY DEF SlotInv, RowInv, DhcpInv, Ended

(* A pending result becomes running; one of a node not selected is passed. *)
LEMMA BeginInv ==
  ASSUME CommandsInv, BeginResult
  PROVE  CommandsInv'
<1> PICK c \in Slot, i \in 1 .. NodeCount + 1 : c = exec.cmd /\ i = exec.index
  BY WorkerPosition DEF BeginResult, WorkerStep
<1>1. /\ UNCHANGED <<commands, nodes, starting, dhcp, calls, abandoned>>
      /\ exec.pc = "loop" /\ i \in Node /\ exec \in WorkerState
  BY DEF BeginResult, CommandsInv, TypeOK
<1>2. /\ c \in Slot /\ commands[c].status = "running" /\ Fleet(c) /\ i \in 1 .. NodeCount + 1
      /\ dhcp[c] = "none" /\ Untouched(i)
      /\ \A n \in Node : n < i => Passed(n)
      /\ \A n \in Node : n > i => Untouched(n)
      /\ \A r \in {"succeeded", "failed"} :
           r \in exec.seen <=> \E n \in Node : n < i /\ results[c][n] = r
      /\ exec.seen \in SUBSET {"succeeded", "failed"}
  BY <1>1, WorkerHoldsFleet, SMTT(30) DEF CommandsInv, WorkerInv, WorkerStep, WorkerState
<1>3. CASE results[c][i] = "pending"
  <2>1. /\ SetResult(c, i, "running") /\ exec' = At("call", c, i, exec.seen)
    BY <1>1, <1>3 DEF BeginResult, At, WorkerState
  <2>2. /\ results' \in [Slot -> [Node -> Result]] /\ results'[c][i] = "running"
        /\ \A k \in Node \ {i} : results'[c][k] = results[c][k]
        /\ \A t \in Slot \ {c} : results'[t] = results[t]
    BY <1>1, <1>2, <2>1, ResultWritten, SMTT(30) DEF CommandsInv, Result
  <2>3. TypeOK'
    BY <1>1, <1>2, <2>1, <2>2 DEF CommandsInv, TypeOK, WorkerState, WorkerStep, At
  <2>4. OnlyWrites(c)
    BY <1>1, <2>2 DEF OnlyWrites
  <2>5. SlotInv(c)'
    BY <1>1, <1>2, <1>3, <2>2, SlotFacts, RunningSlot, SMTT(30) DEF CallsAgree
  <2>6. calls[c][i] = 0
    BY <1>1, <1>2, <1>3 DEF CommandsInv, CalledAtMostOnce
  <2>7. exec'.pc = "call" /\ exec'.cmd = c /\ exec'.index = i /\ exec'.seen = exec.seen
    BY <2>1 DEF At
  <2>8. \A n \in Node : n < i \/ n > i => n # i
    BY <1>1, SMTT(30) DEF Node
  <2>9. WorkerInv'
    BY <1>1, <1>2, <2>2, <2>6, <2>7, <2>8, SMTT(30) DEF WorkerInv, WorkerStep, Passed, Untouched, Fleet
  <2> QED
    BY <1>1, <1>2, <2>3, <2>4, <2>5, <2>9, SlotStep
<1>4. CASE results[c][i] # "pending"
  <2>1. UNCHANGED results /\ exec' = At("loop", c, i + 1, exec.seen)
    BY <1>1, <1>4 DEF BeginResult, At, WorkerState
  <2>2. TypeOK'
    BY <1>1, <1>2, <2>1, SMTT(30) DEF CommandsInv, TypeOK, WorkerState, WorkerStep, At
  <2>3. exec'.pc = "loop" /\ exec'.cmd = c /\ exec'.index = i + 1 /\ exec'.seen = exec.seen
    BY <2>1 DEF At
  <2>4. results[c][i] = "none"
    BY <1>2, <1>4 DEF Untouched
  <2>5. WorkerInv'
    <3>1. i + 1 \in 1 .. NodeCount + 1
      BY <1>1, NodeFacts
    <3>2. \A n \in Node : n < i + 1 => results[c][n] \in {"none", "succeeded", "failed"}
      BY <1>2, <2>4, NodeFacts DEF Passed
    <3>3. \A n \in Node : n > i + 1 \/ n = i + 1 => results[c][n] \in {"none", "pending"}
      <4>1. \A n \in Node : n > i + 1 \/ n = i + 1 => n > i
        BY <1>1, SMTT(30) DEF Node
      <4> QED
        BY <1>2, <4>1 DEF Untouched
    <3>4. \A r \in {"succeeded", "failed"} :
            r \in exec.seen <=> \E n \in Node : n < i + 1 /\ results[c][n] = r
      BY <1>2, <2>4, NodeFacts, SMTT(30)
    <3>5. commands'[c].status = "running" /\ Fleet(c)' /\ UNCHANGED results
      BY <1>1, <1>2, <2>1 DEF Fleet
    <3> QED
      BY <2>3, <3>1, <3>2, <3>3, <3>4, <3>5, SMTT(30) DEF WorkerInv, WorkerStep, Passed, Untouched
  <2> QED
    BY <1>1, <2>1, <2>2, <2>5, TablesKept, DhcpKept DEF CommandsInv
<1> QED
  BY <1>3, <1>4

(* The call of the node. *)
LEMMA CallInv ==
  ASSUME CommandsInv, CallNode
  PROVE  CommandsInv'
<1> PICK c \in Slot, i \in 1 .. NodeCount + 1 : c = exec.cmd /\ i = exec.index
  BY WorkerPosition DEF CallNode, WorkerStep
<1>1. /\ UNCHANGED <<commands, results, nodes, starting, dhcp, abandoned>>
      /\ exec.pc = "call" /\ exec \in WorkerState
  BY DEF CallNode, CommandsInv, TypeOK
<1>2. /\ c \in Slot /\ commands[c].status = "running" /\ Fleet(c) /\ i \in 1 .. NodeCount + 1
      /\ dhcp[c] = "none" /\ i \in Node /\ results[c][i] = "running" /\ calls[c][i] = 0
      /\ \A n \in Node : n < i => Passed(n)
      /\ \A n \in Node : n > i => Untouched(n)
      /\ \A r \in {"succeeded", "failed"} :
           r \in exec.seen <=> \E n \in Node : n < i /\ results[c][n] = r
      /\ exec.seen \in SUBSET {"succeeded", "failed"}
  BY <1>1, WorkerHoldsFleet, SMTT(30) DEF CommandsInv, WorkerInv, WorkerStep, WorkerState
<1>3. PICK pc \in {"succeed", "fail"}, k \in {0, 1} :
        Called(c, i, k) /\ exec' = At(pc, c, i, exec.seen) /\ (pc = "succeed" => k = 1)
  BY <1>1 DEF CallNode, At, WorkerState
<1>4. /\ calls' \in [Slot -> [Node -> Nat]] /\ calls'[c][i] = k
      /\ \A n \in Node \ {i} : calls'[c][n] = calls[c][n]
      /\ \A t \in Slot \ {c} : calls'[t] = calls[t]
  BY <1>2, <1>3, SMTT(30) DEF CommandsInv, TypeOK, Called
<1>5. TypeOK'
  BY <1>1, <1>2, <1>3, <1>4 DEF CommandsInv, TypeOK, WorkerState, WorkerStep, At
<1>6. OnlyWrites(c)
  BY <1>1, <1>4 DEF OnlyWrites
<1>7. SlotInv(c)'
  BY <1>1, <1>2, <1>4, SlotFacts, RunningSlot, SMTT(30) DEF CallsAgree
<1>8. exec'.pc = pc /\ exec'.cmd = c /\ exec'.index = i /\ exec'.seen = exec.seen
  BY <1>3 DEF At
<1>9. WorkerInv'
  <2>1. commands'[c].status = "running" /\ Fleet(c)' /\ UNCHANGED results
    BY <1>1, <1>2 DEF Fleet
  <2>2. pc = "succeed" => calls'[c][i] = 1
    BY <1>3, <1>4
  <2> QED
    BY <1>2, <1>8, <2>1, <2>2, SMTT(30) DEF WorkerInv, WorkerStep, Passed, Untouched
<1> QED
  BY <1>1, <1>2, <1>5, <1>6, <1>7, <1>9, SlotStep

(* The outcome of the call, which the worker also counts. *)
LEMMA RecordInv ==
  ASSUME CommandsInv, RecordResult
  PROVE  CommandsInv'
<1> PICK c \in Slot, i \in 1 .. NodeCount + 1 : c = exec.cmd /\ i = exec.index
  BY WorkerPosition DEF RecordResult, WorkerStep
<1> DEFINE result == IF exec.pc = "succeed" THEN "succeeded" ELSE "failed"
<1>1. /\ UNCHANGED <<commands, nodes, starting, dhcp, calls, abandoned>>
      /\ exec.pc \in {"succeed", "fail"} /\ exec \in WorkerState
      /\ SetResult(c, i, result) /\ exec' = At("loop", c, i + 1, exec.seen \cup {result})
  BY DEF RecordResult, CommandsInv, TypeOK
<1>2. /\ c \in Slot /\ commands[c].status = "running" /\ Fleet(c) /\ i \in 1 .. NodeCount + 1
      /\ dhcp[c] = "none" /\ i \in Node /\ results[c][i] = "running"
      /\ exec.pc = "succeed" => calls[c][i] = 1
      /\ \A n \in Node : n < i => Passed(n)
      /\ \A n \in Node : n > i => Untouched(n)
      /\ \A r \in {"succeeded", "failed"} :
           r \in exec.seen <=> \E n \in Node : n < i /\ results[c][n] = r
      /\ exec.seen \in SUBSET {"succeeded", "failed"}
  BY <1>1, WorkerHoldsFleet, SMTT(30) DEF CommandsInv, WorkerInv, WorkerStep, WorkerState
<1> result \in {"succeeded", "failed"} /\ (result = "succeeded" => exec.pc = "succeed")
  OBVIOUS
<1> HIDE DEF result
<1>3. /\ results' \in [Slot -> [Node -> Result]] /\ results'[c][i] = result
      /\ \A k \in Node \ {i} : results'[c][k] = results[c][k]
      /\ \A t \in Slot \ {c} : results'[t] = results[t]
  BY <1>1, <1>2, ResultWritten, SMTT(30) DEF CommandsInv, Result
<1>4. TypeOK'
  <2>1. exec' \in WorkerState
    BY <1>1, <1>2, SMTT(30) DEF WorkerState, WorkerStep, At
  <2> QED
    BY <1>1, <1>3, <2>1 DEF CommandsInv, TypeOK
<1>5. OnlyWrites(c)
  BY <1>1, <1>3 DEF OnlyWrites
<1>6. SlotInv(c)'
  <2>1. CallsAgree(c)'
    <3>1. CallsAgree(c) /\ UNCHANGED calls
      BY <1>1, SlotFacts
    <3>2. calls[c][i] <= 1 /\ (result = "succeeded" => calls[c][i] = 1) /\ results'[c][i] = result
      BY <1>2, <1>3, <3>1 DEF CallsAgree
    <3>3. \A k \in Node \ {i} : results'[c][k] = results[c][k]
      BY <1>3
    <3> QED
      BY <3>1, <3>2, <3>3 DEF CallsAgree
  <2>2. commands'[c].status = "running" /\ dhcp'[c] = "none" /\ results'[c][i] # "none"
    BY <1>1, <1>2, <1>3
  <2> QED
    BY <1>2, <2>1, <2>2, RunningSlot
<1>7. /\ exec'.pc = "loop" /\ exec'.cmd = c /\ exec'.index = i + 1
      /\ exec'.seen = exec.seen \cup {result}
  BY <1>1 DEF At
<1>8. \A r \in {"succeeded", "failed"} :
        r \in exec.seen \cup {result} <=> \E n \in Node : n < i + 1 /\ results'[c][n] = r
  <2>1. \A n \in Node : n < i => n # i
    BY <1>2, SMTT(30) DEF Node
  <2> QED
    BY <1>2, <1>3, <2>1, NodeFacts, SMTT(30)
<1>9. WorkerInv'
  <2>1. \A n \in Node : n < i + 1 => results'[c][n] \in {"none", "succeeded", "failed"}
    BY <1>2, <1>3, NodeFacts, SMTT(30) DEF Passed
  <2>2. \A n \in Node : n > i + 1 \/ n = i + 1 => results'[c][n] \in {"none", "pending"}
    <3>1. \A n \in Node : n > i + 1 \/ n = i + 1 => n > i /\ n # i
      BY <1>2, SMTT(30) DEF Node
    <3> QED
      BY <1>2, <1>3, <3>1 DEF Untouched
  <2>3. i + 1 \in 1 .. NodeCount + 1
    BY <1>2, NodeFacts
  <2>4. commands'[c].status = "running" /\ Fleet(c)'
    BY <1>1, <1>2 DEF Fleet
  <2> QED
    BY <1>7, <1>8, <2>1, <2>2, <2>3, <2>4, SMTT(30) DEF WorkerInv, WorkerStep, Passed, Untouched
<1> QED
  BY <1>1, <1>2, <1>4, <1>5, <1>6, <1>9, SlotStep

-----------------------------------------------------------------------------
\* The end of a fleet command

(* The end of the loop: the counters agree with the results. *)
LEMMA FinishInv ==
  ASSUME CommandsInv, FinishOperationalCommand
  PROVE  CommandsInv'
<1> PICK c \in Slot, i \in 1 .. NodeCount + 1 : c = exec.cmd /\ i = exec.index
  BY WorkerPosition DEF FinishOperationalCommand, WorkerStep
<1> DEFINE status == Outcome(exec.seen)
<1>1. /\ UNCHANGED <<results, nodes, starting, dhcp, calls, abandoned>>
      /\ exec.pc = "loop" /\ i \notin Node /\ SetStatus(c, status) /\ exec' = Idle
  BY DEF FinishOperationalCommand
<1>2. /\ commands[c].status = "running" /\ dhcp[c] = "none"
      /\ \A n \in Node : results[c][n] \in {"none", "succeeded", "failed"}
      /\ \A r \in {"succeeded", "failed"} : r \in exec.seen <=> Some(c, r)
  BY <1>1, WorkerHoldsFleet, NodeFacts, SMTT(30) DEF CommandsInv, WorkerInv, WorkerStep, Passed, Some
<1>3. Some(c, "succeeded") \/ Some(c, "failed")
  BY <1>2, SMTT(30) DEF CommandsInv, RowInv, Some
<1>4. /\ status \in Ended
      /\ status \in {"succeeded", "partial_success"} => Some(c, "succeeded")
      /\ status \in {"failed", "partial_success"} => Some(c, "failed")
      /\ status = "succeeded" => ~Some(c, "failed")
      /\ status = "failed" => ~Some(c, "succeeded")
  BY <1>2, <1>3 DEF Outcome, Ended
<1> status \in Status
  BY <1>4 DEF Status
<1> HIDE DEF status
<1>5. /\ commands' \in [Slot -> CommandRow]
      /\ commands'[c].status = status /\ commands'[c].input = commands[c].input
      /\ \A t \in Slot \ {c} : commands'[t] = commands[t]
  BY <1>1, StatusWritten DEF CommandsInv
<1>6. TypeOK'
  BY <1>1, <1>5 DEF CommandsInv, TypeOK, Idle, At, WorkerState
<1>7. OnlyWrites(c)
  BY <1>1, <1>5 DEF OnlyWrites
<1>8. SlotInv(c)'
  <2>1. CallsAgree(c)'
    BY <1>1, SlotFacts DEF CallsAgree
  <2>2. \A r : Some(c, r)' <=> Some(c, r)
    BY <1>1 DEF Some
  <2>3. /\ dhcp'[c] = "none" /\ \E n \in Node : results'[c][n] # "none"
        /\ \A n \in Node : results'[c][n] \in {"none", "succeeded", "failed"}
    BY <1>1, <1>2, <1>3 DEF Some
  <2> QED
    BY <1>4, <1>5, <2>1, <2>2, <2>3, EndedSlot
<1>9. WorkerInv'
  BY <1>1 DEF WorkerInv, Idle, At, WorkerStep
<1> QED
  BY <1>1, <1>6, <1>7, <1>8, <1>9, SlotStep

(* Failing the results that have not ended, for a payload that cannot be     *)
(* read and for a command interrupted by a restart.                          *)
LEMMA FailResultsInv ==
  ASSUME CommandsInv, FailAll \/ RecoverInterrupted
  PROVE  CommandsInv'
<1> PICK c \in Slot, i \in 1 .. NodeCount + 1 : c = exec.cmd /\ i = exec.index
  BY WorkerPosition DEF FailAll, RecoverInterrupted, FailResults, WorkerStep
<1> PICK pc \in {"failAll", "recover"}, status \in {"failed", "interrupted"}, next \in {Idle, Recovering} :
      FailResults(pc, status, next) /\ (pc = "recover" <=> status = "interrupted")
  BY DEF FailAll, RecoverInterrupted
<1>1. /\ UNCHANGED <<nodes, starting, dhcp, calls, abandoned>>
      /\ exec.pc = pc /\ exec \in WorkerState
  BY DEF FailResults, CommandsInv, TypeOK
<1>2. /\ commands[c].status = "running" /\ Fleet(c) /\ dhcp[c] = "none"
      /\ \A n \in Node : n < i => results[c][n] \in {"none", "succeeded", "failed"}
      /\ pc = "failAll" => \A n \in Node : n > i \/ n = i => results[c][n] \in {"none", "pending"}
      /\ pc = "failAll" => \A n \in Node : results[c][n] # "succeeded"
  BY <1>1, WorkerHoldsFleet DEF CommandsInv, WorkerInv, WorkerStep, Passed, Untouched
<1>3. CASE i \in Node
  <2>1. /\ UNCHANGED commands /\ exec' = At(pc, c, i + 1, exec.seen)
        /\ IF Unended(c, i) THEN SetResult(c, i, "failed") ELSE UNCHANGED results
    BY <1>1, <1>3 DEF FailResults, At, WorkerState
  <2>2. /\ results' \in [Slot -> [Node -> Result]]
        /\ results'[c][i] = IF Unended(c, i) THEN "failed" ELSE results[c][i]
        /\ \A k \in Node \ {i} : results'[c][k] = results[c][k]
        /\ \A t \in Slot \ {c} : results'[t] = results[t]
    <3>1. CASE Unended(c, i)
      BY <1>3, <2>1, <3>1, ResultWritten, SMTT(30) DEF CommandsInv, Result
    <3>2. CASE ~Unended(c, i)
      BY <1>3, <2>1, <3>2 DEF CommandsInv, TypeOK
    <3> QED
      BY <3>1, <3>2
  <2>3. results'[c][i] \in {"none", "succeeded", "failed"} /\ (results'[c][i] = "none" => results[c][i] = "none")
        /\ (results'[c][i] = "succeeded" => results[c][i] = "succeeded")
    BY <1>3, <2>2, SMTT(30) DEF CommandsInv, TypeOK, Unended, Result
  <2>4. TypeOK'
    BY <1>1, <2>1, <2>2, SMTT(30) DEF CommandsInv, TypeOK, WorkerState, WorkerStep, RecoveryStep, At
  <2>5. OnlyWrites(c)
    BY <1>1, <2>1, <2>2 DEF OnlyWrites
  <2>6. SlotInv(c)'
    <3>1. PICK k \in Node : results[c][k] # "none"
      BY <1>2 DEF CommandsInv, RowInv
    <3>2. results'[c][k] # "none"
      BY <2>2, <2>3, <3>1
    <3>3. CallsAgree(c)'
      BY <1>1, <2>2, <2>3, SlotFacts, SMTT(30) DEF CallsAgree
    <3> QED
      BY <1>1, <1>2, <2>1, <3>2, <3>3, RunningSlot
  <2>7. WorkerInv'
    <3>1. exec'.pc = pc /\ exec'.cmd = c /\ exec'.index = i + 1 /\ i + 1 \in 1 .. NodeCount + 1
      BY <1>3, <2>1, NodeFacts DEF At
    <3>2. \A n \in Node : n < i + 1 => results'[c][n] \in {"none", "succeeded", "failed"}
      BY <1>2, <2>2, <2>3, NodeFacts, SMTT(30)
    <3>3. pc = "failAll" => \A n \in Node : n > i + 1 \/ n = i + 1 => results'[c][n] \in {"none", "pending"}
      <4>1. \A n \in Node : n > i + 1 \/ n = i + 1 => n > i /\ n # i
        BY <1>3, SMTT(30) DEF Node
      <4> QED
        BY <1>2, <2>2, <4>1
    <3>4. pc = "failAll" => \A n \in Node : results'[c][n] # "succeeded"
      BY <1>2, <2>2, <2>3, SMTT(30)
    <3>5. commands'[c].status = "running" /\ Fleet(c)'
      BY <1>2, <2>1 DEF Fleet
    <3> QED
      BY <3>1, <3>2, <3>3, <3>4, <3>5 DEF WorkerInv, WorkerStep, Passed, Untouched
  <2> QED
    BY <1>1, <2>4, <2>5, <2>6, <2>7, SlotStep
<1>4. CASE i \notin Node
  <2>1. UNCHANGED results /\ SetStatus(c, status) /\ exec' = next
    BY <1>1, <1>4 DEF FailResults
  <2>2. /\ commands' \in [Slot -> CommandRow] /\ commands'[c].status = status
        /\ \A t \in Slot \ {c} : commands'[t] = commands[t]
    BY <2>1, StatusWritten DEF CommandsInv, Status, Ended
  <2>3. TypeOK'
    BY <1>1, <2>1, <2>2, SMTT(30) DEF CommandsInv, TypeOK, Idle, Recovering, At, WorkerState, RecoveryStep
  <2>4. OnlyWrites(c)
    BY <1>1, <2>1, <2>2 DEF OnlyWrites
  <2>5. \A n \in Node : results[c][n] \in {"none", "succeeded", "failed"}
    BY <1>2, <1>4, NodeFacts, SMTT(30)
  <2>6. status = "failed" => Some(c, "failed") /\ ~Some(c, "succeeded")
    BY <1>2, <2>5 DEF CommandsInv, RowInv, Some
  <2>7. \E n \in Node : results[c][n] # "none"
    BY <1>2 DEF CommandsInv, RowInv
  <2>8. SlotInv(c)'
    <3>1. CallsAgree(c)'
      BY <1>1, <2>1, SlotFacts DEF CallsAgree
    <3>2. \A r : Some(c, r)' <=> Some(c, r)
      BY <2>1 DEF Some
    <3>3. /\ dhcp'[c] = "none" /\ \E n \in Node : results'[c][n] # "none"
          /\ \A n \in Node : results'[c][n] \in {"none", "succeeded", "failed"}
      BY <1>1, <1>2, <2>1, <2>5, <2>7
    <3> QED
      BY <2>2, <2>6, <3>1, <3>2, <3>3, EndedSlot DEF Ended
  <2>9. WorkerInv'
    <3>1. exec'.pc \in {"idle", "recoverNext"}
      BY <2>1, SMTT(30) DEF Idle, Recovering, At
    <3> QED
      BY <3>1 DEF WorkerInv, WorkerStep
  <2> QED
    BY <1>1, <2>3, <2>4, <2>8, <2>9, SlotStep
<1> QED
  BY <1>3, <1>4

-----------------------------------------------------------------------------
\* DHCP resets

(* A repeat of a key stores nothing; a new one belongs to its request. *)
LEMMA BeginDHCPInv ==
  ASSUME CommandsInv, NEW q \in starting, BeginDHCPOperation(q)
  PROVE  CommandsInv'
<1>1. /\ UNCHANGED <<nodes, exec, calls, abandoned>> /\ starting' \subseteq starting
      /\ q \in StartRequest /\ q.slot \in Slot /\ q.input \in DhcpInput
      /\ DhcpNode[q.input] \in Node
  BY InputFacts DEF BeginDHCPOperation, CommandsInv, TypeOK, StartRequest
<1>2. CASE UNCHANGED <<commands, results, dhcp>>
  <2>1. TypeOK'
    BY <1>1, <1>2 DEF CommandsInv, TypeOK
  <2> QED
    BY <1>1, <1>2, <2>1, TablesKept, DhcpKept, WorkerKept DEF CommandsInv
<1>3. CASE commands[q.slot].status = "none"
  <2> DEFINE s == q.slot
             n0 == DhcpNode[q.input]
             row == [status |-> "running", input |-> q.input]
             step == IF q.targets = {} THEN "fail" ELSE "check"
  <2>1. /\ commands' = [commands EXCEPT ![s] = row] /\ SetResult(s, n0, "running")
        /\ dhcp' = [dhcp EXCEPT ![s] = step] /\ row \in CommandRow /\ step \in {"fail", "check"}
    BY <1>1, <1>3 DEF BeginDHCPOperation, CommandRow, Status
  <2>2. /\ results' \in [Slot -> [Node -> Result]] /\ results'[s][n0] = "running"
        /\ \A k \in Node \ {n0} : results'[s][k] = results[s][k]
        /\ \A t \in Slot \ {s} : results'[t] = results[t]
    BY <1>1, <2>1, ResultWritten DEF CommandsInv, Result
  <2>3. TypeOK'
    <3>1. dhcp' \in [Slot -> DhcpStep] /\ commands' \in [Slot -> CommandRow]
      BY <1>1, <2>1 DEF CommandsInv, TypeOK, DhcpStep
    <3> QED
      BY <1>1, <2>2, <3>1 DEF CommandsInv, TypeOK
  <2>4. commands'[s] = row /\ dhcp'[s] = step /\ OnlyWrites(s)
    BY <1>1, <2>1, <2>2 DEF CommandsInv, TypeOK, OnlyWrites
  <2>5. \A n \in Node : calls'[s][n] = 0 /\ (n # n0 => results'[s][n] = "none")
    BY <1>1, <1>3, <2>2, SlotFacts, SMTT(30) DEF RowInv, CallsAgree
  <2>6. commands'[s].status = "running" /\ commands'[s].input = q.input
    BY <2>4, SMTT(30)
  <2>7. SlotInv(s)'
    <3> HIDE DEF row, step
    <3>1. DhcpInv(s)'
      BY <1>1, <2>1, <2>2, <2>4, <2>5, <2>6 DEF DhcpInv
    <3>2. CallsAgree(s)'
      BY <2>2, <2>5, SMTT(30) DEF CallsAgree
    <3>3. RowInv(s)'
      BY <1>1, <2>2, <2>6 DEF RowInv
    <3> QED
      BY <2>6, <3>1, <3>2, <3>3 DEF SlotInv, Ended
  <2>8. WorkerInv'
    BY <1>1, <1>3, <2>4, WorkerElsewhere
  <2> QED
    BY <1>1, <2>3, <2>4, <2>7, <2>8, SlotStep
<1> QED
  BY <1>2, <1>3 DEF BeginDHCPOperation

(* The call of the node by the request, and the one write of its end. *)
LEMMA DHCPCallInv ==
  ASSUME CommandsInv, NEW s \in Slot, ResetDHCP(s) \/ FinishDHCPOperation(s)
  PROVE  CommandsInv'
<1> PICK n0 : n0 = DhcpNode[commands[s].input]
  OBVIOUS
<1>1. dhcp[s] # "none" /\ UNCHANGED <<nodes, starting, exec, abandoned>>
  BY DEF ResetDHCP, FinishDHCPOperation
<1>2. /\ commands[s].status = "running" /\ commands[s].input \in DhcpInput /\ n0 \in Node
      /\ results[s][n0] = "running" /\ \A n \in Node \ {n0} : results[s][n] = "none"
      /\ dhcp[s] = "call" => calls[s][n0] = 0
      /\ dhcp[s] = "succeed" => calls[s][n0] = 1
  BY <1>1, InputFacts DEF CommandsInv, DhcpInv
<1>3. ~Fleet(s)
  BY <1>2, InputFacts DEF Fleet
<1>4. CASE ResetDHCP(s)
  <2>1. PICK step \in {"succeed", "fail"}, k \in {0, 1} :
          Called(s, n0, k) /\ dhcp' = [dhcp EXCEPT ![s] = step] /\ (step = "succeed" => k = 1)
    BY <1>4 DEF ResetDHCP
  <2>2. UNCHANGED <<commands, results>> /\ dhcp[s] = "call" /\ calls[s][n0] = 0
    BY <1>2, <1>4 DEF ResetDHCP
  <2>3. /\ calls' \in [Slot -> [Node -> Nat]] /\ calls'[s][n0] = k
        /\ \A n \in Node \ {n0} : calls'[s][n] = calls[s][n]
        /\ \A t \in Slot \ {s} : calls'[t] = calls[t]
    BY <1>2, <2>1, <2>2, SMTT(30) DEF CommandsInv, TypeOK, Called
  <2>4. TypeOK'
    <3>1. dhcp' \in [Slot -> DhcpStep]
      BY <2>1 DEF CommandsInv, TypeOK, DhcpStep
    <3> QED
      BY <1>1, <2>2, <2>3, <3>1 DEF CommandsInv, TypeOK
  <2>5. OnlyWrites(s) /\ dhcp'[s] = step
    BY <2>1, <2>2, <2>3 DEF CommandsInv, TypeOK, OnlyWrites
  <2>6. DhcpInv(s)'
    BY <1>2, <2>1, <2>2, <2>3, <2>5 DEF DhcpInv
  <2>7. SlotInv(s)'
    <3>1. CallsAgree(s)'
      BY <1>2, <2>2, <2>3, SlotFacts, SMTT(30) DEF CallsAgree
    <3>2. RowInv(s)'
      BY <1>2, <2>2 DEF RowInv
    <3> QED
      BY <1>2, <2>2, <2>6, <3>1, <3>2 DEF SlotInv, Ended
  <2>8. WorkerInv'
    BY <1>1, <1>3, <2>5, WorkerElsewhere
  <2> QED
    BY <1>1, <2>4, <2>5, <2>7, <2>8, SlotStep
<1>5. CASE FinishDHCPOperation(s)
  <2> DEFINE status == IF dhcp[s] = "succeed" THEN "succeeded" ELSE "failed"
  <2>1. UNCHANGED calls /\ dhcp' = [dhcp EXCEPT ![s] = "none"]
    BY <1>5 DEF FinishDHCPOperation
  <2>2. dhcp'[s] = "none" /\ \A t \in Slot \ {s} : dhcp'[t] = dhcp[t]
    BY <2>1 DEF CommandsInv, TypeOK
  <2>3. CASE UNCHANGED <<commands, results>>
    <3>1. TypeOK'
      BY <1>1, <2>1, <2>3 DEF CommandsInv, TypeOK, DhcpStep
    <3>2. OnlyWrites(s)
      BY <2>1, <2>2, <2>3 DEF OnlyWrites
    <3>3. SlotInv(s)'
      <4>1. CallsAgree(s)'
        BY <2>1, <2>3, SlotFacts DEF CallsAgree
      <4> QED
        BY <1>2, <2>2, <2>3, <4>1, RunningSlot
    <3>4. WorkerInv'
      BY <1>1, <1>3, <3>2, WorkerElsewhere
    <3> QED
      BY <1>1, <3>1, <3>2, <3>3, <3>4, SlotStep
  <2>4. CASE SetStatus(s, status) /\ SetResult(s, n0, status)
    <3> status \in {"succeeded", "failed"} /\ (status = "succeeded" => dhcp[s] = "succeed")
      OBVIOUS
    <3> HIDE DEF status
    <3>1. /\ commands' \in [Slot -> CommandRow] /\ commands'[s].status = status
          /\ \A t \in Slot \ {s} : commands'[t] = commands[t]
      BY <2>4, StatusWritten DEF CommandsInv, Status, Ended
    <3>2. /\ results' \in [Slot -> [Node -> Result]] /\ results'[s][n0] = status
          /\ \A k \in Node \ {n0} : results'[s][k] = results[s][k]
          /\ \A t \in Slot \ {s} : results'[t] = results[t]
      BY <1>2, <2>4, ResultWritten, SMTT(30) DEF CommandsInv, Result
    <3>3. TypeOK'
      <4>1. dhcp' \in [Slot -> DhcpStep]
        BY <2>1 DEF CommandsInv, TypeOK, DhcpStep
      <4> QED
        BY <1>1, <2>1, <3>1, <3>2, <4>1 DEF CommandsInv, TypeOK
    <3>4. OnlyWrites(s)
      BY <2>1, <2>2, <3>1, <3>2 DEF OnlyWrites
    <3>5. /\ \A n \in Node : results'[s][n] \in {"none", status}
          /\ \E n \in Node : results'[s][n] = status
      BY <1>2, <3>2
    <3>6. SlotInv(s)'
      <4>1. CallsAgree(s)'
        BY <1>2, <2>1, <3>2, SlotFacts, SMTT(30) DEF CallsAgree
      <4>2. \A r \in {"succeeded", "failed"} : Some(s, r)' <=> status = r
        BY <3>5 DEF Some
      <4> QED
        BY <2>2, <3>1, <3>5, <4>1, <4>2, EndedSlot DEF Ended
    <3>7. WorkerInv'
      BY <1>1, <1>3, <3>4, WorkerElsewhere
    <3> QED
      BY <1>1, <3>3, <3>4, <3>6, <3>7, SlotStep
  <2> QED
    BY <1>5, <2>3, <2>4 DEF FinishDHCPOperation
<1> QED
  BY <1>4, <1>5

-----------------------------------------------------------------------------
\* The theorems

(* The invariant holds of the empty tables a controller first starts on. *)
LEMMA InitInv == Init => CommandsInv
<1> SUFFICES ASSUME Init PROVE CommandsInv
  OBVIOUS
<1>1. TypeOK
  BY DEF Init, TypeOK, NoCommand, CommandRow, Status, Result, Recovering, At, WorkerState,
         RecoveryStep, DhcpStep
<1>2. WorkerInv
  BY DEF Init, WorkerInv, Recovering, At, WorkerStep
<1>3. \A s \in Slot : SlotInv(s)
  BY SMTT(30) DEF Init, NoCommand, SlotInv, CallsAgree, RowInv, DhcpInv, Ended
<1>4. starting = {}
  BY DEF Init
<1> QED
  BY <1>1, <1>2, <1>3, <1>4, SlotForm

(* Every step keeps it. *)
LEMMA NextInv == CommandsInv /\ [Next]_vars => CommandsInv'
<1> SUFFICES ASSUME CommandsInv, [Next]_vars PROVE CommandsInv'
  OBVIOUS
<1>1. CASE UNCHANGED vars
  <2>1. TypeOK'
    BY <1>1 DEF vars, CommandsInv, TypeOK
  <2> QED
    BY <1>1, <2>1, TablesKept, DhcpKept, WorkerKept DEF vars, CommandsInv
<1>2. CASE Worker
  BY <1>2, ClaimInv, LoadInv, BeginInv, CallInv, RecordInv, FinishInv, FailResultsInv DEF Worker
<1>3. CASE \E s \in Slot : DhcpRequest(s)
  BY <1>3, CheckInv, DHCPCallInv DEF DhcpRequest
<1>4. CASE \E q \in starting : CreateOperationalCommand(q) \/ BeginDHCPOperation(q)
  BY <1>4, CreateInv, BeginDHCPInv
<1> QED
  BY <1>1, <1>2, <1>3, <1>4, SelectionInv, RepositoryInv, RestartInv, ManageInv DEF Next

(* The invariant: between any two calls of the worker, the requests and      *)
(* recovery, the rows agree with each other and with the calls made          *)
(* (operations/executor.go, inventory/dhcp_operations.go).                   *)
THEOREM CommandsInvariance == Spec => []CommandsInv
  BY InitInv, NextInv, PTL DEF Spec

(* No node is called twice for a command, however often a key is repeated,   *)
(* whatever fails and whenever the controller restarts.                      *)
THEOREM NoSecondCall == Spec => []CalledAtMostOnce
<1>1. CommandsInv => CalledAtMostOnce
  BY DEF CommandsInv
<1> QED
  BY <1>1, CommandsInvariance, PTL

(* A command ends only with a status that its node results bear out.         *)
THEOREM OutcomeIsBorneOut == Spec => []OutcomeMatchesResults
<1>1. CommandsInv => OutcomeMatchesResults
  BY DEF CommandsInv
<1> QED
  BY <1>1, CommandsInvariance, PTL

(* No step writes to a command that has ended, although the update of a      *)
(* node result carries no such guard.                                        *)
LEMMA HistoryKept == CommandsInv /\ [Next]_vars => [HistoryStep]_vars
<1> SUFFICES ASSUME CommandsInv, Next, NEW s \in Slot, commands[s].status \in Ended
             PROVE  commands'[s] = commands[s] /\ results'[s] = results[s]
  BY DEF HistoryStep
<1>1. exec.pc \in WorkerStep \cup {"recover"} => exec.cmd \in Slot /\ exec.cmd # s
  BY DEF CommandsInv, WorkerInv, Ended
<1>2. dhcp[s] = "none"
  BY DEF CommandsInv, DhcpInv, Ended
<1>3. ASSUME NEW t \in Slot, t # s, NEW status, SetStatus(t, status)
      PROVE  commands'[s] = commands[s]
  BY <1>3 DEF SetStatus, CommandsInv, TypeOK
<1>4. ASSUME NEW t \in Slot, t # s, NEW n, NEW result, SetResult(t, n, result)
      PROVE  results'[s] = results[s]
  BY <1>4 DEF SetResult, CommandsInv, TypeOK
<1>5. CASE Worker
  <2>1. CASE ClaimOperationalCommand
    BY <1>3, <2>1 DEF ClaimOperationalCommand, Ended
  <2>2. CASE LoadCommand \/ CallNode \/ RecoverNext
    BY <2>2 DEF LoadCommand, CallNode, RecoverNext
  <2>3. CASE BeginResult
    BY <1>1, <1>4, <2>3 DEF BeginResult, WorkerStep
  <2>4. CASE RecordResult
    BY <1>1, <1>4, <2>4 DEF RecordResult, WorkerStep
  <2>5. CASE FinishOperationalCommand
    BY <1>1, <1>3, <2>5 DEF FinishOperationalCommand, WorkerStep
  <2>6. CASE FailAll \/ RecoverInterrupted
    BY <1>1, <1>3, <1>4, <2>6 DEF FailAll, RecoverInterrupted, FailResults, WorkerStep
  <2> QED
    BY <1>5, <2>1, <2>2, <2>3, <2>4, <2>5, <2>6 DEF Worker
<1>6. CASE \E t \in Slot : DhcpRequest(t)
  <2> PICK t \in Slot : DhcpRequest(t)
    BY <1>6
  <2>1. CASE CheckDHCPOperation(t) \/ ResetDHCP(t)
    BY <2>1 DEF CheckDHCPOperation, ResetDHCP
  <2>2. CASE FinishDHCPOperation(t)
    BY <1>2, <1>3, <1>4, <2>2 DEF FinishDHCPOperation
  <2> QED
    BY <2>1, <2>2 DEF DhcpRequest
<1>7. CASE \E q \in starting : CreateOperationalCommand(q) \/ BeginDHCPOperation(q)
  <2> PICK q \in starting : CreateOperationalCommand(q) \/ BeginDHCPOperation(q)
    BY <1>7
  <2>1. q.slot \in Slot
    BY DEF CommandsInv, TypeOK, StartRequest
  <2>2. commands[q.slot].status = "none" => q.slot # s
    BY DEF Ended
  <2>3. CASE CreateOperationalCommand(q)
    BY <2>1, <2>2, <2>3 DEF CreateOperationalCommand, CommandsInv, TypeOK
  <2>4. CASE BeginDHCPOperation(q)
    BY <1>4, <2>1, <2>2, <2>4 DEF BeginDHCPOperation, CommandsInv, TypeOK
  <2> QED
    BY <2>3, <2>4
<1>8. CASE \/ RepositoryFails \/ Restart \/ \E n \in Node : ManageNode(n)
           \/ \E t \in Slot, input \in FleetInput : StartCommand(t, input)
           \/ \E t \in Slot, input \in DhcpInput : StartDHCPOperation(t, input)
  BY <1>8 DEF RepositoryFails, Restart, ManageNode, StartCommand, StartDHCPOperation
<1> QED
  BY <1>5, <1>6, <1>7, <1>8 DEF Next

(* A command that has ended stays as it is: its history can be relied on.    *)
THEOREM HistoryIsFinal == Spec => EndedIsFinal
  BY CommandsInvariance, HistoryKept, PTL DEF Spec, EndedIsFinal

===============================================================================
