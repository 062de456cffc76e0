------------------------------- MODULE Outbox -------------------------------
(***************************************************************************)
(* What a table of outgoing messages with bounded retries promises: a      *)
(* message is attempted at most MaxAttempts times, one attempt at a time,  *)
(* nothing is sent for a suppressed message and nothing is sent again once *)
(* a delivery is recorded.  The module Notifications implements it.        *)
(***************************************************************************)
EXTENDS Naturals

CONSTANTS Message, MaxAttempts

VARIABLES
  state,   \* where a message stands
  tries    \* attempts started for it

\* A message whose attempts are used up without a recorded delivery is spent.
AfterFailure(n) == IF n < MaxAttempts THEN "open" ELSE "spent"

Init ==
  /\ state = [m \in Message |-> "absent"]
  /\ tries = [m \in Message |-> 0]

Queue(m) == state[m] = "absent" /\ state'[m] = "open" /\ tries'[m] = 0
Suppress(m) == state[m] = "absent" /\ state'[m] = "suppressed" /\ tries'[m] = 0
\* A message recorded with its first attempt.
Record(m) ==
  /\ state[m] = "absent"
  /\ state'[m] \in {"delivered", AfterFailure(1)}
  /\ tries'[m] = 1
Attempt(m) ==
  /\ state[m] = "open" /\ tries[m] < MaxAttempts
  /\ state'[m] = "sending" /\ tries'[m] = tries[m] + 1
Deliver(m) == state[m] = "sending" /\ state'[m] = "delivered" /\ tries'[m] = tries[m]
Fail(m) == state[m] = "sending" /\ state'[m] = AfterFailure(tries[m]) /\ tries'[m] = tries[m]
\* History is cleared, at any time and for many messages at once; a dropped
\* message never comes back.
Drop(m) == state'[m] = "dropped" /\ tries'[m] = 0
Keep(m) == state'[m] = state[m] /\ tries'[m] = tries[m]

Next ==
  \A m \in Message :
    \/ Queue(m) \/ Suppress(m) \/ Record(m) \/ Attempt(m) \/ Deliver(m) \/ Fail(m)
    \/ Drop(m) \/ Keep(m)

Spec == Init /\ [][Next]_<<state, tries>>

=============================================================================
