--------------------------- MODULE Notifications ---------------------------
(***************************************************************************)
(* Webhook notifications: channels, the event policy, the delivery rows    *)
(* that an HA event creates for the subscribed channels, the worker that   *)
(* sends them with bounded retries, the synchronous test of a channel, and *)
(* the deletion of operational history.                                    *)
(*                                                                         *)
(* Sources: internal/haoperations/notifications.go,                        *)
(* internal/database/{notifications,notification_policy,ha_operations,     *)
(* operational_history}.go, internal/jobs/{notifications,                  *)
(* operational_history}.go.                                                *)
(*                                                                         *)
(* A save or deletion of a channel, and a save of the policy, that names a *)
(* stale record_version changes nothing and is not a step.  Time is kept   *)
(* as "the next attempt is due".                                           *)
(***************************************************************************)
EXTENDS Naturals, FiniteSets

CONSTANTS
  Channel,      \* notification_channels identifiers, never reused
  Event,        \* ha_operational_events identifiers, never reused
  EventType,    \* the event types that happen
  MaxAttempts,  \* attempt_count limit; 5 in the code
  Calls,        \* API calls and jobs that may happen
  Faults,       \* environment faults that may happen
  None

Categories ==
  [dns          |-> {"dns.failed", "dns.recovered"},
   redundancy   |-> {"redundancy.degraded", "redundancy.at_risk", "redundancy.restored"},
   certificates |-> {"certificate.warning", "certificate.critical", "certificate.expired",
                     "certificate.recovered"},
   maintenance  |-> {"maintenance.started", "maintenance.return_validation_failed",
                     "maintenance.ended"},
   versions     |-> {"version.update_available", "version.current"},
   upgrades     |-> {"upgrade.started", "upgrade.succeeded", "upgrade.validation_failed"}]
NotificationCategoryForEvent(type) ==
  CHOOSE c \in DOMAIN Categories : type \in Categories[c]
RecommendedNotificationEventTypes ==
  Categories.dns \cup Categories.redundancy
    \cup {"maintenance.return_validation_failed", "upgrade.validation_failed"}
Category == {NotificationCategoryForEvent(t) : t \in EventType}

NotificationCall == {"channel", "policy", "test", "clear", "prune", "maintenance"}
NotificationFault == {"post", "repository", "restart"}
ASSUME AttemptsPositive == MaxAttempts \in Nat \ {0}
ASSUME EventTypesKnown ==
  \A t \in EventType : \E c \in DOMAIN Categories : t \in Categories[c]
ASSUME NotificationConstants ==
  /\ Calls \subseteq NotificationCall /\ Faults \subseteq NotificationFault
  /\ None \notin Channel \X Event

VARIABLES
  channels,     \* table notification_channels
  policy,       \* the enabled event types of notification_policy
  events,       \* table ha_operational_events: the type of an event
  rows,         \* table notification_deliveries, unique by channel and event
  maintenance,  \* maintenance_mode of the node the events are about
  worker,       \* the delivery worker
  test,         \* a channel test in progress
  posts         \* history: requests sent for a row

vars == <<channels, policy, events, rows, maintenance, worker, test, posts>>

Row == Channel \X Event
ChannelState == {"none", "enabled", "disabled", "deleted"}
Stored == {"enabled", "disabled"}
EventRow == EventType \cup {"none", "notification.test", "deleted"}
DeliveryStatus == {"none", "pending", "failed", "succeeded", "suppressed"}
\* due: COALESCE(next_attempt_at, created_at) <= now
Delivery == [status : DeliveryStatus, attempts : 0 .. MaxAttempts, due : BOOLEAN,
             completed : BOOLEAN]
NoRow == [status |-> "none", attempts |-> 0, due |-> FALSE, completed |-> FALSE]
Idle == [pc |-> "idle", row |-> None, ok |-> FALSE]
NoTest == [pc |-> "none", channel |-> None, ok |-> FALSE, sent |-> 0]

TypeOK ==
  /\ channels \in [Channel -> [state : ChannelState, categories : SUBSET Category]]
  /\ policy \in SUBSET EventType
  /\ events \in [Event -> EventRow]
  /\ rows \in [Row -> Delivery]
  /\ maintenance \in BOOLEAN
  /\ worker \in [pc : {"idle", "post", "finish"}, row : Row \cup {None}, ok : BOOLEAN]
  /\ test \in [pc : {"none", "post", "record"}, channel : Channel \cup {None}, ok : BOOLEAN,
               sent : {0, 1}]
  /\ posts \in [Row -> Nat]

Init ==
  /\ channels = [c \in Channel |-> [state |-> "none", categories |-> {}]]
  /\ policy = RecommendedNotificationEventTypes \cap EventType
  /\ events = [e \in Event |-> "none"]
  /\ rows = [r \in Row |-> NoRow]
  /\ maintenance = FALSE
  /\ worker = Idle
  /\ test = NoTest
  /\ posts = [r \in Row |-> 0]

-----------------------------------------------------------------------------
\* Channels and policy

\* Create inserts; Update replaces name, destination, enabled and categories.
SaveNotificationChannel(c) ==
  /\ "channel" \in Calls
  /\ channels[c].state # "deleted"
  /\ \E state \in Stored, categories \in SUBSET Category \ {{}} :
       channels' = [channels EXCEPT ![c] = [state |-> state, categories |-> categories]]
  /\ UNCHANGED <<policy, events, rows, maintenance, worker, test, posts>>

\* The delivery rows stay, with channel_id set to NULL.
DeleteNotificationChannel(c) ==
  /\ "channel" \in Calls
  /\ channels[c].state \in Stored
  /\ channels' = [channels EXCEPT ![c].state = "deleted"]
  /\ UNCHANGED <<policy, events, rows, maintenance, worker, test, posts>>

UpdateNotificationPolicy ==
  /\ "policy" \in Calls
  /\ policy' \in SUBSET EventType
  /\ UNCHANGED <<channels, events, rows, maintenance, worker, test, posts>>

\* Node maintenance, in the module NodeLifecycle.
SetMaintenance ==
  /\ "maintenance" \in Calls
  /\ maintenance' = ~maintenance
  /\ UNCHANGED <<channels, policy, events, rows, worker, test, posts>>

-----------------------------------------------------------------------------
\* Events

notificationDeliveryDisposition(type) ==
  IF type \notin policy \/ (type = "dns.failed" /\ maintenance)
    THEN "suppressed" ELSE "pending"

Subscribed(c, type) ==
  channels[c].state = "enabled" /\ NotificationCategoryForEvent(type) \in channels[c].categories

\* insertHAEvent: the event and one row per enabled, subscribed channel.
RecordHAEvent(e, type) ==
  LET status == notificationDeliveryDisposition(type)
      row == [status |-> status, attempts |-> 0, due |-> TRUE,
              completed |-> status = "suppressed"]
  IN  /\ events[e] = "none"
      /\ events' = [events EXCEPT ![e] = type]
      /\ rows' = [r \in Row |->
           IF r[2] = e /\ Subscribed(r[1], type) THEN row ELSE rows[r]]
      /\ UNCHANGED <<channels, policy, maintenance, worker, test, posts>>

\* Deleting an event deletes its delivery rows (ON DELETE CASCADE).
DeleteEvents(deleted) ==
  /\ events' = [e \in Event |-> IF e \in deleted THEN "deleted" ELSE events[e]]
  /\ rows' = [r \in Row |-> IF r[2] \in deleted THEN NoRow ELSE rows[r]]
  /\ UNCHANGED <<channels, policy, maintenance, worker, test, posts>>
StoredEvents == {e \in Event : events[e] \notin {"none", "deleted"}}
ClearOperationalHistory == "clear" \in Calls /\ DeleteEvents(StoredEvents)
\* Retention goes by the age of the event, whatever its deliveries are doing.
PruneOperationalHistory(e) ==
  /\ "prune" \in Calls /\ e \in StoredEvents
  /\ DeleteEvents({e})

-----------------------------------------------------------------------------
\* The worker (RunNotificationDelivery, DeliverNext)

\* Mutant: the query does not look at the status.
ClaimableAnyStatus(r) ==
  channels[r[1]].state = "enabled" /\ rows[r].attempts < MaxAttempts /\ rows[r].due
\* Mutant: failed rows are not tried again.
ClaimableUntried(r) ==
  /\ channels[r[1]].state = "enabled"
  /\ rows[r].status = "pending" /\ rows[r].attempts < MaxAttempts
Claimable(r) ==
  /\ channels[r[1]].state = "enabled"
  /\ rows[r].status \in {"pending", "failed"}
  /\ rows[r].attempts < MaxAttempts
  /\ rows[r].due

\* Mutant: the claim does not count the attempt.
ClaimUncounted(r) ==
  /\ worker.pc = "idle"
  /\ Claimable(r)
  /\ rows' = [rows EXCEPT ![r].status = "pending", ![r].due = TRUE]
  /\ worker' = [pc |-> "post", row |-> r, ok |-> FALSE]
  /\ UNCHANGED <<channels, policy, events, maintenance, test, posts>>
\* The transaction counts the attempt before it is made; next_attempt_at = NULL.
ClaimNotificationDelivery(r) ==
  /\ worker.pc = "idle"
  /\ Claimable(r)
  /\ rows' = [rows EXCEPT ![r].status = "pending", ![r].attempts = @ + 1, ![r].due = TRUE]
  /\ worker' = [pc |-> "post", row |-> r, ok |-> FALSE]
  /\ UNCHANGED <<channels, policy, events, maintenance, test, posts>>

\* A failed attempt may or may not have reached the receiver; an unreadable
\* destination or payload fails without a request.
Post ==
  /\ worker.pc = "post"
  /\ \E ok \in BOOLEAN, k \in {0, 1} :
       /\ ok => k = 1
       /\ ~ok => "post" \in Faults
       /\ posts' = [posts EXCEPT ![worker.row] = @ + k]
       /\ worker' = [worker EXCEPT !.pc = "finish", !.ok = ok]
  /\ UNCHANGED <<channels, policy, events, rows, maintenance, test>>

\* Mutant: a failure starts the count of attempts again.
FinishedUncounted(row, ok) ==
  IF ok THEN [row EXCEPT !.status = "succeeded", !.completed = TRUE]
  ELSE [row EXCEPT !.status = "failed", !.due = FALSE, !.attempts = 0]
\* failDelivery: the last attempt completes the row, others wait 2^n minutes.
Finished(row, ok) ==
  IF ok THEN [row EXCEPT !.status = "succeeded", !.completed = TRUE]
  ELSE [row EXCEPT !.status = "failed", !.due = row.attempts >= MaxAttempts,
                   !.completed = row.attempts >= MaxAttempts \/ @]

\* UPDATE ... WHERE id = $1; it may fail, and the row may be gone.
FinishNotificationDelivery ==
  LET r == worker.row
  IN  /\ worker.pc = "finish"
      /\ \/ rows' = [rows EXCEPT ![r] = IF @ = NoRow THEN @ ELSE Finished(@, worker.ok)]
         \/ "repository" \in Faults /\ UNCHANGED rows
      /\ worker' = Idle
      /\ UNCHANGED <<channels, policy, events, maintenance, test, posts>>

\* The retry deadline of a failed row passes.
DeadlinePasses(r) ==
  /\ rows[r].status = "failed" /\ ~rows[r].due
  /\ rows' = [rows EXCEPT ![r].due = TRUE]
  /\ UNCHANGED <<channels, policy, events, maintenance, worker, test, posts>>

-----------------------------------------------------------------------------
\* Test of a channel (NotificationService.Test), inside the API request

StartTest(c) ==
  /\ "test" \in Calls
  /\ test.pc = "none"
  /\ channels[c].state \in Stored
  /\ test' = [NoTest EXCEPT !.pc = "post", !.channel = c]
  /\ UNCHANGED <<channels, policy, events, rows, maintenance, worker, posts>>

PostTest ==
  /\ test.pc = "post"
  /\ \E ok \in BOOLEAN, k \in {0, 1} :
       /\ ok => k = 1
       /\ ~ok => "post" \in Faults
       /\ test' = [test EXCEPT !.pc = "record", !.ok = ok, !.sent = k]
  /\ UNCHANGED <<channels, policy, events, rows, maintenance, worker, posts>>

\* One transaction for the event, its row and the audit record; nothing if the
\* channel was deleted meanwhile.
RecordNotificationTest(e) ==
  LET r == <<test.channel, e>>
      row == [status |-> IF test.ok THEN "succeeded" ELSE "failed", attempts |-> 1,
              due |-> TRUE, completed |-> TRUE]
  IN  /\ test.pc = "record"
      /\ events[e] = "none"
      /\ channels[test.channel].state \in Stored
      /\ events' = [events EXCEPT ![e] = "notification.test"]
      /\ rows' = [rows EXCEPT ![r] = row]
      /\ posts' = [posts EXCEPT ![r] = test.sent]
      /\ test' = NoTest
      /\ UNCHANGED <<channels, policy, maintenance, worker>>
AbandonTest ==
  /\ test.pc = "record"
  /\ channels[test.channel].state = "deleted" \/ "repository" \in Faults
  /\ test' = NoTest
  /\ UNCHANGED <<channels, policy, events, rows, maintenance, worker, posts>>

Restart ==
  /\ "restart" \in Faults
  /\ worker' = Idle
  /\ test' = NoTest
  /\ UNCHANGED <<channels, policy, events, rows, maintenance, posts>>

-----------------------------------------------------------------------------
Work ==
  (\E r \in Row : ClaimNotificationDelivery(r)) \/ Post \/ FinishNotificationDelivery

Next ==
  \/ \E c \in Channel :
       SaveNotificationChannel(c) \/ DeleteNotificationChannel(c) \/ StartTest(c)
  \/ UpdateNotificationPolicy \/ SetMaintenance
  \/ \E e \in Event :
       \/ \E type \in EventType : RecordHAEvent(e, type)
       \/ PruneOperationalHistory(e) \/ RecordNotificationTest(e)
  \/ ClearOperationalHistory \/ Work
  \/ \E r \in Row : DeadlinePasses(r)
  \/ PostTest \/ AbandonTest \/ Restart

\* The worker loop polls forever and time passes; nothing else is fair.
Fairness == WF_vars(Work) /\ \A r \in Row : WF_vars(DeadlinePasses(r))

Spec == Init /\ [][Next]_vars /\ Fairness

-----------------------------------------------------------------------------
\* Properties

\* Whatever fails and whenever the controller restarts, a delivery is posted
\* at most MaxAttempts times (ha-operations.md: "retry at most five times"), a
\* row that says succeeded was posted, and a suppressed row never is.
PostsMatchRows ==
  \A r \in Row :
    /\ posts[r] <= MaxAttempts
    /\ rows[r].status = "succeeded" => posts[r] > 0
    /\ rows[r].status = "suppressed" => posts[r] = 0

\* A delivery recorded as sent is not posted again, and its row is not
\* rewritten by a late result of an earlier attempt; only clearing history
\* removes it (FinishNotificationDelivery has no status guard).
SentStep ==
  \A r \in Row : rows[r].status \in {"succeeded", "suppressed"} =>
    posts'[r] = posts[r] /\ rows'[r] \in {rows[r], NoRow}
SentIsFinal == [][SentStep]_vars

\* A row that is waiting to be sent is sent or used up, unless its channel is
\* disabled or deleted or its event removed; restarts and failed updates cost
\* attempts, they do not leave the row waiting (RunNotificationDelivery).
Waiting(r) ==
  /\ rows[r].status \in {"pending", "failed"} /\ rows[r].attempts < MaxAttempts
  /\ channels[r[1]].state = "enabled"
DeliveryIsSettled == \A r \in Row : Waiting(r) ~> ~Waiting(r)

\* The rows implement an outbox: the worker's row is being sent; a row that may
\* still be claimed is open, whatever its status says.
Standing(r) ==
  IF events[r[2]] = "deleted" THEN "dropped"
  ELSE IF rows[r].status = "none" THEN "absent"
  ELSE IF rows[r].status = "suppressed" THEN "suppressed"
  ELSE IF rows[r].status = "succeeded" THEN "delivered"
  ELSE IF worker.row = r THEN "sending"
  ELSE IF rows[r].attempts < MaxAttempts THEN "open" ELSE "spent"
OutboxState == [r \in Row |-> Standing(r)]
OutboxTries == [r \in Row |-> rows[r].attempts]
Deliveries ==
  INSTANCE Outbox WITH Message <- Row, state <- OutboxState, tries <- OutboxTries
ImplementsOutbox == Deliveries!Spec

-----------------------------------------------------------------------------
\* The inductive invariant of the proofs

\* Requests of an attempt that is counted and not yet made.
Unposted(r) == IF worker.pc = "post" /\ worker.row = r THEN 1 ELSE 0
RowInv(r) ==
  /\ events[r[2]] \in {"none", "deleted"} => rows[r].status = "none"
  /\ events[r[2]] = "none" => posts[r] = 0 /\ worker.row # r
  /\ rows[r].status = "none" => rows[r] = NoRow /\ posts[r] + Unposted(r) <= MaxAttempts
  /\ rows[r].status # "none" => posts[r] + Unposted(r) <= rows[r].attempts
  /\ rows[r].status = "suppressed" => rows[r].attempts = 0
  /\ rows[r].status = "succeeded" => posts[r] > 0
  /\ worker.row = r => rows[r].status \in {"none", "pending"}
WorkerInv ==
  /\ worker.pc = "idle" <=> worker.row = None
  /\ worker.pc = "finish" /\ worker.ok => posts[worker.row] > 0
TestInv ==
  /\ test.pc # "none" => test.channel \in Channel
  /\ test.ok => test.sent = 1
NotificationsInv == TypeOK /\ WorkerInv /\ TestInv /\ \A r \in Row : RowInv(r)

=============================================================================
