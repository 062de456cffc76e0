------------------------ MODULE NotificationsProofs ------------------------
(***************************************************************************)
(* NotificationsInv is inductive.  From it: PostsMatchRows is an invariant, *)
(* SentIsFinal holds, and every step of the worker, the API and the jobs is *)
(* a step of the outbox, for every set of channels and events and every     *)
(* attempt limit.                                                           *)
(***************************************************************************)
EXTENDS Notifications, TLAPS

\* Zenon proves the steps that name no other prover.
USE ZenonT(30)

(* An empty store satisfies the invariant. *)
LEMMA InitInv == Init => NotificationsInv
<1> SUFFICES ASSUME Init PROVE NotificationsInv OBVIOUS
<1> USE AttemptsPositive, NotificationConstants
<1>1. TypeOK
  <2>1. channels \in [Channel -> [state : ChannelState, categories : SUBSET Category]]
    BY DEF Init, ChannelState
  <2>2. rows \in [Row -> Delivery]
    BY SMTT(30) DEF Init, Delivery, DeliveryStatus, NoRow
  <2>3. policy \in SUBSET EventType /\ events \in [Event -> EventRow] /\ maintenance \in BOOLEAN
        /\ posts \in [Row -> Nat]
    BY DEF Init, EventRow
  <2> QED BY <2>1, <2>2, <2>3 DEF Init, TypeOK, Idle, NoTest
<1>2. WorkerInv /\ TestInv
  BY DEF Init, WorkerInv, TestInv, Idle, NoTest
<1>3. \A r \in Row : RowInv(r)
  BY SMTT(30) DEF Init, RowInv, Unposted, Row, NoRow, Idle
<1> QED BY <1>1, <1>2, <1>3 DEF NotificationsInv

\* Steps that touch neither the rows, the events, the worker nor the posts.
LEMMA QuietInv ==
  ASSUME NotificationsInv, UNCHANGED <<events, rows, worker, posts>>
  PROVE  WorkerInv' /\ \A r \in Row : RowInv(r)'
BY DEF NotificationsInv, WorkerInv, RowInv, Unposted

(* Saving or deleting a channel writes no delivery row. *)
LEMMA ChannelInv ==
  ASSUME NotificationsInv, NEW c \in Channel,
         SaveNotificationChannel(c) \/ DeleteNotificationChannel(c)
  PROVE  NotificationsInv'
<1>1. TypeOK'
  BY SMTT(30) DEF NotificationsInv, TypeOK, SaveNotificationChannel, DeleteNotificationChannel,
         ChannelState, Stored
<1>2. TestInv'
  BY DEF NotificationsInv, TestInv, SaveNotificationChannel, DeleteNotificationChannel
<1> QED
  BY <1>1, <1>2, QuietInv
  DEF NotificationsInv, SaveNotificationChannel, DeleteNotificationChannel

(* Neither does changing the policy or a node's maintenance. *)
LEMMA SettingInv ==
  ASSUME NotificationsInv, UpdateNotificationPolicy \/ SetMaintenance
  PROVE  NotificationsInv'
<1>1. TypeOK' /\ TestInv'
  BY DEF NotificationsInv, TypeOK, TestInv, UpdateNotificationPolicy, SetMaintenance
<1> QED
  BY <1>1, QuietInv DEF NotificationsInv, UpdateNotificationPolicy, SetMaintenance

(* A recorded event adds fresh pending rows, one per channel it matches. *)
LEMMA RecordHAEventInv ==
  ASSUME NotificationsInv, NEW e \in Event, NEW type \in EventType, RecordHAEvent(e, type)
  PROVE  NotificationsInv'
<1> USE AttemptsPositive
<1> DEFINE status == notificationDeliveryDisposition(type)
           row == [status |-> status, attempts |-> 0, due |-> TRUE,
                   completed |-> status = "suppressed"]
<1>0. status \in {"pending", "suppressed"}
  BY DEF notificationDeliveryDisposition
<1>1. row \in Delivery
  BY <1>0, SMTT(30) DEF Delivery, DeliveryStatus
<1>2. \A r \in Row : rows'[r] = IF r[2] = e /\ Subscribed(r[1], type) THEN row ELSE rows[r]
  BY DEF RecordHAEvent
<1> HIDE DEF row, status
<1>3. TypeOK'
  <2>1. rows' \in [Row -> Delivery]
    BY <1>1, <1>2 DEF NotificationsInv, TypeOK, RecordHAEvent, row, status
  <2> QED BY <2>1 DEF NotificationsInv, TypeOK, RecordHAEvent, EventRow
<1>4. WorkerInv' /\ TestInv'
  BY DEF NotificationsInv, WorkerInv, TestInv, RecordHAEvent
<1>5. ASSUME NEW r \in Row PROVE RowInv(r)'
  <2>0. RowInv(r) /\ r[2] \in Event BY DEF NotificationsInv, Row
  <2>1. events'[r[2]] = IF r[2] = e THEN type ELSE events[r[2]]
    BY <2>0 DEF RecordHAEvent, NotificationsInv, TypeOK
  <2>2. Unposted(r)' = Unposted(r) /\ posts' = posts /\ worker' = worker
    BY DEF RecordHAEvent, Unposted
  <2>3. CASE r[2] = e
    <3>1. posts[r] = 0 /\ worker.row # r /\ Unposted(r) = 0 /\ rows[r].status = "none"
      BY <2>3, <2>0 DEF RecordHAEvent, RowInv, Unposted
    <3>2. type # "none" /\ type # "deleted"
      BY EventTypesKnown, SMTT(30) DEF Categories
    <3>3. row.status = status /\ row.attempts = 0 BY DEF row
    <3> QED BY <1>0, <1>2, <2>0, <2>1, <2>2, <2>3, <3>1, <3>2, <3>3, SMTT(30) DEF RowInv
  <2>4. CASE r[2] # e
    BY <1>2, <2>0, <2>1, <2>2, <2>4 DEF RowInv
  <2> QED BY <2>3, <2>4
<1> QED BY <1>3, <1>4, <1>5 DEF NotificationsInv

(* Deleting events takes their rows with them. *)
LEMMA DeleteEventsInv ==
  ASSUME NotificationsInv, NEW deleted \in SUBSET StoredEvents, DeleteEvents(deleted)
  PROVE  NotificationsInv'
<1> USE AttemptsPositive
<1>1. TypeOK'
  <2>1. NoRow \in Delivery BY SMTT(30) DEF NoRow, Delivery, DeliveryStatus
  <2> QED BY <2>1 DEF NotificationsInv, TypeOK, DeleteEvents, EventRow
<1>2. WorkerInv' /\ TestInv'
  BY DEF NotificationsInv, WorkerInv, TestInv, DeleteEvents
<1>3. ASSUME NEW r \in Row PROVE RowInv(r)'
  <2>0. RowInv(r) /\ r[2] \in Event /\ rows[r] \in Delivery /\ posts[r] \in Nat
    BY DEF NotificationsInv, Row, TypeOK
  <2>1. events'[r[2]] = IF r[2] \in deleted THEN "deleted" ELSE events[r[2]]
    BY <2>0 DEF DeleteEvents
  <2>2. Unposted(r)' = Unposted(r) /\ posts' = posts /\ worker' = worker
        /\ Unposted(r) \in {0, 1}
    BY DEF DeleteEvents, Unposted
  <2>3. rows'[r] = IF r[2] \in deleted THEN NoRow ELSE rows[r]
    BY DEF DeleteEvents
  <2>4. posts[r] + Unposted(r) <= MaxAttempts
    BY <2>0, <2>2, SMTT(30) DEF RowInv, Delivery
  <2> QED BY <2>0, <2>1, <2>2, <2>3, <2>4, SMTT(30) DEF RowInv, NoRow
<1> QED BY <1>1, <1>2, <1>3 DEF NotificationsInv

(* A claim counts one attempt of the row it takes. *)
LEMMA ClaimInv ==
  ASSUME NotificationsInv, NEW r \in Row, ClaimNotificationDelivery(r)
  PROVE  NotificationsInv'
<1> USE AttemptsPositive, NotificationConstants
<1>0. rows[r] \in Delivery /\ rows[r].attempts < MaxAttempts
      /\ rows[r].status \in {"pending", "failed"} /\ RowInv(r) /\ worker.row = None
  BY DEF NotificationsInv, TypeOK, ClaimNotificationDelivery, Claimable, WorkerInv
<1>1. rows' = [rows EXCEPT ![r] = [status |-> "pending", attempts |-> rows[r].attempts + 1,
                                   due |-> TRUE, completed |-> rows[r].completed]]
  BY <1>0, SMTT(30) DEF ClaimNotificationDelivery, NotificationsInv, TypeOK, Delivery
<1>2. TypeOK'
  BY <1>0, <1>1, SMTT(30) DEF NotificationsInv, TypeOK, ClaimNotificationDelivery, Delivery, DeliveryStatus
<1>3. WorkerInv' /\ TestInv'
  BY <1>0 DEF NotificationsInv, WorkerInv, TestInv, ClaimNotificationDelivery, Row
<1>4. ASSUME NEW s \in Row PROVE RowInv(s)'
  <2>0. RowInv(s) /\ posts[s] \in Nat /\ rows[s] \in Delivery /\ worker.row # s
    BY <1>0 DEF NotificationsInv, TypeOK, Row
  <2>1. posts' = posts /\ events' = events /\ Unposted(s) = 0
        /\ Unposted(s)' = (IF s = r THEN 1 ELSE 0) /\ worker'.row = r
    BY <2>0 DEF ClaimNotificationDelivery, Unposted
  <2>2. CASE s = r
    <3>1. events[s[2]] \notin {"none", "deleted"}
      BY <1>0, <2>2 DEF RowInv
    <3>2. rows'[s].status = "pending" /\ rows'[s].attempts = rows[s].attempts + 1
      BY <1>1, <2>2 DEF NotificationsInv, TypeOK
    <3> QED BY <1>0, <2>0, <2>1, <2>2, <3>1, <3>2, SMTT(30) DEF RowInv, Delivery
  <2>3. CASE s # r
    <3>1. rows'[s] = rows[s] BY <1>1, <2>3 DEF NotificationsInv, TypeOK
    <3> QED BY <2>0, <2>1, <2>3, <3>1 DEF RowInv
  <2> QED BY <2>2, <2>3
<1> QED BY <1>2, <1>3, <1>4 DEF NotificationsInv

(* A post counts for the row the worker has claimed. *)
LEMMA PostInv ==
  ASSUME NotificationsInv, Post
  PROVE  NotificationsInv'
<1> USE AttemptsPositive, NotificationConstants
<1>0. worker.row \in Row /\ worker.pc = "post"
  BY DEF Post, NotificationsInv, TypeOK, WorkerInv
<1>1. PICK ok \in BOOLEAN, k \in {0, 1} :
        /\ ok => k = 1
        /\ posts' = [posts EXCEPT ![worker.row] = @ + k]
        /\ worker' = [worker EXCEPT !.pc = "finish", !.ok = ok]
  BY DEF Post
<1>2. worker' = [pc |-> "finish", row |-> worker.row, ok |-> ok]
  BY <1>1 DEF NotificationsInv, TypeOK
<1>3. TypeOK'
  BY <1>0, <1>1, <1>2, SMTT(30) DEF NotificationsInv, TypeOK, Post
<1>4. WorkerInv' /\ TestInv'
  BY <1>0, <1>1, <1>2, SMTT(30) DEF NotificationsInv, WorkerInv, TestInv, TypeOK, Post, Row
<1>5. ASSUME NEW r \in Row PROVE RowInv(r)'
  <2>0. RowInv(r) /\ posts[r] \in Nat /\ rows[r] \in Delivery
    BY DEF NotificationsInv, TypeOK
  <2>1. rows' = rows /\ events' = events /\ worker'.row = worker.row /\ Unposted(r)' = 0
    BY <1>2 DEF Post, Unposted
  <2>2. CASE r = worker.row
    <3>1. posts'[r] = posts[r] + k /\ Unposted(r) = 1
      BY <1>0, <1>1, <2>2 DEF NotificationsInv, TypeOK, Unposted
    <3> QED BY <1>0, <1>1, <2>0, <2>1, <2>2, <3>1, SMTT(30) DEF RowInv, Delivery
  <2>3. CASE r # worker.row
    <3>1. posts'[r] = posts[r] /\ Unposted(r) = 0
      BY <1>0, <1>1, <2>3 DEF NotificationsInv, TypeOK, Unposted
    <3> QED BY <2>0, <2>1, <2>3, <3>1 DEF RowInv
  <2> QED BY <2>2, <2>3
<1> QED BY <1>3, <1>4, <1>5 DEF NotificationsInv

\* The update leaves a deleted row alone and never counts or clears attempts.
LEMMA FinishedRow ==
  ASSUME NEW row \in Delivery, row.status = "pending", NEW ok \in BOOLEAN
  PROVE  /\ Finished(row, ok) \in Delivery
         /\ Finished(row, ok).attempts = row.attempts
         /\ Finished(row, ok).status = IF ok THEN "succeeded" ELSE "failed"
<1> USE AttemptsPositive
<1>1. row.attempts >= MaxAttempts \/ row.completed \in BOOLEAN
  BY DEF Delivery
<1>2. CASE ok BY <1>2 DEF Finished, Delivery, DeliveryStatus
<1>3. CASE ~ok
  <2>1. Finished(row, ok) =
          [row EXCEPT !.status = "failed", !.due = row.attempts >= MaxAttempts,
                      !.completed = row.attempts >= MaxAttempts \/ @]
    BY <1>3 DEF Finished
  <2>2. (row.attempts >= MaxAttempts) \in BOOLEAN
        /\ (row.attempts >= MaxAttempts \/ row.completed) \in BOOLEAN
    BY SMTT(30) DEF Delivery
  <2> QED BY <1>3, <2>1, <2>2 DEF Delivery, DeliveryStatus
<1> QED BY <1>2, <1>3

(* The outcome is written only to the row still claimed. *)
LEMMA FinishInv ==
  ASSUME NotificationsInv, FinishNotificationDelivery
  PROVE  NotificationsInv'
<1> USE AttemptsPositive, NotificationConstants
<1>0. worker.row \in Row /\ worker.pc = "finish" /\ worker.ok \in BOOLEAN
      /\ RowInv(worker.row) /\ rows[worker.row] \in Delivery
  BY DEF FinishNotificationDelivery, NotificationsInv, TypeOK, WorkerInv
<1>1. \A r \in Row : r # worker.row => rows'[r] = rows[r]
  BY <1>0 DEF FinishNotificationDelivery, NotificationsInv, TypeOK
<1>2. \/ rows'[worker.row] = rows[worker.row]
      \/ /\ rows[worker.row].status = "pending"
         /\ rows'[worker.row] = Finished(rows[worker.row], worker.ok)
  <2>1. rows[worker.row] # NoRow => rows[worker.row].status = "pending"
    BY <1>0 DEF RowInv
  <2> QED BY <1>0, <2>1 DEF FinishNotificationDelivery, NotificationsInv, TypeOK
<1>3. rows'[worker.row] \in Delivery /\ rows'[worker.row].attempts = rows[worker.row].attempts
      /\ (rows'[worker.row] = rows[worker.row]
           \/ (rows[worker.row].status = "pending" /\ rows'[worker.row].status =
                 IF worker.ok THEN "succeeded" ELSE "failed"))
  BY <1>0, <1>2, FinishedRow, SMTT(30)
<1>4. TypeOK'
  <2>1. rows' \in [Row -> Delivery]
    BY <1>0, <1>3 DEF FinishNotificationDelivery, NotificationsInv, TypeOK
  <2> QED BY <2>1 DEF FinishNotificationDelivery, NotificationsInv, TypeOK, Idle
<1>5. WorkerInv' /\ TestInv'
  BY DEF FinishNotificationDelivery, NotificationsInv, WorkerInv, TestInv, Idle
<1>6. ASSUME NEW r \in Row PROVE RowInv(r)'
  <2>0. RowInv(r) /\ posts[r] \in Nat /\ worker'.row # r
    BY DEF NotificationsInv, TypeOK, FinishNotificationDelivery, Idle, Row
  <2>1. posts' = posts /\ events' = events /\ Unposted(r) = 0 /\ Unposted(r)' = 0
    BY <1>0 DEF FinishNotificationDelivery, Unposted, Idle
  <2>2. CASE r = worker.row
    <3>1. worker.ok => posts[r] > 0
      BY <1>0, <2>2 DEF NotificationsInv, WorkerInv
    <3> QED BY <1>0, <1>3, <2>0, <2>1, <2>2, <3>1 DEF RowInv
  <2>3. CASE r # worker.row
    BY <1>1, <2>0, <2>1, <2>3 DEF RowInv
  <2> QED BY <2>2, <2>3
<1> QED BY <1>4, <1>5, <1>6 DEF NotificationsInv

(* A deadline that passes makes a row due and nothing more. *)
LEMMA DeadlineInv ==
  ASSUME NotificationsInv, NEW r \in Row, DeadlinePasses(r)
  PROVE  NotificationsInv'
<1>0. rows[r] \in Delivery /\ rows' = [rows EXCEPT ![r] = [rows[r] EXCEPT !.due = TRUE]]
  BY DEF DeadlinePasses, NotificationsInv, TypeOK
<1>1. [rows[r] EXCEPT !.due = TRUE] \in Delivery BY <1>0 DEF Delivery
<1>2. TypeOK'
  BY <1>0, <1>1, SMTT(30) DEF DeadlinePasses, NotificationsInv, TypeOK
<1>3. WorkerInv' /\ TestInv'
  BY DEF DeadlinePasses, NotificationsInv, WorkerInv, TestInv
<1>4. ASSUME NEW s \in Row PROVE RowInv(s)'
  <2>0. rows'[s].status = rows[s].status /\ rows'[s].attempts = rows[s].attempts
        /\ (rows[s].status = "none" => rows'[s] = rows[s])
    BY <1>0, SMTT(30) DEF NotificationsInv, TypeOK, Delivery, DeadlinePasses
  <2>1. posts' = posts /\ events' = events /\ worker' = worker /\ Unposted(s)' = Unposted(s)
    BY DEF DeadlinePasses, Unposted
  <2> QED BY <2>0, <2>1 DEF NotificationsInv, RowInv
<1> QED BY <1>2, <1>3, <1>4 DEF NotificationsInv

(* A test request writes nothing until it records its outcome. *)
LEMMA TestRequestInv ==
  ASSUME NotificationsInv, (\E c \in Channel : StartTest(c)) \/ PostTest \/ AbandonTest
  PROVE  NotificationsInv'
<1>1. UNCHANGED <<channels, policy, events, rows, maintenance, worker, posts>>
  BY DEF StartTest, PostTest, AbandonTest
<1>2. /\ test' \in [pc : {"none", "post", "record"}, channel : Channel \cup {None}, ok : BOOLEAN,
                    sent : {0, 1}]
      /\ TestInv'
  <2>1. CASE \E c \in Channel : StartTest(c)
    BY <2>1 DEF StartTest, NoTest, TestInv
  <2>2. CASE PostTest
    <3>1. test.pc # "none" /\ test.channel \in Channel
      BY <2>2 DEF PostTest, NotificationsInv, TestInv
    <3>2. PICK ok \in BOOLEAN, k \in {0, 1} :
            (ok => k = 1) /\ test' = [test EXCEPT !.pc = "record", !.ok = ok, !.sent = k]
      BY <2>2 DEF PostTest
    <3>3. test' = [pc |-> "record", channel |-> test.channel, ok |-> ok, sent |-> k]
      BY <3>2 DEF NotificationsInv, TypeOK
    <3> QED BY <3>1, <3>2, <3>3 DEF TestInv
  <2>3. CASE AbandonTest
    BY <2>3 DEF AbandonTest, NoTest, TestInv
  <2> QED BY <2>1, <2>2, <2>3
<1> QED BY <1>1, <1>2, SMTT(30) DEF NotificationsInv, TypeOK, WorkerInv, RowInv, Unposted

(* A recorded test is an event and a row that has had its first attempt. *)
LEMMA RecordTestInv ==
  ASSUME NotificationsInv, NEW e \in Event, RecordNotificationTest(e)
  PROVE  NotificationsInv'
<1> USE AttemptsPositive, NotificationConstants
<1> DEFINE t == <<test.channel, e>>
           new == [status |-> IF test.ok THEN "succeeded" ELSE "failed", attempts |-> 1,
                   due |-> TRUE, completed |-> TRUE]
<1>0. /\ test.channel \in Channel /\ t \in Row /\ test.sent \in {0, 1} /\ events[e] = "none"
      /\ test.ok \in BOOLEAN /\ (test.ok => test.sent = 1)
  BY DEF RecordNotificationTest, NotificationsInv, TestInv, TypeOK, Row
<1>1. /\ rows' = [rows EXCEPT ![t] = new] /\ posts' = [posts EXCEPT ![t] = test.sent]
      /\ events' = [events EXCEPT ![e] = "notification.test"]
      /\ UNCHANGED <<channels, policy, maintenance, worker>> /\ test' = NoTest
  BY DEF RecordNotificationTest
<1>2. new \in Delivery
  BY <1>0, SMTT(30) DEF Delivery, DeliveryStatus
<1>3. TypeOK'
  <2>1. rows' \in [Row -> Delivery] /\ posts' \in [Row -> Nat] /\ events' \in [Event -> EventRow]
    BY <1>0, <1>1, <1>2, SMTT(30) DEF NotificationsInv, TypeOK, EventRow
  <2> HIDE DEF t, new
  <2> QED BY <1>1, <2>1 DEF NotificationsInv, TypeOK, NoTest
<1>4. worker.row # t
  BY <1>0 DEF NotificationsInv, RowInv
<1>5. WorkerInv'
  <2>1. worker.row \in Row => posts'[worker.row] = posts[worker.row]
    BY <1>0, <1>1, <1>4 DEF NotificationsInv, TypeOK
  <2>2. worker.pc # "idle" => worker.row \in Row
    BY DEF NotificationsInv, WorkerInv, TypeOK
  <2> QED BY <1>1, <2>1, <2>2 DEF NotificationsInv, WorkerInv
<1>6. TestInv'
  BY <1>1 DEF TestInv, NoTest
<1>7. ASSUME NEW r \in Row PROVE RowInv(r)'
  <2>0. RowInv(r) /\ posts[r] \in Nat /\ rows[r] \in Delivery
    BY DEF NotificationsInv, TypeOK
  <2>1. Unposted(r)' = Unposted(r) /\ worker' = worker
    BY <1>1 DEF Unposted
  <2>2. CASE r = t
    <3>1. rows'[r] = new /\ posts'[r] = test.sent /\ events'[r[2]] = "notification.test"
          /\ Unposted(r) = 0
      BY <1>0, <1>1, <1>4, <2>2 DEF NotificationsInv, TypeOK, Unposted
    <3> QED BY <1>0, <1>4, <2>1, <2>2, <3>1, SMTT(30) DEF RowInv
  <2>3. CASE r # t
    <3>1. rows'[r] = rows[r] /\ posts'[r] = posts[r]
      BY <1>0, <1>1, <2>3 DEF NotificationsInv, TypeOK
    <3>2. events'[r[2]] = events[r[2]] \/ (r[2] = e /\ events'[r[2]] = "notification.test")
      BY <1>1 DEF NotificationsInv, TypeOK, Row
    <3> QED BY <2>0, <2>1, <3>1, <3>2 DEF RowInv
  <2> QED BY <2>2, <2>3
<1> QED BY <1>3, <1>5, <1>6, <1>7 DEF NotificationsInv

(* A restart loses the worker's memory and keeps the rows. *)
LEMMA RestartInv ==
  ASSUME NotificationsInv, Restart
  PROVE  NotificationsInv'
<1> USE AttemptsPositive, NotificationConstants
<1>1. worker' = Idle /\ test' = NoTest
      /\ UNCHANGED <<channels, policy, events, rows, maintenance, posts>>
  BY DEF Restart
<1>2. TypeOK' /\ WorkerInv' /\ TestInv'
  BY <1>1 DEF NotificationsInv, TypeOK, WorkerInv, TestInv, Idle, NoTest
<1>3. ASSUME NEW r \in Row PROVE RowInv(r)'
  <2>1. RowInv(r) /\ posts[r] \in Nat /\ rows[r] \in Delivery /\ Unposted(r) \in {0, 1}
    BY DEF NotificationsInv, TypeOK, Unposted
  <2>2. Unposted(r)' = 0 /\ worker'.row # r
    BY <1>1 DEF Unposted, Idle, Row
  <2> QED BY <1>1, <2>1, <2>2, SMTT(30) DEF RowInv, Delivery
<1> QED BY <1>2, <1>3 DEF NotificationsInv

(* Every step keeps the invariant. *)
LEMMA NextInv == NotificationsInv /\ [Next]_vars => NotificationsInv'
<1> SUFFICES ASSUME NotificationsInv, [Next]_vars PROVE NotificationsInv'
  OBVIOUS
<1>1. CASE UNCHANGED vars
  BY <1>1, SMTT(30) DEF vars, NotificationsInv, TypeOK, WorkerInv, TestInv, RowInv, Unposted
<1>2. CASE \E c \in Channel : SaveNotificationChannel(c) \/ DeleteNotificationChannel(c)
  BY <1>2, ChannelInv
<1>3. CASE UpdateNotificationPolicy \/ SetMaintenance
  BY <1>3, SettingInv
<1>4. CASE \E e \in Event : \E type \in EventType : RecordHAEvent(e, type)
  BY <1>4, RecordHAEventInv
<1>5. CASE ClearOperationalHistory \/ \E e \in Event : PruneOperationalHistory(e)
  BY <1>5, DeleteEventsInv DEF ClearOperationalHistory, PruneOperationalHistory
<1>6. CASE Work
  BY <1>6, ClaimInv, PostInv, FinishInv DEF Work
<1>7. CASE \E r \in Row : DeadlinePasses(r)
  BY <1>7, DeadlineInv
<1>8. CASE (\E c \in Channel : StartTest(c)) \/ PostTest \/ AbandonTest
  BY <1>8, TestRequestInv
<1>9. CASE \E e \in Event : RecordNotificationTest(e)
  BY <1>9, RecordTestInv
<1>10. CASE Restart
  BY <1>10, RestartInv
<1> QED
  BY <1>1, <1>2, <1>3, <1>4, <1>5, <1>6, <1>7, <1>8, <1>9, <1>10 DEF Next

\* NotificationsInv holds in every reachable state.
THEOREM Invariance == Spec => []NotificationsInv
  BY InitInv, NextInv, PTL DEF Spec

\* Deliveries are posted at most MaxAttempts times, and the final statuses tell
\* whether one was posted, across crashes and lost updates.
THEOREM PostsBounded == Spec => []PostsMatchRows
<1>1. NotificationsInv => PostsMatchRows
  <2> SUFFICES ASSUME NotificationsInv, NEW r \in Row
               PROVE  /\ posts[r] <= MaxAttempts
                      /\ rows[r].status = "succeeded" => posts[r] > 0
                      /\ rows[r].status = "suppressed" => posts[r] = 0
    BY DEF PostsMatchRows
  <2>1. RowInv(r) /\ posts[r] \in Nat /\ rows[r].attempts \in 0 .. MaxAttempts
        /\ Unposted(r) \in {0, 1}
    BY DEF NotificationsInv, TypeOK, Delivery, Unposted
  <2> QED BY <2>1, AttemptsPositive, SMTT(30) DEF RowInv
<1> QED BY <1>1, Invariance, PTL

-----------------------------------------------------------------------------
\* What one row of the outbox may do in a step.
OutboxStep(r) ==
  \/ Deliveries!Queue(r) \/ Deliveries!Suppress(r) \/ Deliveries!Record(r)
  \/ Deliveries!Attempt(r) \/ Deliveries!Deliver(r) \/ Deliveries!Fail(r)
  \/ Deliveries!Drop(r) \/ Deliveries!Keep(r)
SentRow(r) ==
  rows[r].status \in {"succeeded", "suppressed"} =>
    posts'[r] = posts[r] /\ rows'[r] \in {rows[r], NoRow}

(* What the outbox shows of a row before and after a step. *)
LEMMA Shown ==
  ASSUME NEW r \in Row
  PROVE  /\ OutboxState[r] = Standing(r) /\ OutboxTries[r] = rows[r].attempts
         /\ OutboxState'[r] = Standing(r)' /\ OutboxTries'[r] = rows'[r].attempts
BY DEF OutboxState, OutboxTries

(* A row whose status, attempts, event and claim stay is no step of the    *)
(* outbox.                                                                 *)
LEMMA RowKept ==
  ASSUME NEW r \in Row, rows'[r].status = rows[r].status, rows'[r].attempts = rows[r].attempts,
         events'[r[2]] = "deleted" <=> events[r[2]] = "deleted",
         worker'.row = r <=> worker.row = r
  PROVE  OutboxStep(r)
<1>1. Standing(r)' = Standing(r)
  BY DEF Standing
<1> QED BY <1>1, Shown DEF OutboxStep, Deliveries!Keep

(* Nor is a step that touches neither rows, events, worker nor posts. *)
LEMMA QuietStep ==
  ASSUME NEW r \in Row, UNCHANGED <<events, rows, worker, posts>>
  PROVE  OutboxStep(r) /\ SentRow(r)
BY RowKept DEF SentRow

(* A recorded event enqueues its rows in the outbox. *)
LEMMA RecordStep ==
  ASSUME NotificationsInv, NEW e \in Event, NEW type \in EventType, RecordHAEvent(e, type),
         NEW r \in Row
  PROVE  OutboxStep(r) /\ SentRow(r)
<1> USE AttemptsPositive
<1>0. RowInv(r) /\ r[2] \in Event /\ worker' = worker /\ posts' = posts /\ type # "deleted"
  BY EventTypesKnown, SMTT(30) DEF NotificationsInv, Row, RecordHAEvent, Categories
<1>1. CASE rows'[r] = rows[r]
  <2>1. events'[r[2]] = "deleted" <=> events[r[2]] = "deleted"
    BY <1>0 DEF RecordHAEvent, NotificationsInv, TypeOK
  <2> QED BY <1>0, <1>1, <2>1, RowKept DEF SentRow
<1>2. CASE rows'[r] # rows[r]
  <2>1. /\ r[2] = e /\ events[e] = "none" /\ events'[e] = type
        /\ rows'[r].status \in {"pending", "suppressed"} /\ rows'[r].attempts = 0
    BY <1>0, <1>2 DEF RecordHAEvent, notificationDeliveryDisposition, NotificationsInv, TypeOK
  <2>2. rows[r].status = "none" /\ worker.row # r
    BY <1>0, <2>1 DEF RowInv
  <2>3. Standing(r) = "absent"
        /\ Standing(r)' = IF rows'[r].status = "pending" THEN "open" ELSE "suppressed"
    BY <1>0, <2>1, <2>2, SMTT(30) DEF Standing
  <2> QED
    BY <2>1, <2>2, <2>3, Shown DEF OutboxStep, SentRow, Deliveries!Queue, Deliveries!Suppress
<1> QED BY <1>1, <1>2

(* Deleting an event removes its rows from the outbox. *)
LEMMA DeleteStep ==
  ASSUME NotificationsInv, NEW deleted \in SUBSET StoredEvents, DeleteEvents(deleted), NEW r \in Row
  PROVE  OutboxStep(r) /\ SentRow(r)
<1>0. r[2] \in Event /\ worker' = worker /\ posts' = posts
  BY DEF Row, DeleteEvents
<1>1. CASE r[2] \in deleted
  <2>1. rows'[r] = NoRow /\ events'[r[2]] = "deleted"
    BY <1>0, <1>1 DEF DeleteEvents
  <2>2. Standing(r)' = "dropped" /\ rows'[r].attempts = 0
    BY <2>1, SMTT(30) DEF Standing, NoRow
  <2> QED BY <1>0, <2>1, <2>2, Shown DEF OutboxStep, SentRow, Deliveries!Drop
<1>2. CASE r[2] \notin deleted
  BY <1>0, <1>2, RowKept DEF DeleteEvents, SentRow
<1> QED BY <1>1, <1>2

(* A claim is the outbox's attempt at one row. *)
LEMMA ClaimStep ==
  ASSUME NotificationsInv, NEW q \in Row, ClaimNotificationDelivery(q), NEW r \in Row
  PROVE  OutboxStep(r) /\ SentRow(r)
<1> USE AttemptsPositive, NotificationConstants
<1>0. RowInv(r) /\ RowInv(q) /\ rows[q] \in Delivery /\ worker.row = None /\ worker'.row = q
      /\ r # None /\ events' = events /\ posts' = posts
  BY DEF NotificationsInv, TypeOK, WorkerInv, ClaimNotificationDelivery, Row
<1>1. CASE r = q
  <2>1. /\ rows[r].status \in {"pending", "failed"} /\ rows[r].attempts < MaxAttempts
        /\ rows'[r].status = "pending" /\ rows'[r].attempts = rows[r].attempts + 1
    BY <1>0, <1>1 DEF ClaimNotificationDelivery, Claimable, NotificationsInv, TypeOK, Delivery
  <2>2. events[r[2]] # "deleted"
    BY <1>0, <2>1 DEF RowInv
  <2>3. Standing(r) = "open" /\ Standing(r)' = "sending"
    BY <1>0, <1>1, <2>1, <2>2 DEF Standing
  <2> QED BY <2>1, <2>3, Shown DEF OutboxStep, SentRow, Deliveries!Attempt
<1>2. CASE r # q
  <2>1. rows'[r] = rows[r]
    BY <1>2 DEF ClaimNotificationDelivery, NotificationsInv, TypeOK
  <2> QED BY <1>0, <1>2, <2>1, RowKept DEF SentRow
<1> QED BY <1>1, <1>2

(* A post leaves the row where it stands, and counts against it. *)
LEMMA PostStep ==
  ASSUME NotificationsInv, Post, NEW r \in Row
  PROVE  OutboxStep(r) /\ SentRow(r)
<1>1. rows' = rows /\ events' = events /\ worker'.row = worker.row
  BY DEF Post, NotificationsInv, TypeOK
<1>2. worker.row \in Row /\ RowInv(r)
  BY DEF Post, NotificationsInv, TypeOK, WorkerInv
<1>3. SentRow(r)
  <2>1. CASE r = worker.row BY <1>2, <2>1 DEF RowInv, SentRow
  <2>2. CASE r # worker.row
    BY <1>1, <1>2, <2>2 DEF SentRow, Post, NotificationsInv, TypeOK
  <2> QED BY <2>1, <2>2
<1> QED BY <1>1, <1>3, RowKept

\* The worker's row is left by a stored result, a lost one or a crash.
LEMMA Abandoned ==
  ASSUME NotificationsInv, NEW r \in Row, worker.row = r, worker'.row # r, events' = events,
         rows'[r].attempts = rows[r].attempts,
         rows'[r].status \in {rows[r].status, "failed"},
         rows[r].status = "none" => rows'[r].status = "none"
  PROVE  OutboxStep(r)
<1>0. RowInv(r) BY DEF NotificationsInv
<1>1. CASE rows[r].status = "none"
  <2>1. Standing(r)' = Standing(r) BY <1>1 DEF Standing
  <2> QED BY <2>1, Shown DEF OutboxStep, Deliveries!Keep
<1>2. CASE rows[r].status # "none"
  <2>1. events[r[2]] # "deleted" /\ rows[r].status = "pending"
    BY <1>0, <1>2 DEF RowInv
  <2>2. /\ Standing(r) = "sending"
        /\ Standing(r)' = IF rows[r].attempts < MaxAttempts THEN "open" ELSE "spent"
    BY <2>1 DEF Standing
  <2> QED BY <2>2, Shown DEF OutboxStep, Deliveries!Fail, Deliveries!AfterFailure
<1> QED BY <1>1, <1>2

(* The outcome settles or requeues the claimed row only. *)
LEMMA FinishStep ==
  ASSUME NotificationsInv, FinishNotificationDelivery, NEW r \in Row
  PROVE  OutboxStep(r) /\ SentRow(r)
<1> USE NotificationConstants
<1>0. /\ worker.row \in Row /\ worker.ok \in BOOLEAN /\ rows[r] \in Delivery /\ RowInv(r)
      /\ worker'.row # r /\ events' = events /\ posts' = posts
  BY DEF FinishNotificationDelivery, NotificationsInv, TypeOK, WorkerInv, Idle, Row
<1>1. CASE r # worker.row
  <2>1. rows'[r] = rows[r]
    BY <1>0, <1>1 DEF FinishNotificationDelivery, NotificationsInv, TypeOK
  <2> QED BY <1>0, <1>1, <2>1, RowKept DEF SentRow
<1>2. CASE r = worker.row /\ rows'[r] = rows[r]
  BY <1>0, <1>2, Abandoned DEF SentRow
<1>3. CASE r = worker.row /\ rows'[r] # rows[r]
  <2>1. rows[r] # NoRow /\ rows'[r] = Finished(rows[r], worker.ok)
    BY <1>0, <1>3 DEF FinishNotificationDelivery, NotificationsInv, TypeOK
  <2>2. rows[r].status = "pending" /\ events[r[2]] # "deleted"
    BY <1>0, <1>3, <2>1 DEF RowInv
  <2>3. /\ rows'[r].attempts = rows[r].attempts
        /\ rows'[r].status = IF worker.ok THEN "succeeded" ELSE "failed"
    BY <1>0, <2>1, <2>2, FinishedRow, SMTT(30)
  <2>4. CASE worker.ok
    <3>1. Standing(r) = "sending" /\ Standing(r)' = "delivered"
      BY <1>0, <1>3, <2>2, <2>3, <2>4 DEF Standing
    <3> QED BY <2>2, <2>3, <3>1, Shown DEF OutboxStep, SentRow, Deliveries!Deliver
  <2>5. CASE ~worker.ok
    BY <1>0, <1>3, <2>2, <2>3, <2>5, Abandoned DEF SentRow
  <2> QED BY <1>0, <2>4, <2>5
<1> QED BY <1>1, <1>2, <1>3

(* A passing deadline is not seen in the outbox. *)
LEMMA DeadlineStep ==
  ASSUME NotificationsInv, NEW q \in Row, DeadlinePasses(q), NEW r \in Row
  PROVE  OutboxStep(r) /\ SentRow(r)
<1>1. rows'[r].status = rows[r].status /\ rows'[r].attempts = rows[r].attempts
      /\ (rows[r].status # "failed" => rows'[r] = rows[r])
  BY SMTT(30) DEF DeadlinePasses, NotificationsInv, TypeOK, Delivery
<1>2. events' = events /\ worker' = worker /\ posts' = posts
  BY DEF DeadlinePasses
<1> QED BY <1>1, <1>2, RowKept DEF SentRow

(* A recorded test enters the outbox with its first attempt. *)
LEMMA RecordTestStep ==
  ASSUME NotificationsInv, NEW e \in Event, RecordNotificationTest(e), NEW r \in Row
  PROVE  OutboxStep(r) /\ SentRow(r)
<1> USE AttemptsPositive
<1> DEFINE t == <<test.channel, e>>
<1>0. t \in Row /\ RowInv(r) /\ events[e] = "none" /\ worker' = worker /\ test.ok \in BOOLEAN
  BY DEF RecordNotificationTest, NotificationsInv, TestInv, TypeOK, Row
<1>1. CASE r = t
  <2>1. /\ rows'[r].status = (IF test.ok THEN "succeeded" ELSE "failed")
        /\ rows'[r].attempts = 1 /\ events'[r[2]] = "notification.test"
    BY <1>0, <1>1 DEF RecordNotificationTest, NotificationsInv, TypeOK
  <2>2. rows[r].status = "none" /\ events[r[2]] = "none" /\ worker.row # r
    BY <1>0, <1>1 DEF RowInv
  <2>3. /\ Standing(r) = "absent"
        /\ Standing(r)' = IF test.ok THEN "delivered"
                          ELSE IF 1 < MaxAttempts THEN "open" ELSE "spent"
    BY <1>0, <2>1, <2>2 DEF Standing
  <2> HIDE DEF t
  <2> QED
    BY <2>1, <2>2, <2>3, Shown DEF OutboxStep, SentRow, Deliveries!Record, Deliveries!AfterFailure
<1>2. CASE r # t
  <2>1. rows'[r] = rows[r] /\ posts'[r] = posts[r]
    BY <1>0, <1>2 DEF RecordNotificationTest, NotificationsInv, TypeOK
  <2>2. events'[r[2]] = "deleted" <=> events[r[2]] = "deleted"
    BY <1>0 DEF RecordNotificationTest, NotificationsInv, TypeOK, Row
  <2> QED BY <1>0, <2>1, <2>2, RowKept DEF SentRow
<1> QED BY <1>1, <1>2

(* A restart fails the attempt the worker was at. *)
LEMMA RestartStep ==
  ASSUME NotificationsInv, Restart, NEW r \in Row
  PROVE  OutboxStep(r) /\ SentRow(r)
<1>1. worker'.row # r /\ UNCHANGED <<events, rows, posts>>
  BY NotificationConstants DEF Restart, Idle, Row
<1>2. CASE worker.row = r BY <1>1, <1>2, Abandoned DEF SentRow
<1>3. CASE worker.row # r BY <1>1, <1>3, RowKept DEF SentRow
<1> QED BY <1>2, <1>3

(* Every step is, for every row, a step of the outbox or a stutter. *)
LEMMA RowStep ==
  ASSUME NotificationsInv, [Next]_vars, NEW r \in Row
  PROVE  OutboxStep(r) /\ SentRow(r)
<1>1. CASE UNCHANGED vars
  BY <1>1, QuietStep DEF vars
<1>2. CASE \E c \in Channel : SaveNotificationChannel(c) \/ DeleteNotificationChannel(c)
  BY <1>2, QuietStep DEF SaveNotificationChannel, DeleteNotificationChannel
<1>3. CASE UpdateNotificationPolicy \/ SetMaintenance
  BY <1>3, QuietStep DEF UpdateNotificationPolicy, SetMaintenance
<1>4. CASE \E e \in Event : \E type \in EventType : RecordHAEvent(e, type)
  BY <1>4, RecordStep
<1>5. CASE ClearOperationalHistory \/ \E e \in Event : PruneOperationalHistory(e)
  BY <1>5, DeleteStep DEF ClearOperationalHistory, PruneOperationalHistory
<1>6. CASE Work
  BY <1>6, ClaimStep, PostStep, FinishStep DEF Work
<1>7. CASE \E q \in Row : DeadlinePasses(q)
  BY <1>7, DeadlineStep
<1>8. CASE (\E c \in Channel : StartTest(c)) \/ PostTest \/ AbandonTest
  BY <1>8, QuietStep DEF StartTest, PostTest, AbandonTest
<1>9. CASE \E e \in Event : RecordNotificationTest(e)
  BY <1>9, RecordTestStep
<1>10. CASE Restart
  BY <1>10, RestartStep
<1> QED
  BY <1>1, <1>2, <1>3, <1>4, <1>5, <1>6, <1>7, <1>8, <1>9, <1>10 DEF Next

\* A delivery recorded as sent is neither posted nor rewritten again.
THEOREM SentOnce == Spec => SentIsFinal
<1>1. NotificationsInv /\ [Next]_vars => [SentStep]_vars
  BY RowStep DEF SentStep, SentRow
<1> QED BY <1>1, Invariance, PTL DEF Spec, SentIsFinal

\* The delivery table implements the outbox: every step of every actor is a
\* step of the outbox or leaves it alone.
THEOREM RefinesOutbox == Spec => ImplementsOutbox
<1>1. Init => Deliveries!Init
  <2> SUFFICES ASSUME Init PROVE Deliveries!Init OBVIOUS
  <2>1. ASSUME NEW r \in Row PROVE Standing(r) = "absent" /\ rows[r].attempts = 0
    BY DEF Init, Standing, NoRow, Row
  <2> QED BY <2>1 DEF Deliveries!Init, OutboxState, OutboxTries
<1>2. NotificationsInv /\ [Next]_vars => [Deliveries!Next]_<<OutboxState, OutboxTries>>
  BY RowStep DEF OutboxStep, Deliveries!Next
<1> QED BY <1>1, <1>2, Invariance, PTL DEF Spec, ImplementsOutbox, Deliveries!Spec

=============================================================================
