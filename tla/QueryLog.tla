------------------------------ MODULE QueryLog ------------------------------
(***************************************************************************)
(* Collection of one node's query log: the scheduled pass and requested    *)
(* passes page backwards through the log, store what they read, move the   *)
(* checkpoint and report gaps; retention removes what is old.              *)
(*                                                                         *)
(* Sources: internal/jobs/querylog.go, internal/database/querylog.go,      *)
(* internal/adguard/querylog.go, internal/querylog/{models,service}.go.    *)
(*                                                                         *)
(* An entry of the log is its timestamp, so its fingerprint is too, and no *)
(* two entries are alike.  A pass is one step per query of the database or *)
(* call of the node.  The node and its log are external.                   *)
(***************************************************************************)
EXTENDS Integers, FiniteSets, FiniteSetsExt

CONSTANTS
  MaxTime,                   \* bound on timestamps
  PageSize, MaxPages,        \* 500 and 20 in the code
  Overlap,                   \* two poll intervals, at least two minutes
  Retention, CleanupLimit,   \* age of an expired event; rows one cleanup deletes
  MaxChanges,                \* bound on changes of the node, failures and requested passes
  Worker, Requested,         \* the scheduled pass, and requested ones
  None

Time == 1 .. MaxTime
Pass == {Worker} \cup Requested

ASSUME QueryLogConstants ==
  /\ MaxTime \in Nat \ {0}
  /\ {PageSize, MaxPages, Overlap, CleanupLimit} \subseteq Nat \ {0}
  /\ Retention \in Nat /\ MaxChanges \in Nat /\ None \notin Int

VARIABLES
  now,         \* the node's clock
  logged,      \* every entry the node ever logged
  malformed,   \* those the adapter cannot normalise
  log,         \* the entries it still has
  state,       \* what the node, or the setting, lets a pass do
  stored,      \* query_events of the node
  checkpoint,  \* query_ingestion_checkpoints of the node
  pass,        \* passes in flight
  reported,    \* entries that were on the node when a gap was recorded
  changes

vars == <<now, logged, malformed, log, state, stored, checkpoint, pass, reported, changes>>
node == <<now, logged, malformed, log, state>>
tables == <<stored, checkpoint, reported>>

Refusal == {"maintenance", "unsupported", "logging_disabled", "failed"}
State == {"ready", "paused"} \cup Refusal
NoPass == [at |-> "idle", mark |-> None, read |-> {}, pages |-> 0, cursor |-> None, end |-> "none",
           gap |-> FALSE, status |-> "none", logging |-> None, succeeded |-> FALSE]
PassRow ==
  [at : {"idle", "config", "page", "record", "cleanup"}, mark : Time \cup {None}, read : SUBSET Time,
   pages : 0 .. MaxPages, cursor : Time \cup {None},
   end : {"none", "exhausted", "crossed", "truncated", "stalled"}, gap : BOOLEAN,
   status : {"none", "succeeded"} \cup Refusal, logging : BOOLEAN \cup {None}, succeeded : BOOLEAN]
NoCheckpoint == [mark |-> None, status |-> "none", gap |-> FALSE, logging |-> None, succeeded |-> FALSE]

TypeOK ==
  /\ now \in 0 .. MaxTime /\ log \subseteq logged /\ malformed \subseteq logged
  /\ logged \subseteq Time /\ state \in State
  /\ stored \subseteq logged \ malformed /\ reported \subseteq logged
  /\ checkpoint \in [mark : Time \cup {None}, status : {"none", "succeeded"} \cup Refusal,
                     gap : BOOLEAN, logging : BOOLEAN \cup {None}, succeeded : BOOLEAN]
  /\ pass \in [Pass -> PassRow] /\ \A p \in Pass : pass[p].read \subseteq logged \ malformed
  /\ changes \in 0 .. MaxChanges

Init ==
  /\ now = 1 /\ logged = {1} /\ malformed = {} /\ log = {1} /\ state \in State
  /\ stored = {} /\ checkpoint = NoCheckpoint /\ reported = {}
  /\ pass = [p \in Pass |-> NoPass] /\ changes = 0

-----------------------------------------------------------------------------
\* The node

Change == changes < MaxChanges /\ changes' = changes + 1
\* An entry is logged when its answer is sent, so it can be older than others,
\* but not older than what the node has dropped.
Log(t) ==
  /\ state # "logging_disabled" /\ t \in Time \ logged /\ \A e \in logged \ log : e < t
  /\ t >= now - Overlap /\ t <= now + 2
  /\ logged' = logged \cup {t} /\ log' = log \cup {t} /\ now' = Max({now, t})
  /\ \/ UNCHANGED <<malformed, changes>>
     \/ malformed' = malformed \cup {t} /\ Change
  /\ UNCHANGED <<state, tables, pass>>
\* The node's own retention, or somebody clearing its log.
Forget(t) ==
  /\ t \in log /\ Change
  /\ log' = {e \in log : e > t}
  /\ UNCHANGED <<now, logged, malformed, state, tables, pass>>
Become(s) ==
  /\ s # state /\ Change
  /\ state' = s
  /\ UNCHANGED <<now, logged, malformed, log, tables, pass>>

\* The newest entries older than the cursor.
Page(cursor) ==
  LET older == {e \in log : cursor # None => e < cursor}
  IN  {e \in older : Cardinality({f \in older : f >= e}) <= PageSize}

-----------------------------------------------------------------------------
\* A pass over the node

Set(p, r) == pass' = [pass EXCEPT ![p] = r]
\* What RecordQueryLogPoll takes: how the pages were read no longer matters.
Outcome(r, status) == [r EXCEPT !.at = "record", !.status = status, !.pages = 0, !.cursor = None, !.end = "none"]
Refused(p, status) == Set(p, [Outcome(pass[p], status) EXCEPT !.read = {}])

\* The copy of the checkpoint a pass works on.
QueryLogCheckpoint ==
  [NoPass EXCEPT !.mark = checkpoint.mark, !.logging = checkpoint.logging,
                 !.succeeded = checkpoint.succeeded]
\* The node's row and the checkpoint.  A paused collection only cleans up.
BeginPass(p) ==
  /\ pass[p].at = "idle"
  /\ CASE state = "paused" -> p = Worker /\ Set(p, [NoPass EXCEPT !.at = "cleanup"])
       [] state \in {"maintenance", "unsupported"} -> Set(p, Outcome(QueryLogCheckpoint, state))
       [] OTHER -> Set(p, [QueryLogCheckpoint EXCEPT !.at = "config"])
  /\ IF p = Worker THEN UNCHANGED changes ELSE Change
  /\ UNCHANGED <<node, tables>>

\* Mutant: logging that is enabled again is not stored.
ReadConfigWhenEnabled(p) ==
  /\ pass[p].at = "config"
  /\ CASE state \in {"failed", "unsupported"} -> Refused(p, state)
       [] state = "logging_disabled" ->
            Set(p, [Outcome(pass[p], state) EXCEPT !.logging = FALSE])
       [] OTHER -> Set(p, [pass[p] EXCEPT !.at = "page"])
  /\ UNCHANGED <<node, tables, changes>>
ReadQueryLogConfig(p) ==
  /\ pass[p].at = "config"
  /\ CASE state \in {"failed", "unsupported"} -> Refused(p, state)
       [] state = "logging_disabled" ->
            Set(p, [Outcome(pass[p], state) EXCEPT !.logging = FALSE])
       [] OTHER -> Set(p, [pass[p] EXCEPT !.at = "page", !.logging = TRUE])
  /\ UNCHANGED <<node, tables, changes>>

\* Mutant: running out of pages is no gap.
AcceptQuietly(r, page) ==
  LET read == r.read \cup (page \ malformed)
      end == IF Cardinality(page) < PageSize THEN "exhausted"
             ELSE IF r.mark # None /\ read # {} /\ Min(read) < r.mark - Overlap THEN "crossed"
             ELSE IF r.pages + 1 = MaxPages THEN "truncated"
             ELSE "none"
  IN  [r EXCEPT !.read = read, !.pages = @ + 1, !.end = end,
                !.cursor = IF page = {} THEN @ ELSE Min(page),
                !.gap = @ \/ page \cap malformed # {}]
\* Adding a page to what was read, and whether that ends the reading: the log is
\* exhausted, the overlap before the watermark is crossed, or the pages run out.
Accept(r, page) ==
  LET read == r.read \cup (page \ malformed)
      end == IF Cardinality(page) < PageSize THEN "exhausted"
             ELSE IF r.mark # None /\ read # {} /\ Min(read) < r.mark - Overlap THEN "crossed"
             ELSE IF r.pages + 1 = MaxPages THEN "truncated"
             ELSE "none"
  IN  [r EXCEPT !.read = read, !.pages = @ + 1, !.end = end,
                !.cursor = IF page = {} THEN @ ELSE Min(page),
                !.gap = @ \/ page \cap malformed # {} \/ end = "truncated"]

\* Mutant: a log that was cut is not noticed.
NeverAmiss(r) == FALSE
\* What is amiss with the log as a whole, compared with the watermark.
Amiss(r) ==
  /\ r.mark # None
  /\ \/ r.read = {}
     \/ Max(r.read) < r.mark
     \/ r.end = "exhausted" /\ Min(r.read) > r.mark + Overlap
Advance(r) == IF r.read = {} THEN r.mark
              ELSE IF r.mark = None THEN Max(r.read) ELSE Max(r.read \cup {r.mark})
\* Entries on the node that a gap is recorded over.
Under(r) == {e \in log : e \in malformed \/ (r.read # {} => e <= Max(r.read))}
Conclude(r) ==
  IF r.end = "none" THEN r
  ELSE [Outcome(r, "succeeded") EXCEPT !.gap = @ \/ Amiss(r)]

ReadPage(p) ==
  /\ pass[p].at = "page"
  /\ IF state \in {"failed", "unsupported"} THEN Refused(p, state)
     ELSE Set(p, Conclude(Accept(pass[p], Page(pass[p].cursor))))
  /\ UNCHANGED <<node, tables, changes>>
\* A node that answers without a cursor, or with the cursor it was given.
ReadWithoutCursor(p) ==
  /\ pass[p].at = "page" /\ state \notin {"failed", "unsupported"} /\ Change
  /\ LET page == Page(pass[p].cursor)
         r == Accept(pass[p], page)
     IN  /\ Cardinality(page) = PageSize
         /\ \/ Set(p, Conclude([r EXCEPT !.end = "stalled", !.gap = TRUE]))
            \/ /\ pass[p].cursor # None
               /\ Set(p, Conclude([pass[p] EXCEPT !.end = "stalled", !.gap = TRUE]))
  /\ UNCHANGED <<node, tables>>

\* Events that are there already are left alone; the checkpoint is overwritten,
\* also by a pass that read it before another pass wrote it.
RecordQueryLogPoll(p) ==
  LET r == pass[p]
      success == r.status = "succeeded"
  IN  /\ r.at = "record"
      /\ stored' = IF success THEN stored \cup r.read ELSE stored
      /\ checkpoint' = [mark |-> IF success THEN Advance(r) ELSE r.mark, status |-> r.status,
                        gap |-> r.gap, logging |-> r.logging, succeeded |-> success \/ r.succeeded]
      /\ reported' = IF success /\ r.gap THEN reported \cup Under(r) ELSE reported
      /\ Set(p, IF p = Worker THEN [NoPass EXCEPT !.at = "cleanup"] ELSE NoPass)
      /\ UNCHANGED <<node, changes>>

Expired(e) == e + Retention < now
\* Mutant: cleanup starts with the newest events.
CleanupNewestFirst ==
  stored' = {e \in stored : ~Expired(e) \/ Cardinality({f \in stored : f >= e}) > CleanupLimit}
CleanupQueryLog ==
  stored' = {e \in stored : ~Expired(e) \/ Cardinality({f \in stored : f <= e}) > CleanupLimit}
Cleanup(p) ==
  /\ pass[p].at = "cleanup"
  /\ CleanupQueryLog /\ Set(p, NoPass)
  /\ UNCHANGED <<node, checkpoint, reported, changes>>

\* A query fails, the request is cancelled, or the controller restarts.
PassFails(p) ==
  /\ pass[p].at # "idle" /\ Change
  /\ Set(p, NoPass)
  /\ UNCHANGED <<node, tables>>

Step(p) == BeginPass(p) \/ ReadQueryLogConfig(p) \/ ReadPage(p) \/ RecordQueryLogPoll(p) \/ Cleanup(p)
Next ==
  \/ \E t \in Time : Log(t) \/ Forget(t)
  \/ \E s \in State : Become(s)
  \/ \E p \in Pass : Step(p) \/ ReadWithoutCursor(p) \/ PassFails(p)

\* The worker polls on; a request runs to its end.
Fairness == \A p \in Pass : WF_vars(Step(p) /\ (pass[p].at = "idle" => p = Worker))
Spec == Init /\ [][Next]_vars /\ Fairness

-----------------------------------------------------------------------------
\* What the query log page says about the node

Coverage ==
  IF state = "paused" THEN "collection_disabled"
  ELSE IF state \in {"maintenance", "unsupported"} THEN state
  ELSE IF checkpoint = NoCheckpoint THEN "missing"
  ELSE IF checkpoint.logging = FALSE THEN "logging_disabled"
  ELSE IF checkpoint.status = "unsupported" THEN "unsupported"
  ELSE IF checkpoint.status = "failed" THEN "error"
  ELSE IF checkpoint.gap THEN "gap"
  ELSE IF ~checkpoint.succeeded THEN "stale"
  ELSE "current"

-----------------------------------------------------------------------------
\* Properties

\* An entry that is on the node and not stored is one that the next pass comes to,
\* unless a gap was recorded over it: no watermark, not even one written by a pass
\* that was overtaken, moves past an entry in silence.
NothingSkipped ==
  \A e \in log \ (stored \cup reported) :
    \/ Expired(e)
    \/ checkpoint.mark = None \/ e >= checkpoint.mark - Overlap

\* A pass that records success and no gap accounts for every entry the node ever
\* logged between the watermark it started from and the one it writes, give or
\* take the overlap at either end: an entry the node dropped before it was read
\* shows up as a gap.
NoSilentLoss ==
  [][\A p \in Pass :
       LET r == pass[p]
       IN  r.at = "record" /\ pass'[p].at # "record" /\ checkpoint' # checkpoint
           /\ r.status = "succeeded" /\ ~r.gap /\ r.mark # None
             => \A e \in logged : r.mark + Overlap <= e /\ e < checkpoint'.mark - Overlap
                                    => e \in stored']_vars

\* When the node is ready for good, time and again every entry it has is stored,
\* has expired or lies under a recorded gap, and no expired event is stored,
\* although passes bring events back that retention removed.
Collected ==
  <>[](state = "ready") =>
    []<>(/\ \A e \in log : e \in stored \cup reported \/ Expired(e)
         /\ \A e \in stored : ~Expired(e))

\* When the node is ready for good, the coverage that is shown no longer says
\* otherwise, whatever passes were in flight when it became so.
CoverageRecovers == <>[](state = "ready") => <>[](Coverage \in {"current", "gap"})

=============================================================================
