--------------------------- MODULE QueryLogProofs ---------------------------
(***************************************************************************)
(* Nothing is skipped in silence, for every number of passes at once, page *)
(* size, number of pages, overlap and retention.                           *)
(***************************************************************************)
EXTENDS QueryLog, FiniteSetTheorems, WellFoundedInduction, TLAPS

\* Zenon proves the steps that name no other prover.
USE ZenonT(30)

\* Sets of timestamps

\* Every set of timestamps is finite.
LEMMA TimesFinite ==
  ASSUME NEW S, S \subseteq Time
  PROVE  IsFiniteSet(S) /\ Cardinality(S) \in Nat /\ Time \subseteq Nat
  <1>1. IsFiniteSet(Time)
    BY FS_Interval, QueryLogConstants, SMTT(30) DEF Time
  <1>2. IsFiniteSet(S)
    BY <1>1, FS_Subset
  <1>3. Time \subseteq Nat
    BY QueryLogConstants, SMTT(30) DEF Time
  <1>4. QED
    BY <1>2, <1>3, FS_CardinalityType

\* A set of timestamps that is not empty has a least member.
LEMMA MinExists ==
  ASSUME NEW S, S \subseteq Time, S # {}
  PROVE  \E x \in S : \A y \in S : x <= y
  <1>1. S \subseteq Nat
    BY QueryLogConstants, SMTT(30) DEF Time
  <1>2. \E x \in S : \A y \in S : ~(<<y, x>> \in OpToRel(<, Nat))
    BY <1>1, NatLessThanWellFounded, WFMin
  <1>3. \A x, y \in S : y < x => <<y, x>> \in OpToRel(<, Nat)
    BY <1>1 DEF OpToRel
  <1>4. PICK x \in S : \A y \in S : ~(<<y, x>> \in OpToRel(<, Nat))
    BY <1>2
  <1>5. \A y \in S : ~(y < x)
    BY <1>3, <1>4
  <1>6. QED
    BY <1>1, <1>5, SMTT(30)

\* And a greatest one.
LEMMA MaxExists ==
  ASSUME NEW S, S \subseteq Time, S # {}
  PROVE  \E x \in S : \A y \in S : x >= y
  <1> DEFINE T == {MaxTime + 1 - x : x \in S}
  <1>1. T \subseteq Time /\ T # {}
    <2>1. \A x \in Time : MaxTime + 1 - x \in Time
      BY QueryLogConstants, SMTT(30) DEF Time
    <2>2. QED
      BY <2>1
  <1>2. PICK z \in T : \A y \in T : z <= y
    BY <1>1, MinExists
  <1>3. PICK x \in S : z = MaxTime + 1 - x
    BY <1>2
  <1>4. \A y \in S : MaxTime + 1 - x <= MaxTime + 1 - y
    BY <1>2, <1>3
  <1>5. \A y \in S : x >= y
    BY <1>4, QueryLogConstants, SMTT(30) DEF Time
  <1>6. QED
    BY <1>5

\* Min is the least member.
LEMMA MinFact ==
  ASSUME NEW S, S \subseteq Time, S # {}
  PROVE  Min(S) \in S /\ \A y \in S : Min(S) <= y
  BY MinExists DEF Min

\* Max is the greatest member.
LEMMA MaxFact ==
  ASSUME NEW S, S \subseteq Time, S # {}
  PROVE  Max(S) \in S /\ \A y \in S : Max(S) >= y
  BY MaxExists DEF Max

\* What a page leaves out

\* The entries a page is taken from, and those of them from e on.
Older(c) == {e \in log : c # None => e < c}
From(c, e) == {f \in Older(c) : f >= e}

\* A page has the entries with at most a page of entries from them on.
LEMMA PageMember ==
  ASSUME NEW c, NEW e
  PROVE  e \in Page(c) <=> e \in Older(c) /\ Cardinality(From(c, e)) <= PageSize
  BY DEF Page, Older, From

\* A page reaches up to the cursor without holes.
LEMMA PageIsDense ==
  ASSUME TypeOK, NEW c \in Time \cup {None}, NEW e \in Older(c), NEW f \in Page(c), e >= f
  PROVE  e \in Page(c)
  <1>1. log \subseteq Time /\ f \in Older(c) /\ Older(c) \subseteq log /\ Time \subseteq Int
    BY PageMember, QueryLogConstants, SMTT(30) DEF TypeOK, Older, Time
  <1>2. From(c, e) \subseteq From(c, f) /\ From(c, f) \subseteq Time
    <2>1. e \in Int /\ f \in Int /\ Older(c) \subseteq Int
      BY <1>1
    <2>2. \A g \in Older(c) : g >= e => g >= f
      BY <2>1, SMTT(30)
    <2>3. QED
      BY <1>1, <2>2 DEF From
  <1>3. Cardinality(From(c, e)) <= Cardinality(From(c, f))
    BY <1>2, TimesFinite, FS_Subset
  <1>4. Cardinality(From(c, f)) <= PageSize
    BY PageMember
  <1>5. Cardinality(From(c, e)) \in Nat /\ Cardinality(From(c, f)) \in Nat /\ PageSize \in Nat
    BY <1>2, TimesFinite, QueryLogConstants
  <1>6. Cardinality(From(c, e)) <= PageSize
    BY <1>3, <1>4, <1>5, SMTT(30)
  <1>7. QED
    BY <1>6, PageMember

\* A page that is not full leaves out nothing.
LEMMA ShortPageIsAll ==
  ASSUME TypeOK, NEW c \in Time \cup {None}, Cardinality(Page(c)) < PageSize
  PROVE  Page(c) = Older(c)
  <1> DEFINE Rest == Older(c) \ Page(c)
  <1>1. log \subseteq Time /\ Time \subseteq Int /\ Page(c) \subseteq Older(c) /\ Older(c) \subseteq log
    BY PageMember, QueryLogConstants, SMTT(30) DEF TypeOK, Older, Time
  <1>2. SUFFICES ASSUME Rest # {} PROVE FALSE
    BY <1>1
  <1>3. PICK m \in Rest : \A y \in Rest : m >= y
    BY <1>1, <1>2, MaxExists
  <1>4. From(c, m) \subseteq Page(c) \cup {m}
    <2>1. SUFFICES ASSUME NEW g \in From(c, m), g \notin Page(c) PROVE g = m
      OBVIOUS
    <2>2. g \in Rest /\ g >= m /\ g \in Int /\ m \in Int
      BY <1>1, <1>3, <2>1 DEF From
    <2>3. QED
      BY <1>3, <2>2, SMTT(30)
  <1>5. /\ IsFiniteSet(Page(c)) /\ Cardinality(Page(c)) \in Nat
        /\ IsFiniteSet(From(c, m)) /\ Cardinality(From(c, m)) \in Nat /\ PageSize \in Nat
    <2>1. Page(c) \subseteq Time /\ From(c, m) \subseteq Time
      BY <1>1 DEF From
    <2>2. QED
      BY <2>1, TimesFinite, QueryLogConstants
  <1>6. IsFiniteSet(Page(c) \cup {m}) /\ Cardinality(Page(c) \cup {m}) = Cardinality(Page(c)) + 1
    BY <1>3, <1>5, FS_AddElement
  <1>7. Cardinality(From(c, m)) <= Cardinality(Page(c)) + 1
    BY <1>4, <1>6, FS_Subset
  <1>8. Cardinality(From(c, m)) <= PageSize
    BY <1>5, <1>7, QueryLogConstants, SMTT(30)
  <1>9. m \in Page(c)
    BY <1>3, <1>8, PageMember
  <1>10. QED
    BY <1>3, <1>9

\* The inductive invariant

\* Entries on the node that are neither stored nor reported are not before the
\* overlap of watermark m: NothingSkipped, of any watermark.
Outlook(m) ==
  \A e \in log \ (stored \cup reported) : Expired(e) \/ m = None \/ e >= m - Overlap

\* Of what was ever logged since the oldest entry of S, everything is in S that is
\* older than the overlap of its newest entry.
Covered(S) ==
  \A e \in logged, l \in S : l <= e => e \in S \/ \A h \in S : h <= e + Overlap

\* What is on the node before all of S came late or is before the overlap of m.
Left(S, m) ==
  \A e \in log : (\A l \in S : e < l) =>
    (\A h \in S : h <= e + Overlap) \/ (m # None /\ e + Overlap < m)

\* A pass that is paging and has met no gap has read down to its cursor.
Paging(r) ==
  /\ r.end = "none" /\ r.pages < MaxPages
  /\ ~r.gap => /\ r.cursor = None => r.read = {}
               /\ r.cursor # None => r.cursor \in r.read /\ \A l \in r.read : r.cursor <= l
               /\ Covered(r.read)

\* A pass that is to record success without a gap has joined up with its watermark.
Joined(r) ==
  /\ r.mark # None => /\ \E h \in r.read : r.mark <= h
                      /\ \E l \in r.read : l <= r.mark + Overlap
  /\ r.read # {} => Covered(r.read) /\ Left(r.read, r.mark)

RowOK(r) ==
  /\ r.read \subseteq logged \ malformed
  /\ Outlook(r.mark) /\ (r.mark # None => r.mark <= now)
  /\ r.at = "config" => r.read = {} /\ r.cursor = None /\ r.end = "none" /\ r.pages = 0
  /\ r.at = "page" => Paging(r)
  /\ r.at = "record" /\ r.status = "succeeded" /\ ~r.gap => Joined(r)

\* The clock is not behind the log, and the node drops the oldest entries first.
Clock ==
  /\ \A e \in logged : e <= now
  /\ \A e \in logged \ log, f \in log : e < f

IInv ==
  /\ TypeOK /\ Clock
  /\ Outlook(checkpoint.mark) /\ (checkpoint.mark # None => checkpoint.mark <= now)
  /\ \A p \in Pass : RowOK(pass[p])

\* What other steps do to a pass

\* Entries are added within the overlap, none reappears, and what is no longer
\* stored has expired.
Env ==
  /\ now' \in Int /\ now <= now'
  /\ logged \subseteq logged' /\ logged' \subseteq Time
  /\ \A e \in logged' \ logged : now <= e + Overlap
  /\ log' \subseteq log \cup (logged' \ logged)
  /\ malformed' \cap logged \subseteq malformed
  /\ \A e \in stored \cup reported : e \in stored' \cup reported' \/ Expired(e)

\* Types of the numbers.
LEMMA Numbers ==
  ASSUME TypeOK
  PROVE  /\ now \in Int /\ Overlap \in Nat /\ Retention \in Nat /\ Time \subseteq Int
         /\ logged \subseteq Int /\ log \subseteq logged /\ logged \subseteq Time
         /\ None \notin Time
  BY QueryLogConstants, SMTT(30) DEF TypeOK, Time

\* A watermark keeps its outlook.
LEMMA OutlookStays ==
  ASSUME TypeOK, Clock, Env, NEW m \in Time \cup {None}, Outlook(m), m # None => m <= now
  PROVE  Outlook(m)' /\ (m # None => m <= now')
  <1> USE Numbers
  <1>1. m # None => m \in Int /\ m <= now'
    BY SMTT(30) DEF Env
  <1>2. ASSUME NEW e \in log' \ (stored' \cup reported'), m # None
        PROVE  Expired(e)' \/ e >= m - Overlap
    <2>1. e \in Int
      BY DEF Env
    <2>2. CASE e \in logged' \ logged
      BY <1>1, <1>2, <2>1, <2>2, SMTT(30) DEF Env
    <2>3. CASE e \in stored \cup reported
      <3>1. Expired(e)
        BY <1>2, <2>3 DEF Env
      <3>2. QED
        BY <2>1, <3>1, SMTT(30) DEF Expired, Env
    <2>4. CASE e \in log \ (stored \cup reported)
      <3>1. Expired(e) \/ e >= m - Overlap
        BY <1>2, <2>4 DEF Outlook
      <3>2. QED
        BY <2>1, <3>1, SMTT(30) DEF Expired, Env
    <2>5. QED
      BY <1>2, <2>2, <2>3, <2>4 DEF Env
  <1>3. QED
    BY <1>1, <1>2 DEF Outlook

\* What was read stays covered: entries that are added come late.
LEMMA CoveredStays ==
  ASSUME TypeOK, Clock, Env, NEW S, S \subseteq logged, Covered(S)
  PROVE  Covered(S)'
  <1> USE Numbers
  <1>1. \A e \in logged' \ logged, h \in S : h <= e + Overlap
    <2>1. SUFFICES ASSUME NEW e \in logged' \ logged, NEW h \in S PROVE h <= e + Overlap
      OBVIOUS
    <2>2. h <= now /\ now <= e + Overlap /\ h \in Int /\ e \in Int
      BY DEF Clock, Env
    <2>3. QED
      BY <2>2, SMTT(30)
  <1>2. QED
    BY <1>1 DEF Covered

\* And what is left stays left.
LEMMA LeftStays ==
  ASSUME TypeOK, Clock, Env, NEW S, S \subseteq logged, NEW m, Left(S, m)
  PROVE  Left(S, m)'
  <1> USE Numbers
  <1>1. \A e \in logged' \ logged, h \in S : h <= e + Overlap
    <2>1. SUFFICES ASSUME NEW e \in logged' \ logged, NEW h \in S PROVE h <= e + Overlap
      OBVIOUS
    <2>2. h <= now /\ now <= e + Overlap /\ h \in Int /\ e \in Int
      BY DEF Clock, Env
    <2>3. QED
      BY <2>2, SMTT(30)
  <1>2. log' \subseteq log \cup (logged' \ logged)
    BY DEF Env
  <1>3. QED
    BY <1>1, <1>2 DEF Left

\* A pass that does not move stays sound.
LEMMA RowStays ==
  ASSUME TypeOK, Clock, Env, NEW r \in PassRow, RowOK(r)
  PROVE  RowOK(r)'
  <1>1. r.mark \in Time \cup {None} /\ r.read \subseteq logged
    BY DEF PassRow, RowOK
  <1>2. r.read \subseteq logged' \ malformed'
    BY DEF RowOK, Env
  <1>3. Outlook(r.mark)' /\ (r.mark # None => r.mark <= now')
    BY <1>1, OutlookStays DEF RowOK
  <1>4. Covered(r.read) => Covered(r.read)'
    BY <1>1, CoveredStays
  <1>5. Left(r.read, r.mark) => Left(r.read, r.mark)'
    BY <1>1, LeftStays
  <1>6. Paging(r) => Paging(r)'
    BY <1>4 DEF Paging
  <1>7. Joined(r) => Joined(r)'
    BY <1>4, <1>5 DEF Joined
  <1>8. QED
    BY <1>2, <1>3, <1>6, <1>7 DEF RowOK

\* Steps of the node

\* Init establishes the invariant.
LEMMA InitInv == Init => IInv
  <1> SUFFICES ASSUME Init PROVE IInv
    OBVIOUS
  <1>1. NoPass \in PassRow
    BY QueryLogConstants, SMTT(30) DEF NoPass, PassRow
  <1>2. PICK r \in PassRow : r = NoPass
    BY <1>1
  <1>3. r.at = "idle" /\ r.read = {} /\ r.mark = None
    BY <1>2 DEF NoPass
  <1>4. RowOK(r)
    BY <1>3 DEF RowOK, Outlook
  <1>5. \A p \in Pass : pass[p] = r
    BY <1>2 DEF Init
  <1>6. TypeOK
    BY <1>1, <1>2, <1>3, <1>5, QueryLogConstants, SMTT(30) DEF Init, TypeOK, NoCheckpoint, Time
  <1>7. Clock /\ checkpoint.mark = None
    BY SMTT(30) DEF Clock, Init, NoCheckpoint
  <1>8. QED
    BY <1>4, <1>5, <1>6, <1>7 DEF IInv, Outlook

\* When no pass moves, the invariant rests on the log and the watermark.
LEMMA NodeInv ==
  ASSUME IInv, Env, Clock', TypeOK', UNCHANGED <<pass, checkpoint>>
  PROVE  IInv'
  <1>1. /\ TypeOK /\ Clock
        /\ Outlook(checkpoint.mark) /\ (checkpoint.mark # None => checkpoint.mark <= now)
        /\ \A p \in Pass : RowOK(pass[p]) /\ pass[p] \in PassRow
        /\ checkpoint.mark \in Time \cup {None}
    BY DEF IInv, TypeOK
  <1>2. \A p \in Pass : RowOK(pass[p])'
    BY <1>1, RowStays
  <1>3. Outlook(checkpoint.mark)' /\ (checkpoint.mark # None => checkpoint.mark <= now)'
    BY <1>1, OutlookStays
  <1>4. QED
    BY <1>2, <1>3 DEF IInv

\* Log, Forget and Become.
LEMMA LogInv ==
  ASSUME IInv, NEW t \in Time, Log(t)
  PROVE  IInv'
  <1> USE Numbers
  <1>1. TypeOK /\ Clock
    BY DEF IInv
  <1>2. now' \in 0 .. MaxTime /\ now <= now' /\ t <= now' /\ now' \in Int /\ t \in Int /\ now \in Int
    <2>1. {now, t} # {} /\ now' = Max({now, t}) /\ now \in 0 .. MaxTime /\ now \in Int /\ t \in Int
      BY <1>1 DEF Log, TypeOK
    <2>2. now' = IF now >= t THEN now ELSE t
      <3>1. now >= t => \E x \in {now, t} : \A y \in {now, t} : x >= y
        BY <2>1, SMTT(30)
      <3>2. now < t => \E x \in {now, t} : \A y \in {now, t} : x >= y
        BY <2>1, SMTT(30)
      <3>3. now' \in {now, t} /\ \A y \in {now, t} : now' >= y
        BY <2>1, <3>1, <3>2, SMTT(30) DEF Max
      <3>4. QED
        BY <2>1, <3>3, SMTT(30)
    <2>3. QED
      BY <2>1, <2>2, SMTT(30) DEF Time
  <1>3. Env
    BY <1>1, <1>2, SMTT(30) DEF Env, Log, tables
  <1>4. Clock'
    BY <1>1, <1>2, SMTT(30) DEF Clock, Log
  <1>5. TypeOK'
    <2>1. changes' \in 0 .. MaxChanges
      BY <1>1, QueryLogConstants, SMTT(30) DEF Log, TypeOK, Change
    <2>2. \A p \in Pass : pass[p].read \subseteq logged' \ malformed'
      BY <1>1 DEF TypeOK, Log
    <2>3. QED
      BY <1>1, <1>2, <2>1, <2>2 DEF Log, TypeOK, tables
  <1>6. QED
    BY <1>3, <1>4, <1>5, NodeInv DEF Log, tables

\* The node drops its oldest entries.
LEMMA ForgetInv ==
  ASSUME IInv, NEW t \in Time, Forget(t)
  PROVE  IInv'
  <1> USE Numbers
  <1>1. TypeOK /\ Clock
    BY DEF IInv
  <1>2. Env
    BY <1>1, SMTT(30) DEF Env, Forget, tables
  <1>3. Clock'
    BY <1>1, SMTT(30) DEF Clock, Forget
  <1>4. TypeOK'
    BY <1>1, QueryLogConstants, SMTT(30) DEF Forget, TypeOK, Change, tables
  <1>5. QED
    BY <1>2, <1>3, <1>4, NodeInv DEF Forget, tables

\* The node or the setting changes.
LEMMA BecomeInv ==
  ASSUME IInv, NEW s \in State, Become(s)
  PROVE  IInv'
  <1> USE Numbers
  <1>1. TypeOK /\ Clock
    BY DEF IInv
  <1>2. Env
    BY <1>1, SMTT(30) DEF Env, Become, tables
  <1>3. Clock'
    BY <1>1 DEF Clock, Become
  <1>4. TypeOK'
    BY <1>1, QueryLogConstants, SMTT(30) DEF Become, TypeOK, Change, tables
  <1>5. QED
    BY <1>2, <1>3, <1>4, NodeInv DEF Become, tables

\* Steps of a pass

\* A pass that moves to a sound row, while the tables stay sound.
LEMMA PassInv ==
  ASSUME IInv, Env, NEW p \in Pass, NEW r \in PassRow, Set(p, r), RowOK(r)', UNCHANGED node,
         stored' \subseteq logged \ malformed, reported' \subseteq logged,
         checkpoint' \in [mark : Time \cup {None}, status : {"none", "succeeded"} \cup Refusal,
                          gap : BOOLEAN, logging : BOOLEAN \cup {None}, succeeded : BOOLEAN],
         Outlook(checkpoint.mark)', (checkpoint.mark # None => checkpoint.mark <= now)',
         changes' \in 0 .. MaxChanges
  PROVE  IInv'
  <1>1. TypeOK /\ Clock /\ \A q \in Pass : RowOK(pass[q]) /\ pass[q] \in PassRow
    BY DEF IInv, TypeOK
  <1>2. pass' \in [Pass -> PassRow] /\ pass'[p] = r /\ \A q \in Pass \ {p} : pass'[q] = pass[q]
    BY <1>1 DEF Set, TypeOK
  <1>3. \A q \in Pass : RowOK(pass[q])'
    BY <1>1, <1>2, RowStays
  <1>4. \A q \in Pass : pass'[q].read \subseteq logged' \ malformed'
    BY <1>3 DEF RowOK
  <1>5. TypeOK'
    BY <1>1, <1>2, <1>4 DEF TypeOK, node
  <1>6. Clock'
    BY <1>1 DEF Clock, node
  <1>7. QED
    BY <1>3, <1>5, <1>6 DEF IInv

\* A pass that moves to a sound row and writes nothing.
LEMMA MoveInv ==
  ASSUME IInv, NEW p \in Pass, NEW r \in PassRow, Set(p, r), RowOK(r), UNCHANGED <<node, tables>>,
         changes' \in 0 .. MaxChanges
  PROVE  IInv'
  <1> USE Numbers
  <1>1. TypeOK /\ Clock
    BY DEF IInv
  <1>2. Env
    BY <1>1, SMTT(30) DEF Env, node, tables
  <1>3. RowOK(r)'
    BY <1>1, <1>2, RowStays
  <1>4. Outlook(checkpoint.mark)' /\ (checkpoint.mark # None => checkpoint.mark <= now)'
    BY DEF IInv, Outlook, Expired, node, tables
  <1>5. /\ stored' \subseteq logged \ malformed /\ reported' \subseteq logged
        /\ checkpoint' \in [mark : Time \cup {None}, status : {"none", "succeeded"} \cup Refusal,
                            gap : BOOLEAN, logging : BOOLEAN \cup {None}, succeeded : BOOLEAN]
    BY <1>1 DEF TypeOK, tables
  <1>6. QED
    BY <1>2, <1>3, <1>4, <1>5, PassInv

\* A change is counted.
LEMMA Counted ==
  ASSUME TypeOK
  PROVE  /\ UNCHANGED changes => changes' \in 0 .. MaxChanges
         /\ Change => changes' \in 0 .. MaxChanges
  BY QueryLogConstants, SMTT(30) DEF TypeOK, Change

\* An idle pass, and one that only cleans up.
LEMMA RestSound ==
  /\ NoPass \in PassRow /\ [NoPass EXCEPT !.at = "cleanup"] \in PassRow
  /\ RowOK(NoPass) /\ RowOK([NoPass EXCEPT !.at = "cleanup"])
  /\ RowOK(NoPass)' /\ RowOK([NoPass EXCEPT !.at = "cleanup"])'
  <1>1. PICK r : r = NoPass
    OBVIOUS
  <1>2. r \in PassRow /\ r.at = "idle" /\ r.read = {} /\ r.mark = None
    BY <1>1, QueryLogConstants, SMTT(30) DEF NoPass, PassRow
  <1>3. PICK c : c = [r EXCEPT !.at = "cleanup"]
    OBVIOUS
  <1>4. c \in PassRow /\ c.at = "cleanup" /\ c.read = {} /\ c.mark = None
    BY <1>2, <1>3 DEF PassRow
  <1>5. RowOK(r) /\ RowOK(c) /\ RowOK(r)' /\ RowOK(c)'
    BY <1>2, <1>4 DEF RowOK, Outlook
  <1>6. QED
    BY <1>1, <1>2, <1>3, <1>4, <1>5

\* A pass fails.
LEMMA PassFailsInv ==
  ASSUME IInv, NEW p \in Pass, PassFails(p)
  PROVE  IInv'
  <1>1. Set(p, NoPass) /\ UNCHANGED <<node, tables>> /\ changes' \in 0 .. MaxChanges
    BY Counted DEF PassFails, IInv
  <1>2. QED
    BY <1>1, RestSound, MoveInv

\* Retention deletes expired events only.
LEMMA CleanupInv ==
  ASSUME IInv, NEW p \in Pass, Cleanup(p)
  PROVE  IInv'
  <1> USE Numbers
  <1>1. /\ TypeOK /\ Clock /\ UNCHANGED <<node, checkpoint, reported, changes>>
        /\ Set(p, NoPass)
    BY DEF IInv, Cleanup
  <1>2. stored' \subseteq stored /\ \A e \in stored \ stored' : Expired(e)
    BY DEF Cleanup, CleanupQueryLog
  <1>3. Env
    BY <1>1, <1>2, SMTT(30) DEF Env, node
  <1>4. /\ checkpoint.mark \in Time \cup {None} /\ Outlook(checkpoint.mark)
        /\ (checkpoint.mark # None => checkpoint.mark <= now)
    BY DEF IInv, TypeOK
  <1>5. Outlook(checkpoint.mark)' /\ (checkpoint.mark # None => checkpoint.mark <= now)'
    BY <1>1, <1>3, <1>4, OutlookStays
  <1>6. /\ stored' \subseteq logged \ malformed /\ reported' \subseteq logged
        /\ checkpoint' \in [mark : Time \cup {None}, status : {"none", "succeeded"} \cup Refusal,
                            gap : BOOLEAN, logging : BOOLEAN \cup {None}, succeeded : BOOLEAN]
        /\ changes' \in 0 .. MaxChanges /\ UNCHANGED node
    BY <1>1, <1>2 DEF TypeOK
  <1>7. QED
    BY <1>1, <1>3, <1>5, <1>6, RestSound, PassInv

\* A pass that gives up keeps its watermark.
LEMMA OutcomeSound ==
  ASSUME TypeOK, NEW r \in PassRow, RowOK(r), NEW s \in Refusal
  PROVE  /\ Outcome(r, s) \in PassRow /\ RowOK(Outcome(r, s))
         /\ [Outcome(r, s) EXCEPT !.read = {}] \in PassRow
         /\ RowOK([Outcome(r, s) EXCEPT !.read = {}])
         /\ [Outcome(r, s) EXCEPT !.logging = FALSE] \in PassRow
         /\ RowOK([Outcome(r, s) EXCEPT !.logging = FALSE])
  <1>1. PICK o : o = Outcome(r, s)
    OBVIOUS
  <1>2. /\ o \in PassRow /\ o.at = "record" /\ o.status = s /\ o.read = r.read /\ o.mark = r.mark
        /\ s # "succeeded"
    <2>1. 0 \in 0 .. MaxPages
      BY QueryLogConstants, SMTT(30)
    <2>2. s # "succeeded" /\ s \in {"none", "succeeded"} \cup Refusal
      BY DEF Refusal
    <2>3. o = [r EXCEPT !.at = "record", !.status = s, !.pages = 0, !.cursor = None, !.end = "none"]
      BY <1>1 DEF Outcome
    <2>4. QED
      BY <2>1, <2>2, <2>3 DEF PassRow
  <1>3. PICK a : a = [o EXCEPT !.read = {}]
    OBVIOUS
  <1>4. a \in PassRow /\ a.at = "record" /\ a.status = s /\ a.read = {} /\ a.mark = r.mark
    BY <1>2, <1>3 DEF PassRow
  <1>5. PICK b : b = [o EXCEPT !.logging = FALSE]
    OBVIOUS
  <1>6. b \in PassRow /\ b.at = "record" /\ b.status = s /\ b.read = r.read /\ b.mark = r.mark
    BY <1>2, <1>5 DEF PassRow
  <1>7. RowOK(o) /\ RowOK(a) /\ RowOK(b)
    BY <1>2, <1>4, <1>6 DEF RowOK
  <1>8. QED
    BY <1>1, <1>2, <1>3, <1>4, <1>5, <1>6, <1>7

\* A pass begins with a copy of the checkpoint.
LEMMA BeginPassInv ==
  ASSUME IInv, NEW p \in Pass, BeginPass(p)
  PROVE  IInv'
  <1>1. TypeOK /\ UNCHANGED <<node, tables>> /\ changes' \in 0 .. MaxChanges
    BY Counted DEF IInv, BeginPass
  <1>2. PICK k : k = QueryLogCheckpoint
    OBVIOUS
  <1>3. /\ k \in PassRow /\ k.at = "idle" /\ k.read = {} /\ k.mark = checkpoint.mark
        /\ k.cursor = None /\ k.end = "none" /\ k.pages = 0
    <2>1. PICK n : n = NoPass
      OBVIOUS
    <2>2. /\ n \in PassRow /\ n.at = "idle" /\ n.read = {} /\ n.cursor = None /\ n.end = "none"
          /\ n.pages = 0
      BY <2>1, RestSound DEF NoPass
    <2>3. /\ checkpoint.mark \in Time \cup {None} /\ checkpoint.logging \in BOOLEAN \cup {None}
          /\ checkpoint.succeeded \in BOOLEAN
      BY <1>1 DEF TypeOK
    <2>4. k = [n EXCEPT !.mark = checkpoint.mark, !.logging = checkpoint.logging,
                        !.succeeded = checkpoint.succeeded]
      BY <1>2, <2>1 DEF QueryLogCheckpoint
    <2>5. QED
      BY <2>2, <2>3, <2>4 DEF PassRow
  <1>4. RowOK(k)
    BY <1>3 DEF RowOK, IInv
  <1>5. PICK c : c = [k EXCEPT !.at = "config"]
    OBVIOUS
  <1>6. /\ c \in PassRow /\ c.at = "config" /\ c.read = {} /\ c.mark = checkpoint.mark
        /\ c.cursor = None /\ c.end = "none" /\ c.pages = 0
    BY <1>3, <1>5 DEF PassRow
  <1>7. RowOK(c)
    BY <1>6 DEF RowOK, IInv
  <1>8. \/ Set(p, [NoPass EXCEPT !.at = "cleanup"])
        \/ state \in Refusal /\ Set(p, Outcome(k, state))
        \/ Set(p, c)
    <2>1. CASE state = "paused"
      BY <2>1 DEF BeginPass
    <2>2. CASE state \in {"maintenance", "unsupported"}
      BY <1>2, <2>2 DEF BeginPass, Refusal
    <2>3. CASE state # "paused" /\ state \notin {"maintenance", "unsupported"}
      BY <1>2, <1>5, <2>3 DEF BeginPass
    <2>4. QED
      BY <2>1, <2>2, <2>3
  <1>9. CASE Set(p, [NoPass EXCEPT !.at = "cleanup"])
    BY <1>1, <1>9, RestSound, MoveInv
  <1>10. CASE state \in Refusal /\ Set(p, Outcome(k, state))
    BY <1>1, <1>3, <1>4, <1>10, OutcomeSound, MoveInv
  <1>11. CASE Set(p, c)
    BY <1>1, <1>6, <1>7, <1>11, MoveInv
  <1>12. QED
    BY <1>8, <1>9, <1>10, <1>11

\* The node's configuration is read, and paging starts.
LEMMA ReadConfigInv ==
  ASSUME IInv, NEW p \in Pass, ReadQueryLogConfig(p)
  PROVE  IInv'
  <1>1. /\ TypeOK /\ UNCHANGED <<node, tables>> /\ changes' \in 0 .. MaxChanges
        /\ pass[p] \in PassRow /\ RowOK(pass[p]) /\ pass[p].at = "config"
    BY Counted DEF IInv, ReadQueryLogConfig, TypeOK
  <1>2. PICK r \in PassRow : r = pass[p]
    BY <1>1
  <1>3. PICK g : g = [r EXCEPT !.at = "page", !.logging = TRUE]
    OBVIOUS
  <1>4. /\ g \in PassRow /\ g.at = "page" /\ g.read = r.read /\ g.mark = r.mark
        /\ g.cursor = r.cursor /\ g.end = r.end /\ g.pages = r.pages
    BY <1>2, <1>3 DEF PassRow
  <1>5. RowOK(g)
    BY <1>1, <1>2, <1>4, QueryLogConstants, SMTT(30) DEF RowOK, Paging, Covered
  <1>6. \/ state \in Refusal /\ Set(p, [Outcome(r, state) EXCEPT !.read = {}])
        \/ state \in Refusal /\ Set(p, [Outcome(r, state) EXCEPT !.logging = FALSE])
        \/ Set(p, g)
    <2>1. CASE state \in {"failed", "unsupported"}
      BY <1>2, <2>1 DEF ReadQueryLogConfig, Refused, Refusal
    <2>2. CASE state = "logging_disabled"
      BY <1>2, <2>2 DEF ReadQueryLogConfig, Refusal
    <2>3. CASE state # "logging_disabled" /\ state \notin {"failed", "unsupported"}
      BY <1>2, <1>3, <2>3 DEF ReadQueryLogConfig
    <2>4. QED
      BY <2>1, <2>2, <2>3
  <1>7. CASE state \in Refusal /\ Set(p, [Outcome(r, state) EXCEPT !.read = {}])
    BY <1>1, <1>2, <1>7, OutcomeSound, MoveInv
  <1>8. CASE state \in Refusal /\ Set(p, [Outcome(r, state) EXCEPT !.logging = FALSE])
    BY <1>1, <1>2, <1>8, OutcomeSound, MoveInv
  <1>9. CASE Set(p, g)
    BY <1>1, <1>4, <1>5, <1>9, MoveInv
  <1>10. QED
    BY <1>6, <1>7, <1>8, <1>9

\* Reading a page

\* A page without malformed entries extends what was read without holes.
LEMMA PageCovers ==
  ASSUME IInv, NEW r \in PassRow, RowOK(r), r.at = "page", ~r.gap,
         NEW page, page = Page(r.cursor), NEW S, S = r.read \cup page
  PROVE  /\ Covered(S)
         /\ page # {} => Min(page) \in S /\ \A l \in S : Min(page) <= l
         /\ page = {} /\ r.cursor # None => r.cursor \in S /\ \A l \in S : r.cursor <= l
  <1> USE Numbers
  <1>1. /\ TypeOK /\ Clock /\ r.cursor \in Time \cup {None} /\ page \subseteq Older(r.cursor)
        /\ Older(r.cursor) \subseteq log
    BY PageMember DEF IInv, PassRow, Older
  <1>2. /\ r.cursor = None => r.read = {}
        /\ r.cursor # None => r.cursor \in r.read /\ \A l \in r.read : r.cursor <= l
        /\ Covered(r.read) /\ r.read \subseteq logged
    BY DEF RowOK, Paging
  <1>3. /\ \A e \in page : e \in Int /\ e \in log /\ (r.cursor # None => e < r.cursor)
        /\ r.cursor # None => r.cursor \in Int
    BY <1>1 DEF Older
  <1>4. ASSUME NEW e \in logged, NEW l \in page, l <= e, r.cursor # None => e < r.cursor
        PROVE  e \in page
    <2>1. e \in log
      <3>1. l \in log /\ ~(e < l)
        BY <1>1, <1>3, <1>4, SMTT(30)
      <3>2. QED
        BY <1>1, <3>1 DEF Clock
    <2>2. e \in Older(r.cursor)
      BY <1>4, <2>1 DEF Older
    <2>3. e >= l /\ l \in Page(r.cursor)
      BY <1>1, <1>3, <1>4
    <2>4. QED
      BY <1>1, <2>2, <2>3, PageIsDense
  <1>5. Covered(S)
    <2>1. SUFFICES ASSUME NEW e \in logged, NEW l \in S, l <= e, e \notin S
                   PROVE  \A h \in S : h <= e + Overlap
      BY DEF Covered
    <2>2. r.cursor # None
      BY <1>2, <1>4, <2>1
    <2>3. r.cursor \in Int /\ e \in Int /\ l \in Int
      BY <1>1, <1>2, <1>3, <2>1, <2>2
    <2>4. r.cursor <= e
      <3>1. SUFFICES ASSUME e < r.cursor PROVE FALSE
        BY <2>3, SMTT(30)
      <3>2. l \in page
        BY <1>2, <2>1, <2>2, <2>3, <3>1, SMTT(30)
      <3>3. QED
        BY <1>4, <2>1, <3>1, <3>2
    <2>5. \A h \in r.read : h <= e + Overlap
      BY <1>2, <2>1, <2>2, <2>4 DEF Covered
    <2>6. \A h \in page : h <= e + Overlap
      BY <1>1, <1>3, <2>2, <2>3, <2>4, SMTT(30)
    <2>7. QED
      BY <2>5, <2>6
  <1>6. ASSUME page # {}
        PROVE  Min(page) \in S /\ \A l \in S : Min(page) <= l
    <2>1. page \subseteq Time
      BY <1>1
    <2>2. Min(page) \in page /\ \A l \in page : Min(page) <= l
      BY <1>6, <2>1, MinFact
    <2>3. ASSUME NEW l \in r.read PROVE Min(page) <= l
      <3>1. r.cursor # None /\ r.cursor \in Int /\ r.cursor <= l /\ l \in Int
        BY <1>1, <1>2, <1>3, <2>3
      <3>2. Min(page) \in Int /\ Min(page) < r.cursor
        BY <1>3, <2>2, <3>1
      <3>3. QED
        BY <3>1, <3>2, SMTT(30)
    <2>4. QED
      BY <2>2, <2>3
  <1>7. QED
    BY <1>2, <1>5, <1>6

\* The fields of a pass that has accepted a page.
LEMMA Accepted ==
  ASSUME TypeOK, NEW r \in PassRow, RowOK(r), r.at = "page",
         NEW page, page = Page(r.cursor), NEW a, a = Accept(r, page)
  PROVE  /\ a \in PassRow /\ a.at = "page" /\ a.mark = r.mark /\ a.status = r.status
         /\ a.read = r.read \cup (page \ malformed) /\ a.pages = r.pages + 1
         /\ a.cursor = (IF page = {} THEN r.cursor ELSE Min(page))
         /\ (a.end = "exhausted") <=> Cardinality(page) < PageSize
         /\ a.end = "crossed" => r.mark # None /\ a.read # {} /\ Min(a.read) < r.mark - Overlap
         /\ a.end \in {"none", "exhausted", "crossed", "truncated"}
         /\ a.end = "none" => r.pages + 1 # MaxPages
         /\ a.gap <=> r.gap \/ page \cap malformed # {} \/ a.end = "truncated"
  <1> DEFINE read == r.read \cup (page \ malformed)
             short == Cardinality(page) < PageSize
             cross == r.mark # None /\ read # {} /\ Min(read) < r.mark - Overlap
             last == r.pages + 1 = MaxPages
             end == IF short THEN "exhausted" ELSE IF cross THEN "crossed"
                    ELSE IF last THEN "truncated" ELSE "none"
             cursor == IF page = {} THEN r.cursor ELSE Min(page)
             gap == r.gap \/ page \cap malformed # {} \/ end = "truncated"
  <1>1. a = [r EXCEPT !.read = read, !.pages = r.pages + 1, !.end = end, !.cursor = cursor, !.gap = gap]
    BY DEF Accept
  <1>2. /\ end \in {"none", "exhausted", "crossed", "truncated"}
        /\ (end = "exhausted") <=> short
        /\ (end = "crossed") => cross
        /\ (end = "none") => ~last
    OBVIOUS
  <1>3. page \subseteq Time
    BY Numbers, PageMember DEF Older
  <1>4. cursor \in Time \cup {None}
    <2>1. CASE page = {}
      BY <2>1 DEF PassRow
    <2>2. CASE page # {}
      BY <1>3, <2>2, MinFact
    <2>3. QED
      BY <2>1, <2>2
  <1>5. read \in SUBSET Time /\ r.pages + 1 \in 0 .. MaxPages /\ gap \in BOOLEAN
    BY <1>3, QueryLogConstants, SMTT(30) DEF PassRow, RowOK, Paging
  <1> HIDE DEF read, end, cursor, gap
  <1>6. /\ a \in PassRow /\ a.at = "page" /\ a.mark = r.mark /\ a.status = r.status
        /\ a.read = read /\ a.pages = r.pages + 1 /\ a.cursor = cursor /\ a.end = end /\ a.gap = gap
    <2>1. end \in {"none", "exhausted", "crossed", "truncated", "stalled"}
      BY <1>2
    <2>2. a \in PassRow
      BY <1>1, <1>4, <1>5, <2>1 DEF PassRow
    <2>3. /\ a.at = "page" /\ a.mark = r.mark /\ a.status = r.status /\ a.read = read
          /\ a.pages = r.pages + 1 /\ a.cursor = cursor /\ a.end = end /\ a.gap = gap
      BY <1>1 DEF PassRow
    <2>4. QED
      BY <2>2, <2>3
  <1>7. QED
    BY <1>2, <1>6 DEF read, cursor, gap

\* A pass that goes on, or that has read what it needs to join up, is concluded.
LEMMA ConcludeSound ==
  ASSUME TypeOK, NEW a \in PassRow, a.at = "page", a.read \subseteq logged \ malformed,
         Outlook(a.mark), a.mark # None => a.mark <= now,
         a.end = "none" => Paging(a), a.end # "none" /\ ~a.gap /\ ~Amiss(a) => Joined(a)
  PROVE  Conclude(a) \in PassRow /\ RowOK(Conclude(a))
  <1>1. CASE a.end = "none"
    BY <1>1 DEF Conclude, RowOK
  <1>2. CASE a.end # "none"
    <2>1. PICK g \in BOOLEAN : g <=> a.gap \/ Amiss(a)
      OBVIOUS
    <2>2. PICK o : o = Outcome(a, "succeeded")
      OBVIOUS
    <2>3. /\ o \in PassRow /\ o.at = "record" /\ o.status = "succeeded" /\ o.read = a.read
          /\ o.mark = a.mark /\ o.gap = a.gap
      <3>1. 0 \in 0 .. MaxPages
        BY QueryLogConstants, SMTT(30)
      <3>2. o = [a EXCEPT !.at = "record", !.status = "succeeded", !.pages = 0, !.cursor = None,
                          !.end = "none"]
        BY <2>2 DEF Outcome
      <3>3. QED
        BY <3>1, <3>2 DEF PassRow
    <2>4. PICK c : c = [o EXCEPT !.gap = g]
      OBVIOUS
    <2>5. /\ c \in PassRow /\ c.at = "record" /\ c.status = "succeeded" /\ c.read = a.read
          /\ c.mark = a.mark /\ c.gap = g
      BY <2>1, <2>3, <2>4, SMTT(30) DEF PassRow
    <2>6. Conclude(a) = c
      <3>1. (a.gap \/ Amiss(a)) = g
        BY <2>1 DEF PassRow, Amiss
      <3>2. QED
        BY <1>2, <2>2, <2>3, <2>4, <3>1 DEF Conclude
    <2>7. RowOK(c)
      BY <1>2, <2>1, <2>5 DEF RowOK, Joined
    <2>8. QED
      BY <2>5, <2>6, <2>7
  <1>3. QED
    BY <1>1, <1>2

\* A page is accepted: the pass goes on, or has joined up, or has a gap.
LEMMA PageSound ==
  ASSUME IInv, NEW r \in PassRow, RowOK(r), r.at = "page", NEW page, page = Page(r.cursor),
         NEW a, a = Accept(r, page)
  PROVE  /\ a \in PassRow /\ a.at = "page" /\ a.read \subseteq logged \ malformed /\ a.mark = r.mark
         /\ a.end = "none" => Paging(a)
         /\ a.end # "none" /\ ~a.gap /\ ~Amiss(a) => Joined(a)
  <1> USE Numbers
  <1>1. TypeOK /\ Clock /\ page \subseteq Older(r.cursor) /\ Older(r.cursor) \subseteq log
    BY PageMember DEF IInv, Older
  <1>2. /\ a \in PassRow /\ a.at = "page" /\ a.mark = r.mark
        /\ a.read = r.read \cup (page \ malformed) /\ a.pages = r.pages + 1
        /\ a.cursor = (IF page = {} THEN r.cursor ELSE Min(page))
        /\ (a.end = "exhausted") <=> Cardinality(page) < PageSize
        /\ a.end = "crossed" => r.mark # None /\ a.read # {} /\ Min(a.read) < r.mark - Overlap
        /\ a.end \in {"none", "exhausted", "crossed", "truncated"}
        /\ a.end = "none" => r.pages + 1 # MaxPages
        /\ a.gap <=> r.gap \/ page \cap malformed # {} \/ a.end = "truncated"
    BY <1>1, Accepted, SMTT(30)
  <1>3. /\ r.read \subseteq logged \ malformed /\ r.pages < MaxPages /\ r.pages \in Nat
        /\ r.mark \in Time \cup {None} /\ r.cursor \in Time \cup {None} /\ MaxPages \in Nat
    BY QueryLogConstants, SMTT(30) DEF RowOK, Paging, PassRow
  <1>4. a.read \subseteq logged \ malformed
    BY <1>1, <1>2, <1>3
  <1>5. ASSUME ~a.gap
        PROVE  /\ a.read = r.read \cup page /\ Covered(a.read)
               /\ page # {} => Min(page) \in a.read /\ \A l \in a.read : Min(page) <= l
               /\ page = {} /\ r.cursor # None =>
                    r.cursor \in a.read /\ \A l \in a.read : r.cursor <= l
               /\ r.cursor = None => r.read = {}
               /\ r.cursor # None => r.cursor \in a.read
    <2>1. a.read = r.read \cup page /\ ~r.gap
      BY <1>2, <1>5
    <2>2. /\ r.cursor = None => r.read = {}
          /\ r.cursor # None => r.cursor \in r.read
      BY <2>1 DEF RowOK, Paging
    <2>3. QED
      BY <2>1, <2>2, PageCovers
  <1>6. ASSUME a.end = "none"
        PROVE  Paging(a)
    <2>1. a.pages < MaxPages
      BY <1>2, <1>3, <1>6, SMTT(30)
    <2>2. page # {} => Min(page) \in Time
      BY <1>1, MinFact
    <2>3. ASSUME ~a.gap
          PROVE  /\ a.cursor = None => a.read = {}
                 /\ a.cursor # None => a.cursor \in a.read /\ \A l \in a.read : a.cursor <= l
      <3>1. CASE page = {}
        BY <1>1, <1>2, <1>5, <2>3, <3>1
      <3>2. CASE page # {}
        BY <1>1, <1>2, <1>5, <2>2, <2>3, <3>2
      <3>3. QED
        BY <3>1, <3>2
    <2>4. QED
      BY <1>5, <1>6, <2>1, <2>3 DEF Paging
  <1>7. ASSUME a.end # "none", ~a.gap, ~Amiss(a)
        PROVE  Joined(a)
    <2>1. a.end \in {"exhausted", "crossed"} /\ a.read \subseteq Time
      BY <1>1, <1>2, <1>4, <1>7
    <2>2. a.read # {} => /\ Min(a.read) \in a.read /\ \A y \in a.read : Min(a.read) <= y
                         /\ Max(a.read) \in a.read
      BY <2>1, MinFact, MaxFact
    <2>3. ASSUME a.mark # None
          PROVE  /\ \E h \in a.read : a.mark <= h
                 /\ \E l \in a.read : l <= a.mark + Overlap
      <3>1. /\ a.read # {} /\ ~(Max(a.read) < a.mark)
            /\ a.end = "exhausted" => ~(Min(a.read) > a.mark + Overlap)
        BY <1>7, <2>3 DEF Amiss
      <3>2. a.mark \in Int /\ Max(a.read) \in Int /\ Min(a.read) \in Int
        BY <1>1, <1>2, <1>3, <2>1, <2>2, <2>3, <3>1
      <3>3. a.mark <= Max(a.read) /\ Min(a.read) <= a.mark + Overlap
        BY <1>1, <1>2, <2>1, <3>1, <3>2, SMTT(30)
      <3>4. QED
        BY <2>2, <3>1, <3>3
    <2>4. ASSUME NEW e \in log, \A l \in a.read : e < l, a.read # {}
          PROVE  a.mark # None /\ e + Overlap < a.mark
      <3>1. e \in Int /\ e \notin a.read
        BY <1>1, <2>4, SMTT(30)
      <3>2. a.end # "exhausted"
        <4>1. SUFFICES ASSUME a.end = "exhausted" PROVE FALSE
          OBVIOUS
        <4>2. page = Older(r.cursor)
          BY <1>1, <1>2, <1>3, <4>1, ShortPageIsAll
        <4>3. e \in Older(r.cursor)
          BY <1>5, <1>7, <2>4 DEF Older
        <4>4. QED
          BY <1>5, <1>7, <3>1, <4>2, <4>3
      <3>3. /\ r.mark # None /\ Min(a.read) < r.mark - Overlap /\ e < Min(a.read)
            /\ r.mark \in Int /\ Min(a.read) \in Int
        BY <1>1, <1>2, <1>3, <2>1, <2>2, <2>4, <3>2
      <3>4. QED
        BY <1>1, <1>2, <3>1, <3>3, SMTT(30)
    <2>5. QED
      BY <1>5, <1>7, <2>3, <2>4 DEF Joined, Left
  <1>8. QED
    BY <1>2, <1>4, <1>6, <1>7

\* A page is read.
LEMMA ReadPageInv ==
  ASSUME IInv, NEW p \in Pass, ReadPage(p)
  PROVE  IInv'
  <1>1. PICK r \in PassRow : r = pass[p]
    BY DEF IInv, TypeOK
  <1>2. /\ TypeOK /\ UNCHANGED <<node, tables>> /\ changes' \in 0 .. MaxChanges
        /\ RowOK(r) /\ r.at = "page" /\ Outlook(r.mark) /\ (r.mark # None => r.mark <= now)
    BY <1>1, Counted DEF IInv, ReadPage, RowOK
  <1>3. PICK a : a = Accept(r, Page(r.cursor))
    OBVIOUS
  <1>4. Conclude(a) \in PassRow /\ RowOK(Conclude(a))
    BY <1>2, <1>3, PageSound, ConcludeSound
  <1>5. \/ state \in Refusal /\ Set(p, [Outcome(r, state) EXCEPT !.read = {}])
        \/ Set(p, Conclude(a))
    BY <1>1, <1>3 DEF ReadPage, Refused, Refusal
  <1>6. CASE state \in Refusal /\ Set(p, [Outcome(r, state) EXCEPT !.read = {}])
    BY <1>2, <1>6, OutcomeSound, MoveInv
  <1>7. CASE Set(p, Conclude(a))
    BY <1>2, <1>4, <1>7, MoveInv
  <1>8. QED
    BY <1>5, <1>6, <1>7

\* A pass that cannot page on has a gap.
LEMMA StalledSound ==
  ASSUME TypeOK, NEW a \in PassRow, a.at = "page", a.read \subseteq logged \ malformed,
         Outlook(a.mark), a.mark # None => a.mark <= now
  PROVE  LET s == [a EXCEPT !.end = "stalled", !.gap = TRUE]
         IN  Conclude(s) \in PassRow /\ RowOK(Conclude(s))
  <1>1. PICK s : s = [a EXCEPT !.end = "stalled", !.gap = TRUE]
    OBVIOUS
  <1>2. /\ s \in PassRow /\ s.at = "page" /\ s.read = a.read /\ s.mark = a.mark
        /\ s.end = "stalled" /\ s.gap
    BY <1>1 DEF PassRow
  <1>3. QED
    BY <1>1, <1>2, ConcludeSound

\* A page without a usable cursor is read.
LEMMA ReadWithoutCursorInv ==
  ASSUME IInv, NEW p \in Pass, ReadWithoutCursor(p)
  PROVE  IInv'
  <1>1. PICK r \in PassRow : r = pass[p]
    BY DEF IInv, TypeOK
  <1>2. /\ TypeOK /\ UNCHANGED <<node, tables>> /\ changes' \in 0 .. MaxChanges
        /\ RowOK(r) /\ r.at = "page" /\ Outlook(r.mark) /\ (r.mark # None => r.mark <= now)
        /\ r.read \subseteq logged \ malformed
    BY <1>1, Counted DEF IInv, ReadWithoutCursor, RowOK
  <1>3. PICK a : a = Accept(r, Page(r.cursor))
    OBVIOUS
  <1>4. /\ a \in PassRow /\ a.at = "page" /\ a.read \subseteq logged \ malformed /\ a.mark = r.mark
    BY <1>2, <1>3, PageSound
  <1>5. \/ Set(p, Conclude([a EXCEPT !.end = "stalled", !.gap = TRUE]))
        \/ Set(p, Conclude([r EXCEPT !.end = "stalled", !.gap = TRUE]))
    BY <1>1, <1>3 DEF ReadWithoutCursor
  <1>6. CASE Set(p, Conclude([a EXCEPT !.end = "stalled", !.gap = TRUE]))
    BY <1>2, <1>4, <1>6, StalledSound, MoveInv
  <1>7. CASE Set(p, Conclude([r EXCEPT !.end = "stalled", !.gap = TRUE]))
    BY <1>2, <1>7, StalledSound, MoveInv
  <1>8. QED
    BY <1>5, <1>6, <1>7

\* Recording a pass

\* What a pass that succeeds makes of the checkpoint's watermark: it moves to the
\* newest entry read, if that is newer.
LEMMA Advanced ==
  ASSUME TypeOK, NEW r \in PassRow, r.read \subseteq logged, NEW m, m = Advance(r)
  PROVE  /\ m \in Time \cup {None}
         /\ r.read = {} => m = r.mark
         /\ r.read # {} => /\ m # None /\ Max(r.read) \in r.read /\ \A h \in r.read : h <= Max(r.read)
                           /\ r.mark = None => m = Max(r.read)
                           /\ r.mark # None => m \in {Max(r.read), r.mark}
  <1> USE Numbers
  <1>1. r.mark \in Time \cup {None} /\ r.read \subseteq Time
    BY DEF PassRow
  <1>2. CASE r.read = {}
    BY <1>1, <1>2 DEF Advance
  <1>3. CASE r.read # {}
    <2>1. Max(r.read) \in r.read /\ Max(r.read) \in Time /\ \A h \in r.read : Max(r.read) >= h
      BY <1>1, <1>3, MaxFact
    <2>2. \A h \in r.read : h <= Max(r.read)
      BY <1>1, <2>1
    <2>3. CASE r.mark = None
      BY <1>3, <2>1, <2>2, <2>3 DEF Advance
    <2>4. CASE r.mark # None
      <3>1. m = Max(r.read \cup {r.mark})
        BY <1>3, <2>4 DEF Advance
      <3>2. PICK S : S = r.read \cup {r.mark}
        OBVIOUS
      <3>3. Max(S) \in S /\ \A y \in S : Max(S) >= y
        BY <1>1, <2>4, <3>2, MaxFact
      <3>4. m \in Int /\ Max(r.read) \in Int /\ m >= Max(r.read) /\ m \in S /\ m \in Time
        BY <1>1, <2>1, <2>4, <3>1, <3>2, <3>3
      <3>5. m \in r.read => m = Max(r.read)
        BY <2>2, <3>4, SMTT(30)
      <3>6. QED
        BY <1>3, <2>1, <2>2, <2>4, <3>2, <3>4, <3>5
    <2>5. QED
      BY <2>3, <2>4
  <1>4. QED
    BY <1>2, <1>3

\* The new watermark has the outlook too: what was not read before it came late, lies
\* under a gap, or was already within reach of the old watermark.
LEMMA NewOutlook ==
  ASSUME TypeOK, Clock, NEW r \in PassRow, RowOK(r), r.at = "record", r.status = "succeeded",
         UNCHANGED node, NEW m, m = Advance(r),
         stored' = stored \cup r.read, reported' = IF r.gap THEN reported \cup Under(r) ELSE reported
  PROVE  Outlook(m)' /\ (m # None => m <= now')
  <1> USE Numbers
  <1>1. /\ r.read \subseteq logged /\ r.mark \in Time \cup {None} /\ Outlook(r.mark)
        /\ r.mark # None => r.mark <= now
        /\ ~r.gap => Joined(r)
    BY DEF RowOK, PassRow
  <1>2. /\ m \in Time \cup {None}
        /\ r.read = {} => m = r.mark
        /\ r.read # {} => /\ m # None /\ Max(r.read) \in r.read /\ \A h \in r.read : h <= Max(r.read)
                          /\ r.mark = None => m = Max(r.read)
                          /\ r.mark # None => m \in {Max(r.read), r.mark}
    BY <1>1, Advanced
  <1>3. /\ now' = now /\ log' = log /\ stored \subseteq stored' /\ reported \subseteq reported'
        /\ \A e : Expired(e)' <=> Expired(e)
    BY DEF node, Expired
  <1>4. m # None => m <= now'
    BY <1>1, <1>2, <1>3 DEF Clock
  <1>5. ASSUME NEW e \in log, e \notin stored' \cup reported', m # None
        PROVE  Expired(e) \/ e >= m - Overlap
    <2>1. e \in Int /\ e \notin r.read /\ m \in Int
      BY <1>2, <1>5
    <2>2. CASE m = r.mark
      BY <1>1, <1>3, <1>5, <2>2 DEF Outlook
    <2>3. CASE m # r.mark
      <3>1. /\ r.read # {} /\ m = Max(r.read) /\ m \in r.read
        BY <1>2, <1>5, <2>3
      <3>2. CASE r.gap
        <4>1. ~(e <= m)
          BY <1>5, <3>1, <3>2 DEF Under
        <4>2. QED
          BY <2>1, <4>1, SMTT(30)
      <3>3. CASE ~r.gap
        <4>1. Covered(r.read) /\ Left(r.read, r.mark)
          BY <1>1, <3>1, <3>3 DEF Joined
        <4>2. CASE \E l \in r.read : l <= e
          <5>1. m <= e + Overlap
            BY <2>1, <3>1, <4>1, <4>2 DEF Covered
          <5>2. QED
            BY <2>1, <5>1, SMTT(30)
        <4>3. CASE \A l \in r.read : e < l
          <5>1. m <= e + Overlap \/ (r.mark # None /\ e + Overlap < r.mark)
            BY <1>5, <3>1, <4>1, <4>3 DEF Left
          <5>2. CASE m <= e + Overlap
            BY <2>1, <5>2, SMTT(30)
          <5>3. CASE r.mark # None /\ e + Overlap < r.mark
            <6>1. Expired(e) \/ e >= r.mark - Overlap
              BY <1>1, <1>3, <1>5, <5>3 DEF Outlook
            <6>2. QED
              BY <1>1, <2>1, <5>3, <6>1, SMTT(30)
          <5>4. QED
            BY <5>1, <5>2, <5>3
        <4>4. \A l \in r.read : l <= e \/ e < l
          BY <1>1, <2>1, SMTT(30)
        <4>5. QED
          BY <4>2, <4>3, <4>4
      <3>4. QED
        BY <3>2, <3>3
    <2>4. QED
      BY <2>2, <2>3
  <1>6. Outlook(m)'
    BY <1>3, <1>5 DEF Outlook
  <1>7. QED
    BY <1>4, <1>6

\* A pass is recorded.
LEMMA RecordInv ==
  ASSUME IInv, NEW p \in Pass, RecordQueryLogPoll(p)
  PROVE  IInv'
  <1> USE Numbers
  <1>1. PICK r \in PassRow : r = pass[p]
    BY DEF IInv, TypeOK
  <1>2. PICK n : n = IF p = Worker THEN [NoPass EXCEPT !.at = "cleanup"] ELSE NoPass
    OBVIOUS
  <1>3. /\ TypeOK /\ Clock /\ RowOK(r) /\ r.at = "record" /\ Set(p, n)
        /\ UNCHANGED node /\ changes' \in 0 .. MaxChanges
    BY <1>1, <1>2, Counted DEF IInv, RecordQueryLogPoll
  <1>4. /\ r.read \subseteq logged \ malformed /\ r.mark \in Time \cup {None} /\ Outlook(r.mark)
        /\ r.mark # None => r.mark <= now
    BY <1>3 DEF RowOK, PassRow
  <1>5. PICK m : m = IF r.status = "succeeded" THEN Advance(r) ELSE r.mark
    OBVIOUS
  <1>6. /\ stored' = IF r.status = "succeeded" THEN stored \cup r.read ELSE stored
        /\ reported' = IF r.status = "succeeded" /\ r.gap THEN reported \cup Under(r) ELSE reported
        /\ checkpoint' = [mark |-> m, status |-> r.status, gap |-> r.gap, logging |-> r.logging,
                          succeeded |-> r.status = "succeeded" \/ r.succeeded]
    BY <1>1, <1>5 DEF RecordQueryLogPoll
  <1>7. m \in Time \cup {None} /\ Outlook(m)' /\ (m # None => m <= now')
    <2>1. CASE r.status = "succeeded"
      BY <1>3, <1>4, <1>5, <1>6, <2>1, Advanced, NewOutlook
    <2>2. CASE r.status # "succeeded"
      BY <1>3, <1>4, <1>5, <1>6, <2>2 DEF Outlook, Expired, node
    <2>3. QED
      BY <2>1, <2>2
  <1>8. /\ stored \subseteq stored' /\ reported \subseteq reported'
        /\ stored' \subseteq logged \ malformed /\ reported' \subseteq logged
    BY <1>3, <1>4, <1>6 DEF TypeOK, Under
  <1>9. /\ checkpoint'.mark = m
        /\ checkpoint' \in [mark : Time \cup {None}, status : {"none", "succeeded"} \cup Refusal,
                            gap : BOOLEAN, logging : BOOLEAN \cup {None}, succeeded : BOOLEAN]
    BY <1>6, <1>7 DEF PassRow
  <1>10. Env
    BY <1>3, <1>8, SMTT(30) DEF Env, node
  <1>11. Outlook(checkpoint.mark)' /\ (checkpoint.mark # None => checkpoint.mark <= now)'
    BY <1>7, <1>9 DEF Outlook
  <1>12. n \in PassRow /\ RowOK(n)'
    BY <1>2, RestSound
  <1>13. QED
    BY <1>3, <1>8, <1>9, <1>10, <1>11, <1>12, PassInv

-----------------------------------------------------------------------------

\* A step preserves the invariant.
LEMMA NextInv ==
  ASSUME IInv, [Next]_vars
  PROVE  IInv'
  <1>1. CASE \E t \in Time : Log(t)
    BY <1>1, LogInv
  <1>2. CASE \E t \in Time : Forget(t)
    BY <1>2, ForgetInv
  <1>3. CASE \E s \in State : Become(s)
    BY <1>3, BecomeInv
  <1>4. CASE \E p \in Pass : Step(p)
    <2>1. PICK p \in Pass : Step(p)
      BY <1>4
    <2>2. QED
      BY <2>1, BeginPassInv, ReadConfigInv, ReadPageInv, RecordInv, CleanupInv DEF Step
  <1>5. CASE \E p \in Pass : ReadWithoutCursor(p)
    BY <1>5, ReadWithoutCursorInv
  <1>6. CASE \E p \in Pass : PassFails(p)
    BY <1>6, PassFailsInv
  <1>7. CASE UNCHANGED vars
    <2>1. TypeOK /\ Clock /\ UNCHANGED <<pass, checkpoint>>
      BY <1>7 DEF IInv, vars
    <2>2. Env /\ TypeOK' /\ Clock'
      BY <1>7, <2>1, Numbers, SMTT(30) DEF Env, TypeOK, Clock, vars
    <2>3. QED
      BY <2>1, <2>2, NodeInv
  <1>8. QED
    BY <1>1, <1>2, <1>3, <1>4, <1>5, <1>6, <1>7 DEF Next

\* In every state the watermark, and the copy of it each pass works on, has its
\* outlook, and what a pass has read so far has no holes that it does not report.
THEOREM Invariant == Spec => []IInv
  <1>1. Init => IInv
    BY InitInv
  <1>2. IInv /\ [Next]_vars => IInv'
    BY NextInv
  <1>3. QED
    BY <1>1, <1>2, PTL DEF Spec

\* RecordQueryLogPoll moves no watermark past an entry on the node that is neither
\* stored nor reported, also when passes overtake each other, pages run out, the log
\* is cut or retention deletes events in between.
THEOREM NothingIsSkipped == Spec => []NothingSkipped
  <1>1. IInv => NothingSkipped
    BY DEF IInv, Outlook, NothingSkipped
  <1>2. QED
    BY <1>1, Invariant, PTL

\* What a success without a gap moves the watermark past is stored.
LEMMA RecordLosesNothing ==
  ASSUME IInv, NEW p \in Pass, RecordQueryLogPoll(p), pass[p].status = "succeeded", ~pass[p].gap,
         pass[p].mark # None,
         NEW e \in logged, pass[p].mark + Overlap <= e, e < checkpoint'.mark - Overlap
  PROVE  e \in stored'
  <1> USE Numbers
  <1>1. PICK r \in PassRow : r = pass[p]
    BY DEF IInv, TypeOK
  <1>2. /\ TypeOK /\ RowOK(r) /\ r.at = "record" /\ r.status = "succeeded" /\ ~r.gap /\ r.mark # None
        /\ r.mark + Overlap <= e /\ e < checkpoint'.mark - Overlap
    BY <1>1 DEF IInv, RecordQueryLogPoll
  <1>3. stored' = stored \cup r.read /\ checkpoint'.mark = Advance(r)
    BY <1>1, <1>2 DEF RecordQueryLogPoll
  <1>4. /\ r.read \subseteq logged /\ r.mark \in Time \cup {None} /\ Joined(r)
    BY <1>2 DEF RowOK, PassRow
  <1>5. /\ r.read # {} /\ Covered(r.read) /\ \E l \in r.read : l <= r.mark + Overlap
    BY <1>2, <1>4 DEF Joined
  <1>6. PICK m : m = Advance(r)
    OBVIOUS
  <1>7. m \in Time \cup {None} /\ m # None /\ m \in r.read \cup {r.mark}
    BY <1>2, <1>4, <1>5, <1>6, Advanced, SMTT(30)
  <1>8. m \in Int /\ r.mark \in Int /\ e \in Int /\ e < m - Overlap
    BY <1>2, <1>3, <1>4, <1>6, <1>7
  <1>9. m \in r.read /\ ~(m <= e + Overlap)
    BY <1>2, <1>7, <1>8, SMTT(30)
  <1>10. \E l \in r.read : l <= e
    <2>1. PICK l \in r.read : l <= r.mark + Overlap
      BY <1>5
    <2>2. l \in Int
      BY <1>2, <1>4
    <2>3. QED
      BY <1>2, <1>8, <2>1, <2>2, SMTT(30)
  <1>11. e \in r.read
    BY <1>5, <1>9, <1>10 DEF Covered
  <1>12. QED
    BY <1>3, <1>11

\* A pass that RecordQueryLogPoll records as a success without a gap has stored all
\* that was ever logged between its two watermarks, give or take the overlap: an
\* entry the node dropped before it was read shows up as a gap.
THEOREM LossIsReported == Spec => NoSilentLoss
  <1>1. ASSUME IInv, [Next]_vars, NEW p \in Pass, pass[p].at = "record", pass'[p].at # "record",
               checkpoint' # checkpoint
        PROVE  RecordQueryLogPoll(p)
    <2>1. PICK q \in Pass : RecordQueryLogPoll(q)
      BY <1>1 DEF Next, vars, tables, Log, Forget, Become, Step, BeginPass, ReadQueryLogConfig,
                  ReadPage, Cleanup, ReadWithoutCursor, PassFails
    <2>2. q = p
      BY <1>1, <2>1 DEF RecordQueryLogPoll, Set, IInv, TypeOK
    <2>3. QED
      BY <2>1, <2>2
  <1>2. IInv /\ [Next]_vars =>
          [\A p \in Pass :
             LET r == pass[p]
             IN  r.at = "record" /\ pass'[p].at # "record" /\ checkpoint' # checkpoint
                 /\ r.status = "succeeded" /\ ~r.gap /\ r.mark # None
                   => \A e \in logged : r.mark + Overlap <= e /\ e < checkpoint'.mark - Overlap
                                          => e \in stored']_vars
    BY <1>1, RecordLosesNothing
  <1>3. QED
    BY <1>2, Invariant, PTL DEF Spec, NoSilentLoss

=============================================================================
