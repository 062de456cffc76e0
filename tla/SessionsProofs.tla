--------------------------- MODULE SessionsProofs ---------------------------
(***************************************************************************)
(* Theorems about users, sessions and the second factor, for every set of  *)
(* users, sessions, challenges, codes and requests.                        *)
(***************************************************************************)
EXTENDS Sessions, TLAPS

\* Zenon proves the steps that name no other prover.
USE ZenonT(30)

(* A request that is past its reads names a user.  One that answers a      *)
(* challenge names a challenge that was issued, and as long as that is     *)
(* open it is the challenge of the user the request names.                 *)
RequestKnown(r) ==
  /\ r.kind \notin {"idle", "setup"} => r.user \in User
  /\ r.kind \in {"complete", "fail"} =>
       /\ r.challenge \in Challenge
       /\ challenges[r.challenge].status # "none"
       /\ challenges[r.challenge].status = "open" => challenges[r.challenge].user = r.user
RequestsKnown == \A q \in Slot : RequestKnown(req[q])

(* An open challenge is the challenge of some user. *)
OpenKnown == \A c \in Challenge : challenges[c].status = "open" => challenges[c].user \in User

(* What has led to a session is no longer of use: the challenge is closed, *)
(* and the recovery code is of an older generation or was struck out.      *)
SpentUseless ==
  /\ \A c \in Challenge : c \in spent => challenges[c].status = "closed"
  /\ \A u \in User, g \in 1 .. MaxGeneration, k \in Code : <<u, <<g, k>>>> \in spent =>
       /\ g <= codes[u].generation
       /\ g = codes[u].generation => k \notin codes[u].left

IInv ==
  /\ TypeOK /\ RequestsKnown /\ OpenKnown /\ SpentUseless
  /\ AdministratorRemains /\ DisabledHasNoSession /\ FactorUsedOnce

-----------------------------------------------------------------------------
\* What a step may do to one table, and what that keeps

(* A challenge is opened once, keeps its user while it is open, and stays  *)
(* closed.                                                                 *)
ChallengesAdvance ==
  \A c \in Challenge :
    \/ challenges'[c] = challenges[c]
    \/ /\ challenges[c].status = "open"
       /\ challenges'[c].status \in {"open", "closed"}
       /\ challenges'[c].user = challenges[c].user \/ challenges'[c].status = "closed"
    \/ challenges[c].status = "none" /\ challenges'[c].status = "open" /\ challenges'[c].user \in User

(* Codes are struck out, or replaced by those of a later generation. *)
CodesAdvance ==
  \A u \in User :
    \/ codes'[u].generation = codes[u].generation /\ codes'[u].left \subseteq codes[u].left
    \/ codes'[u].generation > codes[u].generation

(* A request goes on unchanged, or ends. *)
RequestsEnd == \A q \in Slot : req'[q] = req[q] \/ req'[q] = Idle

(* A challenge that only advances does not contradict a request. *)
LEMMA KnownWhileAdvancing ==
  ASSUME IInv, ChallengesAdvance, NEW r, RequestKnown(r)
  PROVE  RequestKnown(r)'
BY DEF ChallengesAdvance, RequestKnown

(* Requests that only end, and challenges that only advance, leave what a  *)
(* request names known.                                                    *)
LEMMA RequestsStayKnown ==
  ASSUME IInv, ChallengesAdvance, RequestsEnd
  PROVE  RequestsKnown'
<1> SUFFICES ASSUME NEW q \in Slot PROVE RequestKnown(req[q])'
  BY DEF RequestsKnown
<1>1. CASE req'[q] = req[q]
  <2>1. PICK r : r = req[q]
    OBVIOUS
  <2>2. RequestKnown(r)
    BY <2>1 DEF IInv, RequestsKnown
  <2>3. RequestKnown(r)'
    BY <2>2, KnownWhileAdvancing
  <2> QED
    BY <1>1, <2>1, <2>3 DEF RequestKnown
<1>2. CASE req'[q] = Idle
  BY <1>2, SMTT(30) DEF RequestKnown, Idle
<1> QED
  BY <1>1, <1>2 DEF RequestsEnd

(* A challenge that stays open keeps its user. *)
LEMMA OpenStaysKnown ==
  ASSUME IInv, ChallengesAdvance
  PROVE  OpenKnown'
BY DEF IInv, OpenKnown, ChallengesAdvance

(* Closed challenges and used or replaced codes stay so. *)
LEMMA SpentStaysUseless ==
  ASSUME IInv, TypeOK', ChallengesAdvance, CodesAdvance, UNCHANGED spent
  PROVE  SpentUseless'
<1>1. ASSUME NEW c \in Challenge, c \in spent PROVE challenges'[c].status = "closed"
  BY <1>1 DEF IInv, SpentUseless, ChallengesAdvance
<1>2. ASSUME NEW u \in User, NEW g \in 1 .. MaxGeneration, NEW k \in Code, <<u, <<g, k>>>> \in spent
      PROVE  g <= codes'[u].generation /\ (g = codes'[u].generation => k \notin codes'[u].left)
  <2>1. g <= codes[u].generation /\ (g = codes[u].generation => k \notin codes[u].left)
    BY <1>2 DEF IInv, SpentUseless
  <2>2. codes[u].generation \in Nat /\ codes'[u].generation \in Nat
    BY SessionConstants, SMTT(30) DEF IInv, TypeOK
  <2> QED
    BY <2>1, <2>2, SessionConstants, SMTT(30) DEF CodesAdvance
<1> QED
  BY <1>1, <1>2 DEF SpentUseless

(* A step that leaves users alone, opens sessions for enabled users only,  *)
(* and lets requests, challenges and codes only advance, keeps everything. *)
LEMMA AdvanceKeeps ==
  ASSUME IInv, TypeOK', ChallengesAdvance, CodesAdvance, RequestsEnd, UNCHANGED <<users, ghosts>>,
         \A s \in Session : sessions'[s] \in {sessions[s], None} \/ users[sessions'[s]] = "enabled"
  PROVE  IInv'
<1>1. RequestsKnown' /\ OpenKnown' /\ SpentUseless'
  BY RequestsStayKnown, OpenStaysKnown, SpentStaysUseless DEF ghosts
<1>2. AdministratorRemains' /\ FactorUsedOnce'
  BY DEF IInv, AdministratorRemains, FactorUsedOnce, HasUsers, ghosts
<1>3. DisabledHasNoSession'
  BY DEF IInv, DisabledHasNoSession
<1> QED
  BY <1>1, <1>2, <1>3 DEF IInv

(* A request that is let in, and known, changes nothing else. *)
LEMMA BeginKeeps ==
  ASSUME IInv, NEW q \in Slot, NEW r, Begin(q, r), RequestKnown(r),
         r \in [kind : Kind, user : User \cup {None}, session : Session \cup {None},
                challenge : Challenge \cup {None}, code : RecoveryCode \cup {None}],
         UNCHANGED <<users, mfa, codes, sessions, challenges, ghosts>>
  PROVE  IInv'
<1>1. req' = [req EXCEPT ![q] = r]
  BY DEF Begin
<1>2. TypeOK'
  BY <1>1 DEF IInv, TypeOK, ghosts
<1>3. RequestsKnown'
  BY <1>1 DEF IInv, TypeOK, RequestsKnown, RequestKnown
<1>4. OpenKnown' /\ SpentUseless' /\ AdministratorRemains' /\ DisabledHasNoSession' /\ FactorUsedOnce'
  BY DEF IInv, OpenKnown, SpentUseless, AdministratorRemains, HasUsers, DisabledHasNoSession,
         FactorUsedOnce, ghosts
<1> QED
  BY <1>2, <1>3, <1>4 DEF IInv

-----------------------------------------------------------------------------
\* The writes that several transactions share

(* The end of a request ends that request and no other. *)
LEMMA DoneEnds ==
  ASSUME IInv, NEW q \in Slot, Done(q)
  PROVE  /\ RequestsEnd
         /\ req' \in [Slot -> [kind : Kind, user : User \cup {None}, session : Session \cup {None},
                               challenge : Challenge \cup {None}, code : RecoveryCode \cup {None}]]
<1>1. Idle \in [kind : Kind, user : User \cup {None}, session : Session \cup {None},
                challenge : Challenge \cup {None}, code : RecoveryCode \cup {None}]
  BY DEF Idle, Kind
<1> QED
  BY <1>1 DEF IInv, TypeOK, Done, RequestsEnd

(* Every kind but the idle one and setup names its user. *)
LEMMA RequestUser ==
  ASSUME IInv, NEW q \in Slot, req[q].kind \notin {"idle", "setup"}
  PROVE  req[q].user \in User
BY DEF IInv, RequestsKnown, RequestKnown

(* The row of a closed challenge is a row of the table. *)
LEMMA ClosedType ==
  Closed \in [status : {"none", "open", "closed"}, user : User \cup {None}, failed : 0 .. MaxFailures]
BY SessionConstants, SMTT(30) DEF Closed, NoChallenge

(* Invalidating a user's challenges only closes challenges. *)
LEMMA InvalidatedAdvance ==
  ASSUME IInv, NEW u \in User, challenges' = Invalidated(u)
  PROVE  /\ ChallengesAdvance
         /\ challenges' \in [Challenge -> [status : {"none", "open", "closed"},
                                           user : User \cup {None}, failed : 0 .. MaxFailures]]
<1>1. ChallengesAdvance
  BY DEF ChallengesAdvance, Invalidated, Closed, NoChallenge
<1> QED
  BY <1>1, ClosedType DEF IInv, TypeOK, Invalidated

(* Revoking ends every session of the user but the one kept, and starts    *)
(* none.                                                                   *)
LEMMA RevokedEnds ==
  ASSUME IInv, NEW u \in User, NEW kept, sessions' = Revoked(u, kept)
  PROVE  /\ sessions' \in [Session -> User \cup {None}]
         /\ \A s \in Session : sessions'[s] \in {sessions[s], None}
         /\ \A s \in Session : sessions'[s] = u => s = kept
BY SessionConstants DEF IInv, TypeOK, Revoked

(* New recovery codes are of a new generation, and only of this user. *)
LEMMA InsertAdvance ==
  ASSUME IInv, NEW u \in User, InsertRecoveryCodes(u)
  PROVE  /\ CodesAdvance
         /\ codes' \in [User -> [generation : 0 .. MaxGeneration, left : SUBSET Code]]
         /\ \A v \in User \ {u} : codes'[v] = codes[v]
<1>1. PICK g \in 1 .. MaxGeneration :
        /\ \A v \in User : codes[v].generation < g
        /\ codes' = [codes EXCEPT ![u] = [generation |-> g, left |-> Code]]
  BY DEF InsertRecoveryCodes
<1>2. [generation |-> g, left |-> Code] \in [generation : 0 .. MaxGeneration, left : SUBSET Code]
  BY SessionConstants, SMTT(30)
<1>3. codes' \in [User -> [generation : 0 .. MaxGeneration, left : SUBSET Code]]
  BY <1>1, <1>2 DEF IInv, TypeOK
<1>4. CodesAdvance
  <2> SUFFICES ASSUME NEW v \in User
               PROVE  \/ codes'[v].generation = codes[v].generation /\ codes'[v].left \subseteq codes[v].left
                      \/ codes'[v].generation > codes[v].generation
    BY DEF CodesAdvance
  <2>1. CASE v = u
    BY <1>1, <2>1, SessionConstants DEF IInv, TypeOK
  <2>2. CASE v # u
    BY <1>1, <2>2 DEF IInv, TypeOK
  <2> QED
    BY <2>1, <2>2
<1> QED
  BY <1>1, <1>3, <1>4 DEF IInv, TypeOK

(* Striking out codes of a user. *)
LEMMA StrikeAdvance ==
  ASSUME IInv, NEW u \in User, NEW left \in SUBSET codes[u].left, codes' = [codes EXCEPT ![u].left = left]
  PROVE  /\ CodesAdvance
         /\ codes' \in [User -> [generation : 0 .. MaxGeneration, left : SUBSET Code]]
         /\ codes'[u].left = left
         /\ \A v \in User : codes'[v].generation = codes[v].generation
<1>1. codes[u] \in [generation : 0 .. MaxGeneration, left : SUBSET Code]
  BY DEF IInv, TypeOK
<1>2. codes' = [codes EXCEPT ![u] = [generation |-> codes[u].generation, left |-> left]]
  <2>1. [codes[u] EXCEPT !.left = left] = [generation |-> codes[u].generation, left |-> left]
    BY <1>1, SMTT(30)
  <2>2. codes' = [codes EXCEPT ![u] = [codes[u] EXCEPT !.left = left]]
    OBVIOUS
  <2> QED
    BY <2>1, <2>2
<1>3. [generation |-> codes[u].generation, left |-> left] \in [generation : 0 .. MaxGeneration, left : SUBSET Code]
  BY <1>1
<1> QED
  BY <1>2, <1>3, SMTT(30) DEF IInv, TypeOK, CodesAdvance

(* Removing the second factor keeps the generation and strikes out its     *)
(* codes.                                                                  *)
LEMMA WithoutAdvance ==
  ASSUME IInv, NEW u \in User, Without(u)
  PROVE  /\ CodesAdvance /\ ChallengesAdvance
         /\ codes' \in [User -> [generation : 0 .. MaxGeneration, left : SUBSET Code]]
         /\ \A v \in User : codes'[v].generation = codes[v].generation
         /\ challenges' \in [Challenge -> [status : {"none", "open", "closed"},
                                           user : User \cup {None}, failed : 0 .. MaxFailures]]
         /\ mfa' \in [User -> {"off", "pending", "on"}]
         /\ \A v \in User \ {u} : mfa'[v] = mfa[v]
<1>1. {} \in SUBSET codes[u].left
  OBVIOUS
<1>2. mfa' \in [User -> {"off", "pending", "on"}] /\ \A v \in User \ {u} : mfa'[v] = mfa[v]
  BY DEF Without, IInv, TypeOK
<1> QED
  BY <1>1, <1>2, StrikeAdvance, InvalidatedAdvance DEF Without

-----------------------------------------------------------------------------
\* Every action preserves the invariant

(* A request as a record. *)
LEMMA RequestRecord ==
  ASSUME NEW kind, NEW u, NEW s
  PROVE  Request(kind, u, s) = [kind |-> kind, user |-> u, session |-> s, challenge |-> None, code |-> None]
<1>1. PICK a : a = [Idle EXCEPT !.kind = kind]
  OBVIOUS
<1>2. PICK b : b = [a EXCEPT !.user = u]
  OBVIOUS
<1>3. a = [kind |-> kind, user |-> None, session |-> None, challenge |-> None, code |-> None]
  BY <1>1 DEF Idle
<1>4. b = [kind |-> kind, user |-> u, session |-> None, challenge |-> None, code |-> None]
  BY <1>2, <1>3
<1>5. [b EXCEPT !.session = s] = [kind |-> kind, user |-> u, session |-> s, challenge |-> None, code |-> None]
  BY <1>4, SMTT(30)
<1>6. Request(kind, u, s) = [b EXCEPT !.session = s]
  BY <1>1, <1>2 DEF Request
<1> QED
  BY <1>5, <1>6

(* What lets a request in makes it known. *)
LEMMA LetIn ==
  ASSUME IInv, NEW q \in Slot,
         \/ Setup(q) \/ \E u \in User : Login(q, u)
         \/ \E s \in Session : \/ StartMFAEnrollment(q, s) \/ VerifyMFAEnrollment(q, s)
                               \/ RegenerateRecoveryCodes(q, s) \/ StartDisableMFA(q, s)
                               \/ StartPasswordChange(q, s)
  PROVE  IInv'
<1>1. ASSUME NEW kind \in Kind \ {"complete", "fail"}, NEW u \in User \cup {None},
             NEW s \in Session \cup {None}, u \in User \/ kind \in {"idle", "setup"},
             Begin(q, Request(kind, u, s)), UNCHANGED <<users, mfa, codes, sessions, challenges, ghosts>>
      PROVE  IInv'
  <2>1. Request(kind, u, s) = [kind |-> kind, user |-> u, session |-> s, challenge |-> None, code |-> None]
    BY RequestRecord
  <2>2. RequestKnown(Request(kind, u, s))
    BY <1>1, <2>1, SMTT(30) DEF RequestKnown
  <2> QED
    BY <1>1, <2>1, <2>2, BeginKeeps
<1>2. CASE Setup(q)
  BY <1>1, <1>2 DEF Setup, Kind
<1>3. ASSUME NEW u \in User, Login(q, u) PROVE IInv'
  BY <1>1, <1>3 DEF Login, Kind
<1>4. ASSUME NEW s \in Session, NEW kind \in Kind \ {"complete", "fail"}, NEW states, BeginOwn(q, s, kind, states)
      PROVE  IInv'
  <2>1. sessions[s] \in User
    BY <1>4 DEF BeginOwn, AuthenticatedSession, IInv, TypeOK
  <2> QED
    BY <1>1, <1>4, <2>1 DEF BeginOwn
<1> QED
  BY <1>2, <1>3, <1>4 DEF StartMFAEnrollment, VerifyMFAEnrollment, RegenerateRecoveryCodes,
     StartDisableMFA, StartPasswordChange, Kind

(* An answer to a challenge keeps the invariant. *)
LEMMA AnswerChallengeInv ==
  ASSUME IInv, NEW q \in Slot, NEW c \in Challenge, AnswerChallenge(q, c)
  PROVE  IInv'
<1>1. challenges[c].status = "open" /\ challenges[c].user \in User
  BY DEF AnswerChallenge, MFAChallengeByTokenHash, Pending, IInv, OpenKnown
<1>2. ASSUME NEW kind \in {"complete", "fail"}, NEW code \in RecoveryCode \cup {None},
             Begin(q, [kind |-> kind, user |-> challenges[c].user, session |-> None, challenge |-> c, code |-> code])
      PROVE  IInv'
  <2> DEFINE r == [kind |-> kind, user |-> challenges[c].user, session |-> None, challenge |-> c, code |-> code]
  <2>1. RequestKnown(r)
    BY <1>1, <1>2 DEF RequestKnown
  <2>2. r \in [kind : Kind, user : User \cup {None}, session : Session \cup {None},
               challenge : Challenge \cup {None}, code : RecoveryCode \cup {None}]
    BY <1>1, <1>2 DEF Kind
  <2>3. UNCHANGED <<users, mfa, codes, sessions, challenges, ghosts>>
    BY DEF AnswerChallenge
  <2> QED
    BY <1>2, <2>1, <2>2, <2>3, BeginKeeps
<1>3. ASSUME NEW g \in 1 .. codes[challenges[c].user].generation, NEW k \in Code
      PROVE  <<g, k>> \in RecoveryCode
  <2>1. codes[challenges[c].user].generation \in 0 .. MaxGeneration
    BY <1>1 DEF IInv, TypeOK
  <2> QED
    BY <2>1, SessionConstants, SMTT(30) DEF RecoveryCode
<1> DEFINE r == [kind |-> "complete", user |-> challenges[c].user, session |-> None, challenge |-> c, code |-> None]
<1>4. [Request("complete", challenges[c].user, None) EXCEPT !.challenge = c] = r
  BY RequestRecord, SMTT(30)
<1>5. \/ Begin(q, r)
      \/ \E g \in 1 .. codes[challenges[c].user].generation, k \in Code : Begin(q, [r EXCEPT !.code = <<g, k>>])
      \/ Begin(q, [r EXCEPT !.kind = "fail"])
  BY <1>4 DEF AnswerChallenge
<1>6. [r EXCEPT !.kind = "fail"]
        = [kind |-> "fail", user |-> challenges[c].user, session |-> None, challenge |-> c, code |-> None]
  BY SMTT(30)
<1>7. ASSUME NEW code
      PROVE  [r EXCEPT !.code = code]
               = [kind |-> "complete", user |-> challenges[c].user, session |-> None, challenge |-> c, code |-> code]
  BY SMTT(30)
<1>8. CASE Begin(q, r)
  BY <1>2, <1>8
<1>9. ASSUME NEW g \in 1 .. codes[challenges[c].user].generation, NEW k \in Code, Begin(q, [r EXCEPT !.code = <<g, k>>])
      PROVE  IInv'
  <2>1. Begin(q, [kind |-> "complete", user |-> challenges[c].user, session |-> None, challenge |-> c, code |-> <<g, k>>])
    BY <1>7, <1>9
  <2> QED
    BY <1>2, <1>3, <2>1
<1>10. CASE Begin(q, [r EXCEPT !.kind = "fail"])
  <2>1. Begin(q, [kind |-> "fail", user |-> challenges[c].user, session |-> None, challenge |-> c, code |-> None])
    BY <1>6, <1>10
  <2> QED
    BY <1>2, <2>1
<1> QED
  BY <1>5, <1>8, <1>9, <1>10

(* The transactions of requests that only end sessions or challenges. *)
LEMMA RequestFailsInv ==
  ASSUME IInv, NEW q \in Slot, RequestFails(q)
  PROVE  IInv'
<1>1. TypeOK'
  BY DoneEnds DEF RequestFails, IInv, TypeOK, ghosts
<1> QED
  BY <1>1, DoneEnds, AdvanceKeeps DEF RequestFails, ChallengesAdvance, CodesAdvance

(* So does a change of the own password, which ends the other sessions. *)
LEMMA ChangeOwnPasswordInv ==
  ASSUME IInv, NEW q \in Slot, ChangeOwnPassword(q)
  PROVE  IInv'
<1>1. req[q].user \in User
  BY RequestUser DEF ChangeOwnPassword
<1>2. /\ sessions' \in [Session -> User \cup {None}]
      /\ \A s \in Session : sessions'[s] \in {sessions[s], None}
  BY <1>1, RevokedEnds DEF ChangeOwnPassword, IInv, TypeOK
<1>3. TypeOK'
  BY <1>2, DoneEnds DEF ChangeOwnPassword, IInv, TypeOK, ghosts
<1> QED
  BY <1>2, <1>3, DoneEnds, AdvanceKeeps DEF ChangeOwnPassword, ChallengesAdvance, CodesAdvance

(* A pending enrolment is not a second factor yet. *)
LEMMA UpsertPendingInv ==
  ASSUME IInv, NEW q \in Slot, UpsertPendingMFA(q)
  PROVE  IInv'
<1>1. mfa' \in [User -> {"off", "pending", "on"}]
  BY DEF UpsertPendingMFA, IInv, TypeOK
<1>2. TypeOK'
  BY <1>1, DoneEnds DEF UpsertPendingMFA, IInv, TypeOK, ghosts
<1> QED
  BY <1>2, DoneEnds, AdvanceKeeps DEF UpsertPendingMFA, ChallengesAdvance, CodesAdvance

(* Enabling the second factor ends the other sessions and issues codes. *)
LEMMA EnableInv ==
  ASSUME IInv, NEW q \in Slot, EnableMFA(q)
  PROVE  IInv'
<1>1. req[q].user \in User
  BY RequestUser DEF EnableMFA
<1>2. CASE mfa[req[q].user] = "pending"
  <2>1. mfa' \in [User -> {"off", "pending", "on"}]
    BY <1>2, SMTT(30) DEF EnableMFA, IInv, TypeOK
  <2>2. /\ ChallengesAdvance /\ CodesAdvance /\ RequestsEnd
        /\ \A s \in Session : sessions'[s] \in {sessions[s], None}
    BY <1>1, <1>2, InvalidatedAdvance, InsertAdvance, RevokedEnds, DoneEnds DEF EnableMFA
  <2>3. TypeOK'
    BY <1>1, <1>2, <2>1, InvalidatedAdvance, InsertAdvance, RevokedEnds, DoneEnds, SMTT(30)
       DEF EnableMFA, IInv, TypeOK, ghosts
  <2> QED
    BY <2>2, <2>3, AdvanceKeeps DEF EnableMFA
<1>3. CASE mfa[req[q].user] # "pending"
  <2>1. TypeOK'
    BY <1>3, DoneEnds DEF EnableMFA, IInv, TypeOK, ghosts
  <2> QED
    BY <1>3, <2>1, DoneEnds, AdvanceKeeps DEF EnableMFA, ChallengesAdvance, CodesAdvance
<1> QED
  BY <1>2, <1>3

(* Replacing the codes starts a new generation. *)
LEMMA ReplaceInv ==
  ASSUME IInv, NEW q \in Slot, ReplaceRecoveryCodes(q)
  PROVE  IInv'
<1>1. req[q].user \in User
  BY RequestUser DEF ReplaceRecoveryCodes
<1>2. CodesAdvance /\ \A s \in Session : sessions'[s] \in {sessions[s], None}
  BY <1>1, InsertAdvance, RevokedEnds DEF ReplaceRecoveryCodes, CodesAdvance
<1>3. TypeOK'
  BY <1>1, InsertAdvance, RevokedEnds, DoneEnds, SMTT(30) DEF ReplaceRecoveryCodes, IInv, TypeOK, ghosts
<1> QED
  BY <1>2, <1>3, DoneEnds, AdvanceKeeps DEF ReplaceRecoveryCodes, ChallengesAdvance

(* Disabling the second factor strikes out its codes. *)
LEMMA DisableInv ==
  ASSUME IInv, NEW q \in Slot, DisableMFA(q)
  PROVE  IInv'
<1>1. req[q].user \in User
  BY RequestUser DEF DisableMFA
<1>2. ChallengesAdvance /\ CodesAdvance /\ \A s \in Session : sessions'[s] \in {sessions[s], None}
  BY <1>1, WithoutAdvance, RevokedEnds DEF DisableMFA, ChallengesAdvance, CodesAdvance
<1>3. TypeOK'
  BY <1>1, WithoutAdvance, RevokedEnds, DoneEnds, SMTT(30) DEF DisableMFA, IInv, TypeOK, ghosts
<1> QED
  BY <1>2, <1>3, DoneEnds, AdvanceKeeps DEF DisableMFA

(* Rows that end without a request, and enrollments that expire. *)
LEMMA SessionEndsInv ==
  ASSUME IInv, NEW s \in Session, RevokeSession(s) \/ DeleteExpiredSessions(s)
  PROVE  IInv'
<1>1. /\ sessions' = [sessions EXCEPT ![s] = None]
      /\ UNCHANGED <<users, mfa, codes, challenges, req, ghosts>>
  BY DEF RevokeSession, DeleteExpiredSessions
<1>2. TypeOK'
  BY <1>1 DEF IInv, TypeOK, ghosts
<1>3. \A t \in Session : sessions'[t] \in {sessions[t], None}
  BY <1>1 DEF IInv, TypeOK
<1>4. ChallengesAdvance /\ CodesAdvance /\ RequestsEnd
  BY <1>1 DEF ChallengesAdvance, CodesAdvance, RequestsEnd
<1> QED
  BY <1>1, <1>2, <1>3, <1>4, AdvanceKeeps

(* A challenge that is cancelled or expires only closes. *)
LEMMA ChallengeEndsInv ==
  ASSUME IInv, NEW c \in Challenge, ConsumeMFAChallenge(c) \/ DeleteExpiredMFAChallenges(c)
  PROVE  IInv'
<1>1. /\ challenges[c].status = "open" /\ challenges' = [challenges EXCEPT ![c] = Closed]
      /\ UNCHANGED <<users, mfa, codes, sessions, req, ghosts>>
  BY DEF ConsumeMFAChallenge, DeleteExpiredMFAChallenges, Pending
<1>2. TypeOK'
  BY <1>1, ClosedType DEF IInv, TypeOK, ghosts
<1>3. ChallengesAdvance
  BY <1>1 DEF IInv, TypeOK, ChallengesAdvance, Closed, NoChallenge
<1> QED
  BY <1>1, <1>2, <1>3, AdvanceKeeps DEF CodesAdvance, RequestsEnd

(* An enrolment that expires leaves no trace in sessions. *)
LEMMA ExpireEnrollmentInv ==
  ASSUME IInv, NEW u \in User, ExpireEnrollment(u)
  PROVE  IInv'
<1>1. TypeOK'
  BY DEF ExpireEnrollment, IInv, TypeOK, ghosts
<1> QED
  BY <1>1, AdvanceKeeps DEF ExpireEnrollment, ChallengesAdvance, CodesAdvance, RequestsEnd

(* A reset by an administrator or from the host ends all sessions of the   *)
(* user.                                                                   *)
LEMMA ResetInv ==
  ASSUME IInv, NEW u \in User, ResetUserPassword(u) \/ ResetMFAFromHost(u)
  PROVE  IInv'
<1>1. ChallengesAdvance /\ CodesAdvance /\ RequestsEnd
  BY WithoutAdvance DEF ResetUserPassword, ResetMFAFromHost, ChallengesAdvance, CodesAdvance, RequestsEnd
<1>2. TypeOK'
  BY WithoutAdvance, RevokedEnds DEF ResetUserPassword, ResetMFAFromHost, IInv, TypeOK, ghosts
<1> QED
  BY <1>1, <1>2, RevokedEnds, AdvanceKeeps DEF ResetUserPassword, ResetMFAFromHost

(* Login of a user who is enabled still. *)
LEMMA CreateLoginSessionInv ==
  ASSUME IInv, NEW q \in Slot, NEW s \in Session, CreateLoginSession(q, s)
  PROVE  IInv'
<1>1. req[q].user \in User
  BY RequestUser DEF CreateLoginSession
<1>2. /\ sessions' \in [Session -> User \cup {None}]
      /\ \A t \in Session : sessions'[t] \in {sessions[t], None} \/ users[sessions'[t]] = "enabled"
  BY <1>1 DEF CreateLoginSession, Opened, IInv, TypeOK
<1>3. TypeOK'
  BY <1>2, DoneEnds DEF CreateLoginSession, IInv, TypeOK, ghosts
<1> QED
  BY <1>2, <1>3, DoneEnds, AdvanceKeeps DEF CreateLoginSession, ChallengesAdvance, CodesAdvance

(* A new challenge takes an unused row and names the user it is for. *)
LEMMA CreateMFAChallengeInv ==
  ASSUME IInv, NEW q \in Slot, NEW c \in Challenge, CreateMFAChallenge(q, c)
  PROVE  IInv'
<1>1. PICK u \in User : u = req[q].user
  BY RequestUser DEF CreateMFAChallenge
<1>2. [status |-> "open", user |-> u, failed |-> 0]
        \in [status : {"none", "open", "closed"}, user : User \cup {None}, failed : 0 .. MaxFailures]
  BY SessionConstants, SMTT(30)
<1>3. Invalidated(u) \in [Challenge -> [status : {"none", "open", "closed"},
                                        user : User \cup {None}, failed : 0 .. MaxFailures]]
  BY ClosedType DEF IInv, TypeOK, Invalidated
<1>4. \/ challenges' = challenges
      \/ challenges' = [Invalidated(u) EXCEPT ![c] = [status |-> "open", user |-> u, failed |-> 0]]
  BY <1>1 DEF CreateMFAChallenge
<1>5. challenges' \in [Challenge -> [status : {"none", "open", "closed"},
                                     user : User \cup {None}, failed : 0 .. MaxFailures]]
  BY <1>2, <1>3, <1>4 DEF IInv, TypeOK
<1>6. ChallengesAdvance
  <2> SUFFICES ASSUME NEW d \in Challenge,
                      challenges' = [Invalidated(u) EXCEPT ![c] = [status |-> "open", user |-> u, failed |-> 0]]
               PROVE  \/ challenges'[d] = challenges[d]
                      \/ challenges[d].status = "open" /\ challenges'[d].status = "closed"
                      \/ /\ challenges[d].status = "none"
                         /\ challenges'[d].status = "open" /\ challenges'[d].user \in User
    BY <1>4 DEF ChallengesAdvance
  <2>1. CASE d = c
    BY <1>3, <2>1, SMTT(30) DEF CreateMFAChallenge
  <2>2. CASE d # c
    BY <1>3, <2>2 DEF Invalidated, Closed, NoChallenge
  <2> QED
    BY <2>1, <2>2
<1>7. TypeOK'
  BY <1>5, DoneEnds DEF CreateMFAChallenge, IInv, TypeOK, ghosts
<1> QED
  BY <1>6, <1>7, DoneEnds, AdvanceKeeps DEF CreateMFAChallenge, CodesAdvance

(* A wrong answer counts against the challenge and closes it at the limit. *)
LEMMA FailMFAChallengeInv ==
  ASSUME IInv, NEW q \in Slot, FailMFAChallenge(q)
  PROVE  IInv'
<1>1. PICK c \in Challenge : c = req[q].challenge
  BY DEF FailMFAChallenge, IInv, RequestsKnown, RequestKnown
<1>2. challenges[c] \in [status : {"none", "open", "closed"}, user : User \cup {None}, failed : 0 .. MaxFailures]
  BY DEF IInv, TypeOK
<1> DEFINE counted == [status |-> challenges[c].status, user |-> challenges[c].user, failed |-> challenges[c].failed + 1]
<1>3. [challenges[c] EXCEPT !.failed = challenges[c].failed + 1] = counted
  BY <1>2, SMTT(30)
<1>4. \/ challenges' = challenges
      \/ /\ challenges[c].status = "open"
         /\ \/ challenges' = [challenges EXCEPT ![c] = Closed]
            \/ challenges' = [challenges EXCEPT ![c] = counted] /\ challenges[c].failed + 1 < MaxFailures
  <2>1. CASE ~Pending(c)
    BY <1>1, <2>1 DEF FailMFAChallenge
  <2>2. CASE Pending(c) /\ challenges[c].failed + 1 >= MaxFailures
    BY <1>1, <2>2 DEF FailMFAChallenge, Pending
  <2>3. CASE Pending(c) /\ ~(challenges[c].failed + 1 >= MaxFailures)
    <3>1. challenges' = [challenges EXCEPT ![c] = [challenges[c] EXCEPT !.failed = challenges[c].failed + 1]]
      BY <1>1, <2>3 DEF FailMFAChallenge
    <3>2. challenges[c].failed + 1 < MaxFailures
      BY <1>2, <2>3, SessionConstants, SMTT(30)
    <3> QED
      BY <1>3, <2>3, <3>1, <3>2 DEF Pending
  <2> QED
    BY <2>1, <2>2, <2>3
<1>5. challenges[c].failed + 1 < MaxFailures =>
        counted \in [status : {"none", "open", "closed"}, user : User \cup {None}, failed : 0 .. MaxFailures]
  BY <1>2, SessionConstants, SMTT(30)
<1>6. challenges' \in [Challenge -> [status : {"none", "open", "closed"},
                                     user : User \cup {None}, failed : 0 .. MaxFailures]]
  BY <1>4, <1>5, ClosedType DEF IInv, TypeOK
<1>7. ChallengesAdvance
  BY <1>4, SMTT(30) DEF IInv, TypeOK, ChallengesAdvance, Closed, NoChallenge
<1>8. TypeOK'
  BY <1>6, DoneEnds DEF FailMFAChallenge, IInv, TypeOK, ghosts
<1> QED
  BY <1>7, <1>8, DoneEnds, AdvanceKeeps DEF FailMFAChallenge, CodesAdvance

(* A factor that is accepted was not spent: the challenge was open, and    *)
(* the code was unused.                                                    *)
LEMMA AcceptedUnspent ==
  ASSUME IInv, NEW q \in Slot, req[q].kind = "complete", MFAChallengeByTokenHash(req[q].challenge),
         req[q].code # None => Unused(req[q].user, req[q].code)
  PROVE  spent \cap Factors(req[q]) = {}
<1>1. PICK c \in Challenge : c = req[q].challenge
  BY DEF IInv, RequestsKnown, RequestKnown
<1>2. c \notin spent
  BY <1>1 DEF IInv, SpentUseless, MFAChallengeByTokenHash, Pending
<1>3. CASE req[q].code = None
  BY <1>1, <1>2, <1>3 DEF Factors
<1>4. CASE req[q].code # None
  <2>1. PICK u \in User : u = req[q].user
    BY RequestUser
  <2>2. req[q].code \in RecoveryCode
    BY <1>4 DEF IInv, TypeOK
  <2>3. PICK g \in 1 .. MaxGeneration, k \in Code : req[q].code = <<g, k>>
    BY <2>2, SMTT(30) DEF RecoveryCode
  <2>4. g = codes[u].generation /\ k \in codes[u].left
    BY <1>4, <2>1, <2>3, SMTT(30) DEF Unused
  <2>5. <<u, <<g, k>>>> \notin spent
    BY <2>4 DEF IInv, SpentUseless
  <2> QED
    BY <1>1, <1>2, <2>1, <2>3, <2>5 DEF Factors
<1> QED
  BY <1>3, <1>4

(* One transaction closes the challenge, strikes out the code and opens    *)
(* the session of an enabled user, or it only leaves a failure to record.  *)
LEMMA CompleteMFAChallengeInv ==
  ASSUME IInv, NEW q \in Slot, NEW s \in Session, CompleteMFAChallenge(q, s)
  PROVE  IInv'
<1>1. PICK u \in User : u = req[q].user
  BY RequestUser DEF CompleteMFAChallenge
<1>2. PICK c \in Challenge : c = req[q].challenge
  BY DEF CompleteMFAChallenge, IInv, RequestsKnown, RequestKnown
<1>3. PICK code \in RecoveryCode \cup {None} : code = req[q].code
  BY DEF IInv, TypeOK
<1>4. None \notin RecoveryCode
  BY SessionConstants, SMTT(30) DEF RecoveryCode
<1>5. CASE ~(MFAChallengeByTokenHash(c) /\ (code # None => Unused(u, code)))
  <2>1. /\ req' = [req EXCEPT ![q].kind = "fail"]
        /\ UNCHANGED <<challenges, codes, sessions, ghosts, users, mfa>>
    BY <1>1, <1>2, <1>3, <1>5 DEF CompleteMFAChallenge
  <2>2. req[q] \in [kind : Kind, user : User \cup {None}, session : Session \cup {None},
                    challenge : Challenge \cup {None}, code : RecoveryCode \cup {None}]
    BY DEF IInv, TypeOK
  <2> DEFINE f == [kind |-> "fail", user |-> u, session |-> req[q].session, challenge |-> c, code |-> code]
  <2>3. [req[q] EXCEPT !.kind = "fail"] = f
    BY <1>1, <1>2, <1>3, <2>2, SMTT(30)
  <2>4. req' = [req EXCEPT ![q] = [req[q] EXCEPT !.kind = "fail"]]
    BY <2>1
  <2>5. req' = [req EXCEPT ![q] = f]
    BY <2>3, <2>4
  <2>6. f \in [kind : Kind, user : User \cup {None}, session : Session \cup {None},
               challenge : Challenge \cup {None}, code : RecoveryCode \cup {None}]
    BY <2>2 DEF Kind
  <2>7. RequestKnown(f)
    BY <1>1, <1>2 DEF CompleteMFAChallenge, IInv, RequestsKnown, RequestKnown
  <2> HIDE DEF f
  <2>8. TypeOK'
    <3>1. req' \in [Slot -> [kind : Kind, user : User \cup {None}, session : Session \cup {None},
                             challenge : Challenge \cup {None}, code : RecoveryCode \cup {None}]]
      BY <2>5, <2>6 DEF IInv, TypeOK
    <3> QED
      BY <2>1, <3>1 DEF IInv, TypeOK, ghosts
  <2>9. RequestsKnown'
    <3>1. \A t \in Slot : req'[t] = (IF t = q THEN f ELSE req[t])
      BY <2>5 DEF IInv, TypeOK
    <3>2. \A t \in Slot : RequestKnown(req[t])
      BY DEF IInv, RequestsKnown
    <3>3. \A r : RequestKnown(r)' <=> RequestKnown(r)
      BY <2>1 DEF RequestKnown
    <3> QED
      BY <2>7, <3>1, <3>2, <3>3 DEF RequestsKnown
  <2>10. OpenKnown' /\ SpentUseless' /\ AdministratorRemains' /\ DisabledHasNoSession' /\ FactorUsedOnce'
    BY <2>1 DEF IInv, OpenKnown, SpentUseless, AdministratorRemains, HasUsers, DisabledHasNoSession,
                FactorUsedOnce, ghosts
  <2> QED
    BY <2>8, <2>9, <2>10 DEF IInv
<1>6. CASE MFAChallengeByTokenHash(c) /\ (code # None => Unused(u, code))
  <2>1. /\ challenges' = [challenges EXCEPT ![c] = Closed]
        /\ codes' = IF code = None THEN codes ELSE [codes EXCEPT ![u].left = @ \ {code[2]}]
        /\ sessions' = [sessions EXCEPT ![s] = u]
        /\ Spend(req[q]) /\ Done(q) /\ UNCHANGED <<users, mfa>>
    BY <1>1, <1>2, <1>3, <1>6 DEF CompleteMFAChallenge, Opened
  <2>2. /\ CodesAdvance
        /\ codes' \in [User -> [generation : 0 .. MaxGeneration, left : SUBSET Code]]
        /\ code # None => codes'[u].left = codes[u].left \ {code[2]}
        /\ \A v \in User : codes'[v].generation = codes[v].generation
    <3>1. CASE code = None
      BY <2>1, <3>1 DEF IInv, TypeOK, CodesAdvance
    <3>2. CASE code # None
      <4>1. codes[u].left \ {code[2]} \in SUBSET codes[u].left
        OBVIOUS
      <4>2. codes' = [codes EXCEPT ![u].left = codes[u].left \ {code[2]}]
        BY <2>1, <3>2
      <4> QED
        BY <4>1, <4>2, StrikeAdvance
    <3> QED
      BY <3>1, <3>2
  <2>3. challenges[c].status = "open" /\ challenges[c].user = u /\ users[u] = "enabled"
    BY <1>1, <1>2, <1>6 DEF CompleteMFAChallenge, MFAChallengeByTokenHash, Pending, IInv, RequestsKnown, RequestKnown
  <2>4. ChallengesAdvance
    BY <2>1, <2>3 DEF IInv, TypeOK, ChallengesAdvance, Closed, NoChallenge
  <2>5. Factors(req[q]) = {c} \cup (IF code = None THEN {} ELSE {<<u, code>>})
    BY <1>1, <1>2, <1>3 DEF Factors
  <2>6. spent' = spent \cup Factors(req[q]) /\ reused' = FALSE
    <3>1. spent \cap Factors(req[q]) = {}
      BY <1>1, <1>2, <1>3, <1>6, AcceptedUnspent DEF CompleteMFAChallenge
    <3> QED
      BY <2>1, <3>1 DEF Spend, IInv, FactorUsedOnce, TypeOK
  <2>7. TypeOK'
    <3>1. spent' \subseteq Challenge \cup (User \X RecoveryCode)
      BY <2>5, <2>6, SMTT(30) DEF IInv, TypeOK
    <3>2. challenges' \in [Challenge -> [status : {"none", "open", "closed"},
                                         user : User \cup {None}, failed : 0 .. MaxFailures]]
      BY <2>1, ClosedType DEF IInv, TypeOK
    <3>3. sessions' \in [Session -> User \cup {None}]
      BY <2>1 DEF IInv, TypeOK
    <3> QED
      BY <2>1, <2>2, <2>6, <3>1, <3>2, <3>3, DoneEnds DEF IInv, TypeOK
  <2>8. SpentUseless'
    <3>1. ASSUME NEW d \in Challenge, d \in spent' PROVE challenges'[d].status = "closed"
      <4>1. d \notin User \X RecoveryCode
        BY SessionConstants, SMTT(30) DEF RecoveryCode
      <4>2. d \in spent \/ d = c
        BY <2>5, <2>6, <3>1, <4>1, SMTT(30)
      <4> QED
        BY <2>1, <4>2 DEF IInv, TypeOK, SpentUseless, Closed, NoChallenge
    <3>2. ASSUME NEW v \in User, NEW g \in 1 .. MaxGeneration, NEW k \in Code, <<v, <<g, k>>>> \in spent'
          PROVE  g <= codes'[v].generation /\ (g = codes'[v].generation => k \notin codes'[v].left)
      <4>1. <<v, <<g, k>>>> # c
        BY SessionConstants, SMTT(30)
      <4>2. CASE <<v, <<g, k>>>> \in spent
        BY <2>2, <4>2, SMTT(30) DEF IInv, SpentUseless, CodesAdvance
      <4>3. CASE code # None /\ <<v, <<g, k>>>> = <<u, code>>
        <5>1. v = u /\ g = code[1] /\ k = code[2] /\ g = codes[u].generation
          BY <1>6, <4>3, SMTT(30) DEF Unused
        <5> QED
          BY <2>2, <4>3, <5>1, SMTT(30)
      <4> QED
        BY <2>5, <2>6, <3>2, <4>1, <4>2, <4>3
    <3> QED
      BY <3>1, <3>2 DEF SpentUseless
  <2>9. RequestsKnown' /\ OpenKnown'
    BY <2>1, <2>4, DoneEnds, RequestsStayKnown, OpenStaysKnown
  <2>10. AdministratorRemains' /\ DisabledHasNoSession' /\ FactorUsedOnce'
    BY <2>1, <2>3, <2>6 DEF IInv, TypeOK, AdministratorRemains, HasUsers, DisabledHasNoSession, FactorUsedOnce
  <2> QED
    BY <2>7, <2>8, <2>9, <2>10 DEF IInv
<1> QED
  BY <1>5, <1>6

(* The first user, and users an administrator adds, are enabled. *)
LEMMA CreateInitialUserInv ==
  ASSUME IInv, NEW q \in Slot, NEW u \in User, NEW s \in Session, CreateInitialUser(q, u, s)
  PROVE  IInv'
<1>1. CASE HasUsers
  <2>1. TypeOK'
    BY <1>1, DoneEnds DEF CreateInitialUser, IInv, TypeOK, ghosts
  <2> QED
    BY <1>1, <2>1, DoneEnds, AdvanceKeeps DEF CreateInitialUser, ChallengesAdvance, CodesAdvance
<1>2. CASE ~HasUsers
  <2>1. /\ users' = [users EXCEPT ![u] = "enabled"] /\ sessions' = [sessions EXCEPT ![s] = u]
        /\ Done(q) /\ UNCHANGED <<mfa, codes, challenges, ghosts>>
    BY <1>2 DEF CreateInitialUser, Opened
  <2>2. TypeOK'
    BY <2>1, DoneEnds DEF IInv, TypeOK, ghosts
  <2>3. RequestsKnown' /\ OpenKnown' /\ SpentUseless'
    BY <2>1, <2>2, DoneEnds, RequestsStayKnown, OpenStaysKnown, SpentStaysUseless
       DEF ChallengesAdvance, CodesAdvance, ghosts
  <2>4. AdministratorRemains' /\ DisabledHasNoSession' /\ FactorUsedOnce'
    BY <2>1 DEF IInv, TypeOK, AdministratorRemains, DisabledHasNoSession, FactorUsedOnce, ghosts
  <2> QED
    BY <2>2, <2>3, <2>4 DEF IInv
<1> QED
  BY <1>1, <1>2

(* A new user is enabled, and nothing else changes. *)
LEMMA CreateUserInv ==
  ASSUME IInv, NEW u \in User, CreateUser(u)
  PROVE  IInv'
<1>1. TypeOK'
  BY DEF CreateUser, IInv, TypeOK, ghosts
<1>2. RequestsKnown' /\ OpenKnown' /\ SpentUseless'
  BY <1>1, RequestsStayKnown, OpenStaysKnown, SpentStaysUseless
     DEF CreateUser, ChallengesAdvance, CodesAdvance, RequestsEnd, ghosts
<1>3. AdministratorRemains' /\ DisabledHasNoSession' /\ FactorUsedOnce'
  BY DEF CreateUser, IInv, TypeOK, AdministratorRemains, DisabledHasNoSession, FactorUsedOnce, ghosts
<1> QED
  BY <1>1, <1>2, <1>3 DEF IInv

(* The count under the lock leaves an enabled user, and a user who is      *)
(* disabled loses every session in the same transaction.                   *)
LEMMA UpdateInv ==
  ASSUME IInv, NEW u \in User, NEW enabled \in BOOLEAN, Update(u, enabled)
  PROVE  IInv'
<1>1. /\ users[u] # "none"
      /\ users[u] = "enabled" /\ ~enabled => \E v \in User \ {u} : users[v] = "enabled"
      /\ users' = [users EXCEPT ![u] = IF enabled THEN "enabled" ELSE "disabled"]
      /\ sessions' = IF enabled THEN sessions ELSE Revoked(u, None)
      /\ UNCHANGED <<mfa, codes, challenges, req, ghosts>>
  BY DEF Update, UpdateUser
<1>2. /\ sessions' \in [Session -> User \cup {None}]
      /\ \A s \in Session : sessions'[s] \in {sessions[s], None}
      /\ ~enabled => \A s \in Session : sessions'[s] # u
  BY <1>1, RevokedEnds, SessionConstants, SMTT(30) DEF IInv, TypeOK
<1>3. TypeOK'
  BY <1>1, <1>2 DEF IInv, TypeOK, ghosts
<1>4. RequestsKnown' /\ OpenKnown' /\ SpentUseless'
  BY <1>1, <1>3, RequestsStayKnown, OpenStaysKnown, SpentStaysUseless
     DEF ChallengesAdvance, CodesAdvance, RequestsEnd, ghosts
<1>5. AdministratorRemains'
  <2>1. CASE enabled
    BY <1>1, <2>1 DEF IInv, TypeOK, AdministratorRemains
  <2>2. CASE ~enabled
    <3>1. PICK v \in User \ {u} : users[v] = "enabled"
      BY <1>1, <2>2 DEF IInv, AdministratorRemains, HasUsers
    <3> QED
      BY <1>1, <3>1 DEF IInv, TypeOK, AdministratorRemains
  <2> QED
    BY <2>1, <2>2
<1>6. DisabledHasNoSession' /\ FactorUsedOnce'
  BY <1>1, <1>2 DEF IInv, TypeOK, DisabledHasNoSession, FactorUsedOnce, ghosts
<1> QED
  BY <1>3, <1>4, <1>5, <1>6 DEF IInv

-----------------------------------------------------------------------------
\* Theorems

(* An empty database satisfies the invariant. *)
LEMMA InitIInv == Init => IInv
<1> SUFFICES ASSUME Init PROVE IInv
  OBVIOUS
<1>1. /\ NoChallenge \in [status : {"none", "open", "closed"}, user : User \cup {None}, failed : 0 .. MaxFailures]
      /\ Idle \in [kind : Kind, user : User \cup {None}, session : Session \cup {None},
                   challenge : Challenge \cup {None}, code : RecoveryCode \cup {None}]
      /\ [generation |-> 0, left |-> {}] \in [generation : 0 .. MaxGeneration, left : SUBSET Code]
  BY SessionConstants, SMTT(30) DEF NoChallenge, Idle, Kind
<1>2. TypeOK
  BY <1>1 DEF Init, TypeOK
<1>3. RequestsKnown /\ OpenKnown /\ SpentUseless
  BY DEF Init, RequestsKnown, RequestKnown, OpenKnown, SpentUseless, Idle, NoChallenge
<1>4. AdministratorRemains /\ DisabledHasNoSession /\ FactorUsedOnce
  BY DEF Init, AdministratorRemains, HasUsers, DisabledHasNoSession, FactorUsedOnce
<1> QED
  BY <1>2, <1>3, <1>4 DEF IInv

(* Every step keeps the invariant. *)
LEMMA NextIInv == IInv /\ [Next]_vars => IInv'
<1> SUFFICES ASSUME IInv, [Next]_vars PROVE IInv'
  OBVIOUS
<1>1. ASSUME NEW q \in Slot,
             \/ Setup(q) \/ FailMFAChallenge(q) \/ UpsertPendingMFA(q) \/ EnableMFA(q)
             \/ ReplaceRecoveryCodes(q) \/ DisableMFA(q) \/ ChangeOwnPassword(q) \/ RequestFails(q)
      PROVE  IInv'
  BY <1>1, LetIn, FailMFAChallengeInv, UpsertPendingInv, EnableInv, ReplaceInv, DisableInv,
     ChangeOwnPasswordInv, RequestFailsInv
<1>2. ASSUME NEW q \in Slot, NEW u \in User, Login(q, u) \/ \E s \in Session : CreateInitialUser(q, u, s)
      PROVE  IInv'
  BY <1>2, LetIn, CreateInitialUserInv
<1>3. ASSUME NEW q \in Slot, NEW c \in Challenge, CreateMFAChallenge(q, c) \/ AnswerChallenge(q, c)
      PROVE  IInv'
  BY <1>3, CreateMFAChallengeInv, AnswerChallengeInv
<1>4. ASSUME NEW q \in Slot, NEW s \in Session,
             \/ CreateLoginSession(q, s) \/ CompleteMFAChallenge(q, s)
             \/ StartMFAEnrollment(q, s) \/ VerifyMFAEnrollment(q, s)
             \/ RegenerateRecoveryCodes(q, s) \/ StartDisableMFA(q, s) \/ StartPasswordChange(q, s)
      PROVE  IInv'
  BY <1>4, CreateLoginSessionInv, CompleteMFAChallengeInv, LetIn
<1>5. ASSUME NEW s \in Session, RevokeSession(s) \/ DeleteExpiredSessions(s) PROVE IInv'
  BY <1>5, SessionEndsInv
<1>6. ASSUME NEW u \in User, NEW b \in BOOLEAN, Update(u, b) PROVE IInv'
  BY <1>6, UpdateInv
<1>7. ASSUME NEW u \in User, Create(u) \/ ResetPassword(u) \/ ResetMFAFromHost(u) \/ ExpireEnrollment(u)
      PROVE  IInv'
  BY <1>7, CreateUserInv, ResetInv, ExpireEnrollmentInv DEF Create, ResetPassword
<1>8. ASSUME NEW c \in Challenge, ConsumeMFAChallenge(c) \/ DeleteExpiredMFAChallenges(c) PROVE IInv'
  BY <1>8, ChallengeEndsInv
<1>9. CASE UNCHANGED vars
  <2>1. TypeOK'
    BY <1>9 DEF vars, IInv, TypeOK
  <2> QED
    BY <1>9, <2>1, AdvanceKeeps DEF vars, ghosts, ChallengesAdvance, CodesAdvance, RequestsEnd
<1> QED
  BY <1>1, <1>2, <1>3, <1>4, <1>5, <1>6, <1>7, <1>8, <1>9 DEF Next

(* The inductive invariant holds in every behaviour. *)
THEOREM Invariant == Spec => []IInv
<1> QED
  BY InitIInv, NextIInv, PTL DEF Spec

(* Once there are users one of them is enabled: UpdateUser counts under    *)
(* the lock, so two administrators cannot disable one another.             *)
THEOREM AdministratorSafe == Spec => []AdministratorRemains
<1>1. IInv => AdministratorRemains
  BY DEF IInv
<1> QED
  BY <1>1, Invariant, PTL

(* No session outlives or follows the disabling of its user: logins and    *)
(* challenges that were verified before look the user up again.            *)
THEOREM DisabledSafe == Spec => []DisabledHasNoSession
<1>1. IInv => DisabledHasNoSession
  BY DEF IInv
<1> QED
  BY <1>1, Invariant, PTL

(* No challenge and no recovery code leads to two sessions, for any number *)
(* of requests that carry it and of code generations.                      *)
THEOREM FactorSafe == Spec => []FactorUsedOnce
<1>1. IInv => FactorUsedOnce
  BY DEF IInv
<1> QED
  BY <1>1, Invariant, PTL

(* The step behind FactorChangeEndsSessions. *)
FactorStep ==
  \A u \in User :
    (mfa[u] = "on") # (mfa'[u] = "on") \/ codes[u].generation # codes'[u].generation
      => \A s, t \in Session : sessions'[s] = u /\ sessions'[t] = u => s = t

(* A step that changes no factor and no generation owes nothing. *)
LEMMA SameFactors ==
  ASSUME \A u \in User : /\ (mfa[u] = "on") = (mfa'[u] = "on")
                         /\ codes[u].generation = codes'[u].generation
  PROVE  FactorStep
BY DEF FactorStep

(* A change of one user's factors that ends that user's other sessions. *)
LEMMA ChangeEnds ==
  ASSUME IInv, NEW u \in User, NEW kept, sessions' = Revoked(u, kept),
         \A v \in User \ {u} : mfa'[v] = mfa[v] /\ codes'[v].generation = codes[v].generation
  PROVE  FactorStep
<1>1. \A s \in Session : sessions'[s] = u => s = kept
  BY RevokedEnds
<1> QED
  BY <1>1 DEF FactorStep

(* Every step that changes a factor or its codes ends the other sessions. *)
LEMMA NextFactorStep == IInv /\ [Next]_vars => FactorStep
<1> SUFFICES ASSUME IInv, [Next]_vars PROVE FactorStep
  OBVIOUS
<1>1. CASE UNCHANGED <<mfa, codes>>
  BY <1>1, SameFactors
<1>2. ASSUME NEW q \in Slot, UpsertPendingMFA(q) PROVE FactorStep
  BY <1>2, SameFactors DEF UpsertPendingMFA, IInv, TypeOK
<1>3. ASSUME NEW q \in Slot, EnableMFA(q) PROVE FactorStep
  <2>1. PICK u \in User : u = req[q].user
    BY <1>3, RequestUser DEF EnableMFA
  <2>2. CASE mfa[u] = "pending"
    <3>1. \A v \in User \ {u} : mfa'[v] = mfa[v] /\ codes'[v] = codes[v]
      BY <1>3, <2>1, <2>2, InsertAdvance DEF EnableMFA, IInv, TypeOK
    <3> QED
      BY <1>3, <2>1, <2>2, <3>1, ChangeEnds DEF EnableMFA
  <2> QED
    BY <1>1, <1>3, <2>1, <2>2 DEF EnableMFA
<1>4. ASSUME NEW q \in Slot, ReplaceRecoveryCodes(q) PROVE FactorStep
  <2>1. PICK u \in User : u = req[q].user
    BY <1>4, RequestUser DEF ReplaceRecoveryCodes
  <2>2. CASE mfa[u] = "on"
    BY <1>4, <2>1, <2>2, InsertAdvance, ChangeEnds DEF ReplaceRecoveryCodes
  <2> QED
    BY <1>1, <1>4, <2>1, <2>2 DEF ReplaceRecoveryCodes
<1>5. ASSUME NEW q \in Slot, DisableMFA(q) PROVE FactorStep
  <2>1. PICK u \in User : u = req[q].user
    BY <1>5, RequestUser DEF DisableMFA
  <2>2. CASE mfa[u] = "on"
    BY <1>5, <2>1, <2>2, WithoutAdvance, ChangeEnds DEF DisableMFA
  <2> QED
    BY <1>1, <1>5, <2>1, <2>2 DEF DisableMFA
<1>6. ASSUME NEW u \in User, ResetMFAFromHost(u) PROVE FactorStep
  BY <1>6, WithoutAdvance, ChangeEnds DEF ResetMFAFromHost
<1>7. ASSUME NEW u \in User, ExpireEnrollment(u) PROVE FactorStep
  BY <1>7, SameFactors DEF ExpireEnrollment, IInv, TypeOK
<1>8. ASSUME NEW q \in Slot, NEW s \in Session, CompleteMFAChallenge(q, s) PROVE FactorStep
  <2>1. PICK u \in User : u = req[q].user
    BY <1>8, RequestUser DEF CompleteMFAChallenge
  <2>2. codes' = codes \/ codes' = [codes EXCEPT ![u].left = codes[u].left \ {req[q].code[2]}]
    BY <1>8, <2>1 DEF CompleteMFAChallenge
  <2>3. codes[u].left \ {req[q].code[2]} \in SUBSET codes[u].left
    OBVIOUS
  <2>4. \A v \in User : codes'[v].generation = codes[v].generation
    BY <2>2, <2>3, StrikeAdvance
  <2> QED
    BY <1>8, <2>4, SameFactors DEF CompleteMFAChallenge
<1>9. ASSUME NEW q \in Slot,
             \/ Setup(q) \/ FailMFAChallenge(q) \/ ChangeOwnPassword(q) \/ RequestFails(q)
             \/ \E u \in User : Login(q, u) \/ \E s \in Session : CreateInitialUser(q, u, s)
             \/ \E c \in Challenge : CreateMFAChallenge(q, c) \/ AnswerChallenge(q, c)
      PROVE  UNCHANGED <<mfa, codes>>
  BY <1>9 DEF Setup, FailMFAChallenge, ChangeOwnPassword, RequestFails, Login, CreateInitialUser,
     CreateMFAChallenge, AnswerChallenge
<1>10. ASSUME NEW q \in Slot, NEW s \in Session,
              \/ CreateLoginSession(q, s) \/ StartMFAEnrollment(q, s) \/ VerifyMFAEnrollment(q, s)
              \/ RegenerateRecoveryCodes(q, s) \/ StartDisableMFA(q, s) \/ StartPasswordChange(q, s)
       PROVE  UNCHANGED <<mfa, codes>>
  BY <1>10 DEF CreateLoginSession, StartMFAEnrollment, VerifyMFAEnrollment, RegenerateRecoveryCodes,
     StartDisableMFA, StartPasswordChange, BeginOwn
<1>11. ASSUME \/ \E s \in Session : RevokeSession(s) \/ DeleteExpiredSessions(s)
              \/ \E u \in User, b \in BOOLEAN : Update(u, b)
              \/ \E u \in User : Create(u) \/ ResetPassword(u)
              \/ \E c \in Challenge : ConsumeMFAChallenge(c) \/ DeleteExpiredMFAChallenges(c)
              \/ UNCHANGED vars
       PROVE  UNCHANGED <<mfa, codes>>
  BY <1>11 DEF RevokeSession, DeleteExpiredSessions, Update, UpdateUser, Create, CreateUser,
     ResetPassword, ResetUserPassword, ConsumeMFAChallenge, DeleteExpiredMFAChallenges, vars
<1> QED
  BY <1>1, <1>2, <1>3, <1>4, <1>5, <1>6, <1>7, <1>8, <1>9, <1>10, <1>11 DEF Next

(* Whoever changes a second factor or its codes ends every other session   *)
(* of that user in the same transaction.                                   *)
THEOREM FactorChangeSafe == Spec => FactorChangeEndsSessions
<1>1. IInv /\ [Next]_vars => [FactorStep]_vars
  BY NextFactorStep
<1>2. Spec => [][FactorStep]_vars
  BY <1>1, Invariant, PTL DEF Spec
<1> QED
  BY <1>2, PTL DEF FactorChangeEndsSessions, FactorStep

=============================================================================
