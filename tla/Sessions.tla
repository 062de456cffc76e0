------------------------------ MODULE Sessions ------------------------------
(***************************************************************************)
(* Users, sessions and the second factor: initial setup, login, the        *)
(* challenge that stands between password and session, enrollment,         *)
(* recovery codes, user administration, host reset and cleanup.            *)
(*                                                                         *)
(* Sources: internal/auth/{service,mfa}.go, internal/useradmin/service.go, *)
(* internal/database/{auth,mfa,users}.go, internal/jobs/sessions.go.       *)
(*                                                                         *)
(* A request reads, verifies, and later commits one transaction; requests  *)
(* in Slot interleave between the two.  Transactions of one user are       *)
(* serialised by row and advisory locks, so each is one step.  Passwords,  *)
(* codes and tokens are left out but for which recovery code is used: a    *)
(* password or code that is wrong, or refused by the attempt limiter,      *)
(* changes nothing here except the failures of a challenge.  A row that is *)
(* revoked, consumed, expired or deleted is as good as gone: nothing tells *)
(* these apart.                                                            *)
(***************************************************************************)
EXTENDS Naturals, FiniteSets

CONSTANTS
  User, Challenge,           \* identifiers
  Session,                   \* identifiers; one is free again when no request holds it
  Slot,                      \* requests in flight
  Code,                      \* recovery codes of one generation; ten in the code
  MaxFailures,               \* failures that consume a challenge; five in the code
  MaxGeneration,             \* bound on generations of recovery codes, over all users
  None

ASSUME SessionConstants ==
  /\ MaxFailures \in Nat \ {0} /\ MaxGeneration \in Nat
  /\ None \notin Session \cup Challenge \cup User \cup (Nat \X Code)
  /\ \A c \in Challenge : c \notin User \X (Nat \X Code)  \* a challenge is no code of a user

VARIABLES
  users,       \* table users: none, enabled or disabled; all are administrators
  mfa,         \* table user_mfa
  codes,       \* user_mfa_recovery_codes: latest generation, and its unused codes
  sessions,    \* table sessions: whose live session it is
  challenges,  \* table mfa_challenges
  req,         \* requests between their reads and their transaction
  spent,       \* challenges and recovery codes that have led to a session
  reused       \* one of them has led to another

vars == <<users, mfa, codes, sessions, challenges, req, spent, reused>>
ghosts == <<spent, reused>>

RecoveryCode == (1 .. MaxGeneration) \X Code
NoChallenge == [status |-> "none", user |-> None, failed |-> 0]
Closed == [NoChallenge EXCEPT !.status = "closed"]
Idle == [kind |-> "idle", user |-> None, session |-> None, challenge |-> None, code |-> None]
Kind == {"idle", "setup", "login", "challenge", "complete", "fail", "enroll", "verify", "regenerate",
         "disable", "password"}

TypeOK ==
  /\ users \in [User -> {"none", "enabled", "disabled"}]
  /\ mfa \in [User -> {"off", "pending", "on"}]
  /\ codes \in [User -> [generation : 0 .. MaxGeneration, left : SUBSET Code]]
  /\ sessions \in [Session -> User \cup {None}]
  /\ challenges \in [Challenge -> [status : {"none", "open", "closed"},
                                   user : User \cup {None}, failed : 0 .. MaxFailures]]
  /\ req \in [Slot -> [kind : Kind, user : User \cup {None}, session : Session \cup {None},
                       challenge : Challenge \cup {None}, code : RecoveryCode \cup {None}]]
  /\ spent \subseteq Challenge \cup (User \X RecoveryCode) /\ reused \in BOOLEAN

Init ==
  /\ users = [u \in User |-> "none"]
  /\ mfa = [u \in User |-> "off"]
  /\ codes = [u \in User |-> [generation |-> 0, left |-> {}]]
  /\ sessions = [s \in Session |-> None]
  /\ challenges = [c \in Challenge |-> NoChallenge]
  /\ req = [q \in Slot |-> Idle]
  /\ spent = {} /\ reused = FALSE

-----------------------------------------------------------------------------
\* Writes that several transactions share

Begin(q, r) == req[q] = Idle /\ req' = [req EXCEPT ![q] = r]
Done(q) == req' = [req EXCEPT ![q] = Idle]
Request(kind, u, s) == [Idle EXCEPT !.kind = kind, !.user = u, !.session = s]

Free(s) == sessions[s] = None /\ \A q \in Slot : req[q].session # s
Opened(s, u) == [sessions EXCEPT ![s] = u]
\* UPDATE sessions SET revoked_at ... WHERE user_id = u AND id <> kept
Revoked(u, kept) == [s \in Session |-> IF sessions[s] = u /\ s # kept THEN None ELSE sessions[s]]
\* UPDATE mfa_challenges SET consumed_at ... WHERE user_id = u AND consumed_at IS NULL
Invalidated(u) ==
  [c \in Challenge |-> IF challenges[c].user = u /\ challenges[c].status = "open"
                         THEN Closed ELSE challenges[c]]

\* Codes nobody was given before.
InsertRecoveryCodes(u) ==
  \E g \in 1 .. MaxGeneration :
    /\ \A v \in User : codes[v].generation < g
    /\ \E v \in User : codes[v].generation = g - 1
    /\ codes' = [codes EXCEPT ![u] = [generation |-> g, left |-> Code]]

-----------------------------------------------------------------------------
\* Setup and login

HasUsers == \E u \in User : users[u] # "none"

Setup(q) ==
  /\ ~HasUsers /\ Begin(q, Request("setup", None, None))
  /\ UNCHANGED <<users, mfa, codes, sessions, challenges, ghosts>>
\* The table is locked, so the second of two setups finds the first one's user.
CreateInitialUser(q, u, s) ==
  /\ req[q].kind = "setup" /\ users[u] = "none" /\ Free(s)
  /\ IF HasUsers THEN UNCHANGED <<users, sessions>>
     ELSE /\ users' = [users EXCEPT ![u] = "enabled"]
          /\ sessions' = Opened(s, u)
  /\ Done(q) /\ UNCHANGED <<mfa, codes, challenges, ghosts>>

Login(q, u) ==
  /\ users[u] = "enabled"
  /\ Begin(q, Request(IF mfa[u] = "on" THEN "challenge" ELSE "login", u, None))
  /\ UNCHANGED <<users, mfa, codes, sessions, challenges, ghosts>>
\* Mutant: the user is not looked up again.
CreateAnySession(q, s) ==
  /\ req[q].kind = "login" /\ Free(s)
  /\ sessions' = Opened(s, req[q].user)
  /\ Done(q) /\ UNCHANGED <<users, mfa, codes, challenges, ghosts>>
CreateLoginSession(q, s) ==
  /\ req[q].kind = "login" /\ Free(s)
  /\ sessions' = IF users[req[q].user] = "enabled" THEN Opened(s, req[q].user) ELSE sessions
  /\ Done(q) /\ UNCHANGED <<users, mfa, codes, challenges, ghosts>>
\* A challenge replaces the open ones of the user.
CreateMFAChallenge(q, c) ==
  LET u == req[q].user
  IN  /\ req[q].kind = "challenge" /\ challenges[c].status = "none"
      /\ challenges' = IF mfa[u] # "on" THEN challenges
           ELSE [Invalidated(u) EXCEPT ![c] = [status |-> "open", user |-> u, failed |-> 0]]
      /\ Done(q) /\ UNCHANGED <<users, mfa, codes, sessions, ghosts>>

-----------------------------------------------------------------------------
\* Answering a challenge

\* WHERE consumed_at IS NULL AND expires_at > now AND failed_attempts < 5
Pending(c) == challenges[c].status = "open" /\ challenges[c].failed < MaxFailures
MFAChallengeByTokenHash(c) ==
  Pending(c) /\ mfa[challenges[c].user] = "on" /\ users[challenges[c].user] = "enabled"

\* The factor is a valid one-time password (None), a well-formed recovery code
\* the user was ever given, or neither.
AnswerChallenge(q, c) ==
  LET u == challenges[c].user
      r == [Request("complete", u, None) EXCEPT !.challenge = c]
  IN  /\ MFAChallengeByTokenHash(c)
      /\ \/ Begin(q, r)
         \/ \E g \in 1 .. codes[u].generation, k \in Code : Begin(q, [r EXCEPT !.code = <<g, k>>])
         \/ Begin(q, [r EXCEPT !.kind = "fail"])
      /\ UNCHANGED <<users, mfa, codes, sessions, challenges, ghosts>>

Unused(u, code) == code[1] = codes[u].generation /\ code[2] \in codes[u].left
Factors(r) == {r.challenge} \cup (IF r.code = None THEN {} ELSE {<<r.user, r.code>>})
Spend(r) == spent' = spent \cup Factors(r) /\ reused' = (reused \/ spent \cap Factors(r) # {})
\* Mutant: the recovery code is not consumed.
CompleteTwice(q, s) ==
  LET r == req[q]
  IN  /\ r.kind = "complete" /\ Free(s)
      /\ IF MFAChallengeByTokenHash(r.challenge)
           THEN /\ challenges' = [challenges EXCEPT ![r.challenge] = Closed]
                /\ sessions' = Opened(s, r.user) /\ Spend(r)
                /\ Done(q)
           ELSE req' = [req EXCEPT ![q].kind = "fail"] /\ UNCHANGED <<challenges, sessions, ghosts>>
      /\ UNCHANGED <<users, mfa, codes>>
\* Challenge, code and session in one transaction, or nothing and a failure.
CompleteMFAChallenge(q, s) ==
  LET r == req[q]
  IN  /\ r.kind = "complete" /\ Free(s)
      /\ IF MFAChallengeByTokenHash(r.challenge) /\ (r.code # None => Unused(r.user, r.code))
           THEN /\ challenges' = [challenges EXCEPT ![r.challenge] = Closed]
                /\ codes' = IF r.code = None THEN codes
                            ELSE [codes EXCEPT ![r.user].left = @ \ {r.code[2]}]
                /\ sessions' = Opened(s, r.user) /\ Spend(r)
                /\ Done(q)
           ELSE /\ req' = [req EXCEPT ![q].kind = "fail"]
                /\ UNCHANGED <<challenges, codes, sessions, ghosts>>
      /\ UNCHANGED <<users, mfa>>
FailMFAChallenge(q) ==
  LET c == req[q].challenge
  IN  /\ req[q].kind = "fail"
      /\ challenges' = IF ~Pending(c) THEN challenges
           ELSE IF challenges[c].failed + 1 >= MaxFailures THEN [challenges EXCEPT ![c] = Closed]
           ELSE [challenges EXCEPT ![c].failed = @ + 1]
      /\ Done(q) /\ UNCHANGED <<users, mfa, codes, sessions, ghosts>>
\* CancelMFAChallenge.
ConsumeMFAChallenge(c) ==
  /\ Pending(c)
  /\ challenges' = [challenges EXCEPT ![c] = Closed]
  /\ UNCHANGED <<users, mfa, codes, sessions, req, ghosts>>

-----------------------------------------------------------------------------
\* The user's own account.  A request is let in by a live session, and commits
\* even if that session has ended meanwhile.

AuthenticatedSession(s) == sessions[s] # None /\ users[sessions[s]] = "enabled"
BeginOwn(q, s, kind, states) ==
  /\ AuthenticatedSession(s) /\ mfa[sessions[s]] \in states
  /\ Begin(q, Request(kind, sessions[s], s))
  /\ UNCHANGED <<users, mfa, codes, sessions, challenges, ghosts>>

StartMFAEnrollment(q, s) == BeginOwn(q, s, "enroll", {"off", "pending"})
UpsertPendingMFA(q) ==
  LET u == req[q].user
  IN  /\ req[q].kind = "enroll"
      /\ mfa' = IF mfa[u] = "on" THEN mfa ELSE [mfa EXCEPT ![u] = "pending"]
      /\ Done(q) /\ UNCHANGED <<users, codes, sessions, challenges, ghosts>>

VerifyMFAEnrollment(q, s) == BeginOwn(q, s, "verify", {"pending"})
EnableMFA(q) ==
  LET u == req[q].user
  IN  /\ req[q].kind = "verify"
      /\ \/ /\ mfa[u] = "pending" /\ mfa' = [mfa EXCEPT ![u] = "on"]
            /\ InsertRecoveryCodes(u)
            /\ sessions' = Revoked(u, req[q].session) /\ challenges' = Invalidated(u)
         \/ mfa[u] # "pending" /\ UNCHANGED <<mfa, codes, sessions, challenges>>
      /\ Done(q) /\ UNCHANGED <<users, ghosts>>

RegenerateRecoveryCodes(q, s) == BeginOwn(q, s, "regenerate", {"on"})
\* Mutant: other sessions stay open.
ReplaceKeepingSessions(q) ==
  LET u == req[q].user
  IN  /\ req[q].kind = "regenerate"
      /\ \/ mfa[u] = "on" /\ InsertRecoveryCodes(u)
         \/ mfa[u] # "on" /\ UNCHANGED codes
      /\ Done(q) /\ UNCHANGED <<users, mfa, sessions, challenges, ghosts>>
ReplaceRecoveryCodes(q) ==
  LET u == req[q].user
  IN  /\ req[q].kind = "regenerate"
      /\ \/ mfa[u] = "on" /\ InsertRecoveryCodes(u) /\ sessions' = Revoked(u, req[q].session)
         \/ mfa[u] # "on" /\ UNCHANGED <<codes, sessions>>
      /\ Done(q) /\ UNCHANGED <<users, mfa, challenges, ghosts>>

StartDisableMFA(q, s) == BeginOwn(q, s, "disable", {"on"})
\* Deleting user_mfa deletes the recovery codes with it.
Without(u) ==
  /\ mfa' = [mfa EXCEPT ![u] = "off"] /\ codes' = [codes EXCEPT ![u].left = {}]
  /\ challenges' = Invalidated(u)
DisableMFA(q) ==
  LET u == req[q].user
  IN  /\ req[q].kind = "disable"
      /\ \/ mfa[u] = "on" /\ Without(u) /\ sessions' = Revoked(u, req[q].session)
         \/ mfa[u] # "on" /\ UNCHANGED <<mfa, codes, sessions, challenges>>
      /\ Done(q) /\ UNCHANGED <<users, ghosts>>

StartPasswordChange(q, s) == BeginOwn(q, s, "password", {"off", "pending", "on"})
ChangeOwnPassword(q) ==
  LET u == req[q].user
  IN  /\ req[q].kind = "password"
      /\ sessions' = IF users[u] = "enabled" THEN Revoked(u, req[q].session) ELSE sessions
      /\ Done(q) /\ UNCHANGED <<users, mfa, codes, challenges, ghosts>>

RevokeSession(s) ==
  /\ AuthenticatedSession(s)
  /\ sessions' = [sessions EXCEPT ![s] = None]
  /\ UNCHANGED <<users, mfa, codes, challenges, req, ghosts>>

-----------------------------------------------------------------------------
\* User administration, by another session; the host's reset; time

Administrator == \E s \in Session : AuthenticatedSession(s)

CreateUser(u) ==
  /\ users[u] = "none"
  /\ users' = [users EXCEPT ![u] = "enabled"]
  /\ UNCHANGED <<mfa, codes, sessions, challenges, req, ghosts>>
Create(u) == Administrator /\ CreateUser(u)

\* Mutant: the last enabled user can be disabled.
UpdateUncounted(u, enabled) ==
  /\ users' = [users EXCEPT ![u] = IF enabled THEN "enabled" ELSE "disabled"]
  /\ sessions' = IF enabled THEN sessions ELSE Revoked(u, None)
  /\ UNCHANGED <<mfa, codes, challenges, req, ghosts>>
\* The users are locked and counted before one of them is disabled.
UpdateUser(u, enabled) ==
  /\ users[u] = "enabled" /\ ~enabled => \E v \in User \ {u} : users[v] = "enabled"
  /\ users' = [users EXCEPT ![u] = IF enabled THEN "enabled" ELSE "disabled"]
  /\ sessions' = IF enabled THEN sessions ELSE Revoked(u, None)
  /\ UNCHANGED <<mfa, codes, challenges, req, ghosts>>
\* Nobody disables their own account.  The actor was let in earlier and may no
\* longer be enabled.
Update(u, enabled) ==
  /\ users[u] # "none" /\ (enabled \/ \E actor \in User \ {u} : users[actor] # "none")
  /\ UpdateUser(u, enabled)

ResetUserPassword(u) ==
  /\ users[u] # "none"
  /\ sessions' = Revoked(u, None)
  /\ UNCHANGED <<users, mfa, codes, challenges, req, ghosts>>
ResetPassword(u) == Administrator /\ ResetUserPassword(u)
ResetMFAFromHost(u) ==
  /\ users[u] # "none" /\ Without(u) /\ sessions' = Revoked(u, None)
  /\ UNCHANGED <<users, req, ghosts>>

\* Time: an expired row admits nothing, and cleanup removes only such rows.
ExpireEnrollment(u) ==
  /\ mfa[u] = "pending" /\ mfa' = [mfa EXCEPT ![u] = "off"]
  /\ UNCHANGED <<users, codes, sessions, challenges, req, ghosts>>
DeleteExpiredSessions(s) ==
  /\ sessions[s] # None
  /\ sessions' = [sessions EXCEPT ![s] = None]
  /\ UNCHANGED <<users, mfa, codes, challenges, req, ghosts>>
DeleteExpiredMFAChallenges(c) ==
  /\ challenges[c].status = "open"
  /\ challenges' = [challenges EXCEPT ![c] = Closed]
  /\ UNCHANGED <<users, mfa, codes, sessions, req, ghosts>>
\* A failed query, a lock cycle broken by the database, or a restart.
RequestFails(q) ==
  req[q] # Idle /\ Done(q) /\ UNCHANGED <<users, mfa, codes, sessions, challenges, ghosts>>

Next ==
  \/ \E q \in Slot :
       \/ Setup(q) \/ FailMFAChallenge(q) \/ UpsertPendingMFA(q) \/ EnableMFA(q)
       \/ ReplaceRecoveryCodes(q) \/ DisableMFA(q) \/ ChangeOwnPassword(q) \/ RequestFails(q)
       \/ \E u \in User : Login(q, u) \/ \E s \in Session : CreateInitialUser(q, u, s)
       \/ \E c \in Challenge : CreateMFAChallenge(q, c) \/ AnswerChallenge(q, c)
       \/ \E s \in Session :
            \/ CreateLoginSession(q, s) \/ CompleteMFAChallenge(q, s)
            \/ StartMFAEnrollment(q, s) \/ VerifyMFAEnrollment(q, s)
            \/ RegenerateRecoveryCodes(q, s) \/ StartDisableMFA(q, s) \/ StartPasswordChange(q, s)
  \/ \E s \in Session :
       RevokeSession(s) \/ DeleteExpiredSessions(s)
  \/ \E u \in User, b \in BOOLEAN : Update(u, b)
  \/ \E u \in User : Create(u) \/ ResetPassword(u) \/ ResetMFAFromHost(u) \/ ExpireEnrollment(u)
  \/ \E c \in Challenge : ConsumeMFAChallenge(c) \/ DeleteExpiredMFAChallenges(c)

Spec == Init /\ [][Next]_vars

-----------------------------------------------------------------------------
\* Properties

\* Once the controller is set up, an enabled administrator always remains,
\* although the actors that disable users may be disabled meanwhile.
AdministratorRemains == HasUsers => \E u \in User : users[u] = "enabled"

\* A disabled user has no live session: not one from a login that had verified
\* the password before, and none that comes back when the user is enabled.
DisabledHasNoSession ==
  \A s \in Session : sessions[s] # None => users[sessions[s]] = "enabled"

\* A challenge and a recovery code lead to one session at most, however many
\* requests carry them, and also across the regeneration of codes.
FactorUsedOnce == ~reused

\* When a second factor or its codes change, the sessions from before end, except
\* at most the one that asked for the change.
FactorChangeEndsSessions ==
  [][\A u \in User :
       (mfa[u] = "on") # (mfa'[u] = "on") \/ codes[u].generation # codes'[u].generation
         => \A s, t \in Session : sessions'[s] = u /\ sessions'[t] = u => s = t]_vars

=============================================================================
