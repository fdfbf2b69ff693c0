------------------------------- MODULE SignIn -------------------------------
(***************************************************************************)
(* One account and its sessions: the sign-in, password and logout routes,  *)
(* session.ts, the status and password operations of the user              *)
(* administration, and the command line that resets an account.            *)
(*                                                                         *)
(* Every action is one statement or one transaction, and the requests      *)
(* interleave between them: a request keeps the account row it read.  A    *)
(* password is the generation it was set in, 0 is never right.  `changes'  *)
(* counts the commits that are to end the sessions opened before them.     *)
(***************************************************************************)
EXTENDS Naturals

CONSTANTS SignInRequests,
          MaxFailed,      \* MAX_FAILED of the sign-in route
          SignInLimit,    \* LIMITS.login.limit
          MaxChanges,     \* bound on the commits counted by `changes'
          MaxSessions,    \* bound on the session rows
          MaxWrong        \* bound on the wrong passwords tried

ASSUME MaxFailedAssumption == MaxFailed \in Nat \ {0}
ASSUME MaxSessionsAssumption == MaxSessions \in Nat

VARIABLES account,   \* the User row
          sessions,  \* its Session rows, in slots that are used again
          request,   \* what each request does next, and what it has read
          attempts,  \* the rate-limit bucket of the user name
          changes,   \* commits that are to end the sessions
          owed,      \* a revoke was lost with its request, and none ran since
          wrong      \* wrong passwords compared while the account was not locked

signInVars == <<account, sessions, request, attempts, changes, owed, wrong>>

(* A suspended account is treated as a disabled one here. *)
Statuses == {"ACTIVE", "DISABLED"}
Account == [status: Statuses, password: Nat, mustChange: BOOLEAN, failed: Nat, locked: BOOLEAN]
Session == [opened: Nat, live: BOOLEAN, stale: BOOLEAN]
Steps == {"idle", "typed", "admitted", "open", "principal", "verified", "revoke", "revokeOpen",
          "logout"}
FirstAccount == [status |-> "ACTIVE", password |-> 1, mustChange |-> TRUE, failed |-> 0,
                 locked |-> FALSE]
Idle == [step |-> "idle", read |-> [FirstAccount EXCEPT !.mustChange = FALSE], typed |-> 0, session |-> 0]

SignInInit ==
    /\ account = FirstAccount
    /\ sessions = [s \in 1..MaxSessions |-> [opened |-> 0, live |-> FALSE, stale |-> FALSE]]
    /\ request = [r \in SignInRequests |-> Idle]
    /\ attempts = 0
    /\ changes = 1
    /\ owed = FALSE
    /\ wrong = 0

(* A row is live while it is neither revoked nor expired nor idle too long. *)
SessionLive(s) == sessions[s].live /\ account.status = "ACTIVE"

Moves(r, step) == request' = [request EXCEPT ![r].step = step]
EndsRequest(r) == request' = [request EXCEPT ![r] = Idle]
-----------------------------------------------------------------------------
(* POST /api/auth/login. *)

(* The bucket of the user name (consume), then the account is read; its      *)
(* mustChange is only part of the answer.                                    *)
TypePassword(r) ==
    /\ request[r].step = "idle"
    /\ attempts < SignInLimit
    /\ attempts' = attempts + 1
    /\ \E typed \in 0..account.password :
          request' = [request EXCEPT ![r] =
                         [step |-> "typed", typed |-> typed, session |-> 0,
                          read |-> [account EXCEPT !.mustChange = FALSE]]]
    /\ UNCHANGED <<account, sessions, changes, owed, wrong>>

WindowPasses ==
    /\ attempts > 0
    /\ attempts' = 0
    /\ UNCHANGED <<account, sessions, request, changes, owed, wrong>>

(* Whether a failure counts. *)

(* Mutant of CountsAsFailure: attempts on a locked account count as well. *)
CountsAsFailureLocked(ok, locked) == ~ok

CountsAsFailure(ok, locked) == ~ok /\ ~locked

(* The comparison, with the row that was read; a lock that was in the row    *)
(* may have lapsed by now.  The counter is written, not incremented.         *)
ComparePassword(r) ==
    LET read == request[r].read
        ok == request[r].typed = read.password
    IN /\ request[r].step = "typed"
       /\ \E locked \in {read.locked, FALSE} :
             IF ok /\ ~locked /\ read.status = "ACTIVE"
             THEN /\ Moves(r, "admitted")
                  /\ UNCHANGED <<account, wrong>>
             ELSE /\ ok \/ locked \/ wrong < MaxWrong
                  /\ EndsRequest(r)
                  /\ wrong' = IF ok \/ locked THEN wrong ELSE wrong + 1
                  /\ account' = IF CountsAsFailure(ok, locked)
                                THEN [account EXCEPT !.failed = read.failed + 1,
                                                     !.locked = @ \/ read.failed + 1 >= MaxFailed]
                                ELSE account
       /\ UNCHANGED <<sessions, attempts, changes, owed>>

ClearFailures(r) ==
    /\ request[r].step = "admitted"
    /\ account' = [account EXCEPT !.failed = 0, !.locked = FALSE]
    /\ Moves(r, "open")
    /\ UNCHANGED <<sessions, attempts, changes, owed, wrong>>

(* createSession, in a slot no row and no request uses. *)
FreeSlots == {s \in DOMAIN sessions :
                 ~sessions[s].live /\ \A r \in SignInRequests : request[r].session # s}

OpenSession(r) ==
    /\ request[r].step = "open"
    /\ \E s \in FreeSlots :
          /\ \A t \in FreeSlots : s <= t
          /\ sessions' = [sessions EXCEPT ![s] = [opened |-> changes, live |-> TRUE,
                                                 stale |-> FALSE]]
    /\ EndsRequest(r)
    /\ UNCHANGED <<account, attempts, changes, owed, wrong>>
-----------------------------------------------------------------------------
(* resolvePrincipal: every authenticated request begins with it. *)

Touched(s) == [sessions EXCEPT ![s].stale = FALSE]

(* A request of a permission is served (withApi). *)
Serve(s) ==
    /\ SessionLive(s)
    /\ ~account.mustChange
    /\ sessions[s].stale
    /\ sessions' = Touched(s)
    /\ UNCHANGED <<account, request, attempts, changes, owed, wrong>>

(* TOUCH_INTERVAL_MS, then IDLE_TTL_MS without a request. *)
SessionAges(s) ==
    /\ sessions[s].live
    /\ sessions' = [sessions EXCEPT ![s].stale = TRUE, ![s].live = ~sessions[s].stale]
    /\ UNCHANGED <<account, request, attempts, changes, owed, wrong>>

LockLapses ==
    /\ account.locked
    /\ account' = [account EXCEPT !.locked = FALSE]
    /\ UNCHANGED <<sessions, request, attempts, changes, owed, wrong>>

(* POST /api/auth/logout: the session is resolved, then revoked. *)
AskLogout(r, s) ==
    /\ request[r].step = "idle"
    /\ SessionLive(s)
    /\ sessions' = Touched(s)
    /\ request' = [request EXCEPT ![r] = [Idle EXCEPT !.step = "logout", !.session = s]]
    /\ UNCHANGED <<account, attempts, changes, owed, wrong>>

Logout(r) ==
    /\ request[r].step = "logout"
    /\ sessions' = [sessions EXCEPT ![request[r].session].live = FALSE]
    /\ EndsRequest(r)
    /\ UNCHANGED <<account, attempts, changes, owed, wrong>>
-----------------------------------------------------------------------------
(* POST /api/auth/password. *)

AskPasswordChange(r, s) ==
    /\ request[r].step = "idle"
    /\ changes < MaxChanges
    /\ SessionLive(s)
    /\ sessions' = Touched(s)
    /\ request' = [request EXCEPT ![r] = [Idle EXCEPT !.step = "principal"]]
    /\ UNCHANGED <<account, attempts, changes, owed, wrong>>

(* The row is read and the current password compared; a wrong one is a 400. *)
VerifyCurrent(r) ==
    /\ request[r].step = "principal"
    /\ \/ Moves(r, "verified")
       \/ EndsRequest(r)
    /\ UNCHANGED <<account, sessions, attempts, changes, owed, wrong>>

(* The commits that set a password: no version is compared. *)
SetsPassword(must, status) ==
    /\ changes < MaxChanges
    /\ changes' = changes + 1
    /\ account' = [status |-> status, password |-> changes + 1, mustChange |-> must,
                   failed |-> 0, locked |-> FALSE]

(* What is left to do after the commit. *)

(* Mutant of RevokeNext: the password change opens its session at once. *)
RevokeNextOpens(step) == IF step = "revokeOpen" THEN "open" ELSE step

RevokeNext(step) == step

ChangePassword(r) ==
    /\ request[r].step = "verified"
    /\ SetsPassword(FALSE, account.status)
    /\ request' = [request EXCEPT ![r].step = RevokeNext("revokeOpen")]
    /\ UNCHANGED <<sessions, attempts, owed, wrong>>

(* resetPassword of the administration, and the command line. *)
ResetPassword(r) ==
    /\ request[r].step = "idle"
    /\ \/ SetsPassword(TRUE, account.status)
       \/ SetsPassword(FALSE, "ACTIVE")
    /\ request' = [request EXCEPT ![r] = [Idle EXCEPT !.step = "revoke"]]
    /\ UNCHANGED <<sessions, attempts, owed, wrong>>

(* setStatus of the administration; its floors are in AccessAdministration. *)
SetStatus(r, status) ==
    /\ request[r].step = "idle"
    /\ account' = [account EXCEPT !.status = status, !.failed = 0, !.locked = FALSE]
    /\ IF status = "ACTIVE"
       THEN UNCHANGED <<request, changes>>
       ELSE /\ changes < MaxChanges
            /\ changes' = changes + 1
            /\ request' = [request EXCEPT ![r] = [Idle EXCEPT !.step = "revoke"]]
    /\ UNCHANGED <<sessions, attempts, owed, wrong>>

(* revokeAllSessions; the password change then opens a session of its own. *)
RevokeAll(r) ==
    /\ request[r].step \in {"revoke", "revokeOpen"}
    /\ sessions' = [s \in DOMAIN sessions |-> [sessions[s] EXCEPT !.live = FALSE]]
    /\ owed' = FALSE
    /\ IF request[r].step = "revoke" THEN EndsRequest(r) ELSE Moves(r, "open")
    /\ UNCHANGED <<account, attempts, changes, wrong>>

(* A statement throws, or the process ends: the request goes no further. *)
RequestDies(r) ==
    /\ request[r].step # "idle"
    /\ owed' = (owed \/ request[r].step \in {"revoke", "revokeOpen"})
    /\ EndsRequest(r)
    /\ UNCHANGED <<account, sessions, attempts, changes, wrong>>

SignInNext ==
    \/ WindowPasses \/ LockLapses
    \/ \E s \in DOMAIN sessions : Serve(s) \/ SessionAges(s)
    \/ \E r \in SignInRequests :
          \/ TypePassword(r) \/ ComparePassword(r) \/ ClearFailures(r) \/ OpenSession(r)
          \/ VerifyCurrent(r) \/ ChangePassword(r) \/ ResetPassword(r) \/ RevokeAll(r)
          \/ Logout(r) \/ RequestDies(r)
          \/ \E s \in DOMAIN sessions : AskLogout(r, s) \/ AskPasswordChange(r, s)
          \/ \E status \in Statuses : SetStatus(r, status)

SignInSpec == SignInInit /\ [][SignInNext]_signInVars
-----------------------------------------------------------------------------
SignInTypeOK ==
    /\ account \in Account
    /\ sessions \in [1..MaxSessions -> Session]
    /\ request \in [SignInRequests -> [step: Steps, read: Account, typed: Nat,
                                       session: 0..MaxSessions]]
    /\ attempts \in Nat /\ changes \in Nat /\ wrong \in Nat
    /\ owed \in BOOLEAN

(* The account is locked, and its counter stands where it does, only for     *)
(* wrong passwords that were really compared: attempts turned away by the    *)
(* lock do not prolong it, whatever order concurrent sign-ins write in       *)
(* (login/route.ts:31-40).                                                   *)
LockNeedsFailures ==
    /\ account.failed <= wrong
    /\ account.locked => wrong >= MaxFailed

(* A password set, a suspension or a disable ends the sessions opened before *)
(* it (password/route.ts:53, users/route.ts:324 and 439): a session older    *)
(* than the last such commit is left only while a revoke is still to come,   *)
(* or was lost with its request.  A sign-in that had passed its check before *)
(* the commit may still open a session after the revoke.                     *)
ChangesEndSessions ==
    \A s \in DOMAIN sessions :
        sessions[s].live /\ sessions[s].opened < changes =>
            \/ owed
            \/ \E r \in SignInRequests : request[r].step \in {"revoke", "revokeOpen"}
=============================================================================
