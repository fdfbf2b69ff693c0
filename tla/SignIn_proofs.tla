---------------------------- MODULE SignIn_proofs ----------------------------
(***************************************************************************)
(* Proofs about one account and its sessions, for any number of requests,  *)
(* sessions, passwords and wrong attempts.                                 *)
(*                                                                         *)
(* The counter of failures is written from a row that was read earlier, so *)
(* its bound is kept by what requests still hold as well as by the row.    *)
(***************************************************************************)
EXTENDS SignIn, TLAPS

USE MaxFailedAssumption, MaxSessionsAssumption

(* What the counter and the lock of a row, stored or read, may show. *)
Earned(row) == row.failed <= wrong /\ (row.locked => wrong >= MaxFailed)

(* Every row that was read was earned as well: it may be written back. *)
ReadsEarned == \A r \in SignInRequests : Earned(request[r].read)

SignInInv == SignInTypeOK /\ LockNeedsFailures /\ ReadsEarned /\ ChangesEndSessions

Request == [step: Steps, read: Account, typed: Nat, session: 0..MaxSessions]
Revoking(r) == request[r].step \in {"revoke", "revokeOpen"}
-----------------------------------------------------------------------------
(* Types.                                                                    *)

LEMMA IdleType == Idle \in Request /\ Idle.step = "idle" /\ Idle.read.failed = 0 /\ ~Idle.read.locked
  <1>1. FirstAccount \in Account
    BY DEF FirstAccount, Account, Statuses
  <1>2. Idle.read \in Account /\ Idle.read.failed = 0 /\ ~Idle.read.locked
    BY <1>1 DEF Idle, FirstAccount, Account
  <1>3. "idle" \in Steps
    BY DEF Steps
  <1> QED
    BY <1>2, <1>3 DEF Idle, Request

LEMMA ReadType ==
    ASSUME SignInTypeOK, NEW r \in SignInRequests
    PROVE  request[r] \in Request /\ request[r].read \in Account
  BY DEF SignInTypeOK, Request

(* One request changes: what follows for it and for the others. *)
LEMMA OneRequest ==
    ASSUME SignInTypeOK, NEW r \in SignInRequests, NEW q \in Request,
           request' = [request EXCEPT ![r] = q]
    PROVE  /\ request' \in [SignInRequests -> Request]
           /\ request'[r] = q
           /\ \A o \in SignInRequests \ {r} : request'[o] = request[o]
  BY DEF SignInTypeOK, Request

LEMMA MovesType ==
    ASSUME SignInTypeOK, NEW r \in SignInRequests, NEW s \in Steps, Moves(r, s)
    PROVE  /\ request' \in [SignInRequests -> Request]
           /\ request'[r].step = s /\ request'[r].read = request[r].read
           /\ \A o \in SignInRequests \ {r} : request'[o] = request[o]
  <1>1. [request[r] EXCEPT !.step = s] \in Request
    BY ReadType DEF Request
  <1>2. request' = [request EXCEPT ![r] = [request[r] EXCEPT !.step = s]]
    BY DEF Moves, SignInTypeOK
  <1>3. /\ [request[r] EXCEPT !.step = s].step = s
        /\ [request[r] EXCEPT !.step = s].read = request[r].read
    BY ReadType DEF Request
  <1> QED
    BY <1>1, <1>2, <1>3, OneRequest

LEMMA EndsType ==
    ASSUME SignInTypeOK, NEW r \in SignInRequests, EndsRequest(r)
    PROVE  /\ request' \in [SignInRequests -> Request]
           /\ request'[r] = Idle
           /\ \A o \in SignInRequests \ {r} : request'[o] = request[o]
  BY OneRequest, IdleType DEF EndsRequest

LEMMA TouchedType ==
    ASSUME SignInTypeOK, NEW s \in DOMAIN sessions
    PROVE  /\ Touched(s) \in [1..MaxSessions -> Session]
           /\ \A t \in 1..MaxSessions : /\ Touched(s)[t].live = sessions[t].live
                                        /\ Touched(s)[t].opened = sessions[t].opened
  BY DEF SignInTypeOK, Touched, Session

(* What a step does to the row, by the way it is written. *)
LEMMA RowType ==
    ASSUME SignInTypeOK
    PROVE  /\ account \in Account
           /\ changes + 1 \in Nat /\ wrong + 1 \in Nat /\ attempts + 1 \in Nat
           /\ \A r \in SignInRequests : request[r].read.failed + 1 \in Nat
  BY ReadType DEF SignInTypeOK, Account

LEMMA SetsPasswordType ==
    ASSUME SignInTypeOK, NEW must \in BOOLEAN, NEW status \in Statuses, SetsPassword(must, status)
    PROVE  /\ account' \in Account /\ account'.failed = 0 /\ ~account'.locked
           /\ changes' = changes + 1 /\ changes' \in Nat
  BY DEF SignInTypeOK, SetsPassword, Account

LEMMA TypeStep ==
    ASSUME SignInTypeOK, NEW r \in SignInRequests,
           \/ TypePassword(r) \/ ComparePassword(r) \/ ClearFailures(r) \/ OpenSession(r)
           \/ VerifyCurrent(r) \/ ChangePassword(r) \/ ResetPassword(r) \/ RevokeAll(r)
           \/ Logout(r) \/ RequestDies(r)
           \/ \E s \in DOMAIN sessions : AskLogout(r, s) \/ AskPasswordChange(r, s)
           \/ \E status \in Statuses : SetStatus(r, status)
    PROVE  SignInTypeOK'
  <1> USE RowType DEF Request
  <1>s. {"idle", "typed", "admitted", "open", "principal", "verified", "revoke", "revokeOpen",
         "logout"} \subseteq Steps
    BY DEF Steps
  <1>1. CASE TypePassword(r)
    <2>1. PICK typed \in 0..account.password :
             request' = [request EXCEPT ![r] =
                            [step |-> "typed", typed |-> typed, session |-> 0,
                             read |-> [account EXCEPT !.mustChange = FALSE]]]
      BY <1>1 DEF TypePassword
    <2>2. [account EXCEPT !.mustChange = FALSE] \in Account
      BY DEF Account
    <2>3. account.password \in Nat /\ typed \in Nat
      BY DEF Account
    <2>4. [step |-> "typed", typed |-> typed, session |-> 0,
           read |-> [account EXCEPT !.mustChange = FALSE]] \in Request
      BY <2>2, <2>3, <1>s
    <2>5. request' \in [SignInRequests -> Request]
      BY <2>1, <2>4, OneRequest
    <2> QED
      BY <1>1, <2>5 DEF TypePassword, SignInTypeOK
  <1>2. CASE ComparePassword(r)
    <2>1. request' \in [SignInRequests -> Request]
      BY <1>2, <1>s, MovesType, EndsType DEF ComparePassword
    <2>2. account' \in Account
      BY <1>2 DEF ComparePassword, Account
    <2>3. wrong' \in Nat
      BY <1>2 DEF ComparePassword, SignInTypeOK
    <2> QED
      BY <1>2, <2>1, <2>2, <2>3 DEF ComparePassword, SignInTypeOK
  <1>3. CASE ClearFailures(r)
    <2>1. request' \in [SignInRequests -> Request]
      BY <1>3, <1>s, MovesType DEF ClearFailures
    <2>2. account' \in Account
      BY <1>3 DEF ClearFailures, Account
    <2> QED
      BY <1>3, <2>1, <2>2 DEF ClearFailures, SignInTypeOK
  <1>4. CASE OpenSession(r)
    <2>1. request' \in [SignInRequests -> Request]
      BY <1>4, EndsType DEF OpenSession
    <2>2. sessions' \in [1..MaxSessions -> Session]
      <3>1. PICK s : sessions' = [sessions EXCEPT ![s] = [opened |-> changes, live |-> TRUE,
                                                         stale |-> FALSE]]
        BY <1>4 DEF OpenSession
      <3>2. [opened |-> changes, live |-> TRUE, stale |-> FALSE] \in Session
        BY DEF Session, SignInTypeOK
      <3> QED
        BY <3>1, <3>2 DEF SignInTypeOK
    <2> QED
      BY <1>4, <2>1, <2>2 DEF OpenSession, SignInTypeOK
  <1>5. CASE VerifyCurrent(r)
    <2>1. request' \in [SignInRequests -> Request]
      BY <1>5, <1>s, MovesType, EndsType DEF VerifyCurrent
    <2> QED
      BY <1>5, <2>1 DEF VerifyCurrent, SignInTypeOK
  <1>6. CASE ChangePassword(r)
    <2>1. Moves(r, "revokeOpen") /\ SetsPassword(FALSE, account.status)
      BY <1>6 DEF ChangePassword, RevokeNext, Moves
    <2>2. request' \in [SignInRequests -> Request]
      BY <2>1, <1>s, MovesType
    <2>3. account.status \in Statuses
      BY DEF Account
    <2>4. account' \in Account /\ changes' \in Nat
      BY <2>1, <2>3, SetsPasswordType
    <2> QED
      BY <1>6, <2>2, <2>4 DEF ChangePassword, SignInTypeOK
  <1>7. CASE ResetPassword(r)
    <2>1. [Idle EXCEPT !.step = "revoke"] \in Request
      BY IdleType, <1>s
    <2>2. request' \in [SignInRequests -> Request]
      BY <1>7, <2>1, OneRequest DEF ResetPassword
    <2>3. account.status \in Statuses /\ "ACTIVE" \in Statuses
      BY DEF Account, Statuses
    <2>4. account' \in Account /\ changes' \in Nat
      BY <1>7, <2>3, SetsPasswordType DEF ResetPassword
    <2> QED
      BY <1>7, <2>2, <2>4 DEF ResetPassword, SignInTypeOK
  <1>8. CASE RevokeAll(r)
    <2>1. request' \in [SignInRequests -> Request]
      BY <1>8, <1>s, MovesType, EndsType DEF RevokeAll
    <2>2. sessions' \in [1..MaxSessions -> Session]
      BY <1>8 DEF RevokeAll, SignInTypeOK, Session
    <2>3. account' = account /\ attempts' = attempts /\ changes' = changes /\ wrong' = wrong
          /\ owed' = FALSE
      BY <1>8 DEF RevokeAll
    <2> QED
      BY <2>1, <2>2, <2>3 DEF SignInTypeOK
  <1>9. CASE Logout(r)
    <2>1. request' \in [SignInRequests -> Request]
      BY <1>9, EndsType DEF Logout
    <2>2. sessions' \in [1..MaxSessions -> Session]
      BY <1>9 DEF Logout, SignInTypeOK, Session
    <2> QED
      BY <1>9, <2>1, <2>2 DEF Logout, SignInTypeOK
  <1>10. CASE RequestDies(r)
    <2>1. request' \in [SignInRequests -> Request]
      BY <1>10, EndsType DEF RequestDies
    <2>2. owed' \in BOOLEAN
      BY <1>10 DEF RequestDies, SignInTypeOK
    <2> QED
      BY <1>10, <2>1, <2>2 DEF RequestDies, SignInTypeOK
  <1>11. ASSUME NEW s \in DOMAIN sessions, AskLogout(r, s)
         PROVE  SignInTypeOK'
    <2>1. s \in 0..MaxSessions
      BY DEF SignInTypeOK
    <2>2. [Idle EXCEPT !.step = "logout", !.session = s] \in Request
      BY <2>1, <1>s, IdleType
    <2>3. request' \in [SignInRequests -> Request]
      BY <1>11, <2>2, OneRequest DEF AskLogout
    <2> QED
      BY <1>11, <2>3, TouchedType DEF AskLogout, SignInTypeOK
  <1>12. ASSUME NEW s \in DOMAIN sessions, AskPasswordChange(r, s)
         PROVE  SignInTypeOK'
    <2>1. [Idle EXCEPT !.step = "principal"] \in Request
      BY <1>s, IdleType
    <2>2. request' \in [SignInRequests -> Request]
      BY <1>12, <2>1, OneRequest DEF AskPasswordChange
    <2> QED
      BY <1>12, <2>2, TouchedType DEF AskPasswordChange, SignInTypeOK
  <1>13. ASSUME NEW status \in Statuses, SetStatus(r, status)
         PROVE  SignInTypeOK'
    <2>1. [Idle EXCEPT !.step = "revoke"] \in Request
      BY IdleType, <1>s
    <2>2. request' \in [SignInRequests -> Request] /\ changes' \in Nat
      BY <1>13, <2>1, OneRequest DEF SetStatus, SignInTypeOK
    <2>3. account' \in Account
      BY <1>13 DEF SetStatus, Account
    <2> QED
      BY <1>13, <2>2, <2>3 DEF SetStatus, SignInTypeOK
  <1> QED
    BY <1>1, <1>2, <1>3, <1>4, <1>5, <1>6, <1>7, <1>8, <1>9, <1>10, <1>11, <1>12, <1>13
-----------------------------------------------------------------------------
(* Failures.                                                                 *)

(* A step that compares no password only forgets failures, and reads the row *)
(* as it stands.                                                             *)
LEMMA FailuresKept ==
    ASSUME SignInInv, wrong' = wrong,
           account'.failed \in {0, account.failed}, account'.locked => account.locked,
           \A r \in SignInRequests :
               request'[r].read \in {request[r].read, Idle.read, [account EXCEPT !.mustChange = FALSE]}
    PROVE  (LockNeedsFailures /\ ReadsEarned)'
  <1> USE DEF SignInInv
  <1>1. Earned(account) /\ account \in Account /\ wrong \in Nat
    BY DEF Earned, LockNeedsFailures, SignInTypeOK
  <1>2. Earned([account EXCEPT !.mustChange = FALSE])
    BY <1>1 DEF Earned, Account
  <1>3. Earned(Idle.read)
    BY <1>1, IdleType DEF Earned
  <1>4. \A r \in SignInRequests : Earned(request'[r].read)
    BY <1>2, <1>3 DEF ReadsEarned
  <1>5. ReadsEarned'
    BY <1>4 DEF ReadsEarned, Earned
  <1>6. LockNeedsFailures'
    BY <1>1 DEF LockNeedsFailures
  <1> QED
    BY <1>5, <1>6

(* A failure that counts writes one more than was read, and was one more.    *)
LEMMA FailureCounted ==
    ASSUME SignInInv, NEW r \in SignInRequests, ComparePassword(r)
    PROVE  (LockNeedsFailures /\ ReadsEarned)'
  <1> USE DEF SignInInv
  <1>1. /\ account \in Account /\ wrong \in Nat /\ Earned(account)
        /\ request[r].read \in Account /\ Earned(request[r].read)
    BY ReadType DEF SignInTypeOK, Earned, LockNeedsFailures, ReadsEarned
  <1>2. PICK locked \in {request[r].read.locked, FALSE} :
          LET read == request[r].read
              ok == request[r].typed = read.password
          IN IF ok /\ ~locked /\ read.status = "ACTIVE"
             THEN Moves(r, "admitted") /\ UNCHANGED <<account, wrong>>
             ELSE /\ EndsRequest(r)
                  /\ wrong' = IF ok \/ locked THEN wrong ELSE wrong + 1
                  /\ account' = IF ~ok /\ ~locked
                                THEN [account EXCEPT !.failed = read.failed + 1,
                                                     !.locked = @ \/ read.failed + 1 >= MaxFailed]
                                ELSE account
    BY DEF ComparePassword, CountsAsFailure
  <1>3. CASE Moves(r, "admitted") /\ UNCHANGED <<account, wrong>>
    <2>1. \A o \in SignInRequests : request'[o].read = request[o].read
      BY <1>3, MovesType DEF Steps
    <2> QED
      BY <1>3, <2>1, FailuresKept
  <1>4. CASE EndsRequest(r) /\ wrong' = wrong /\ account' = account
    <2>1. \A o \in SignInRequests : request'[o].read \in {request[o].read, Idle.read}
      BY <1>4, EndsType
    <2> QED
      BY <1>4, <2>1, FailuresKept
  <1>5. CASE /\ EndsRequest(r)
             /\ wrong' = wrong + 1
             /\ account' = [account EXCEPT !.failed = request[r].read.failed + 1,
                                !.locked = @ \/ request[r].read.failed + 1 >= MaxFailed]
    <2>1. \A o \in SignInRequests : request'[o].read \in {request[o].read, Idle.read}
      BY <1>5, EndsType
    <2>2. \A o \in SignInRequests : /\ request[o].read \in Account
                                    /\ Earned(request[o].read)
      BY ReadType DEF ReadsEarned
    <2>3. ReadsEarned'
      BY <1>1, <1>5, <2>1, <2>2, IdleType DEF ReadsEarned, Earned, Account
    <2>4. /\ account'.failed = request[r].read.failed + 1
          /\ account'.locked => account.locked \/ request[r].read.failed + 1 >= MaxFailed
      BY <1>1, <1>5 DEF Account
    <2>5. request[r].read.failed \in Nat /\ request[r].read.failed <= wrong
      BY <1>1 DEF Earned, Account
    <2>6. LockNeedsFailures'
      BY <1>1, <1>5, <2>4, <2>5 DEF LockNeedsFailures
    <2> QED
      BY <2>3, <2>6
  <1> QED
    BY <1>2, <1>3, <1>4, <1>5

LEMMA FailuresStep ==
    ASSUME SignInInv, NEW r \in SignInRequests,
           \/ TypePassword(r) \/ ClearFailures(r) \/ OpenSession(r)
           \/ VerifyCurrent(r) \/ ChangePassword(r) \/ ResetPassword(r) \/ RevokeAll(r)
           \/ Logout(r) \/ RequestDies(r)
           \/ \E s \in DOMAIN sessions : AskLogout(r, s) \/ AskPasswordChange(r, s)
           \/ \E status \in Statuses : SetStatus(r, status)
    PROVE  (LockNeedsFailures /\ ReadsEarned)'
  <1> DEFINE row == [account EXCEPT !.mustChange = FALSE]
  <1>1. SignInTypeOK /\ account \in Account
    BY RowType DEF SignInInv
  <1>2. wrong' = wrong
    BY DEF TypePassword, ClearFailures, OpenSession, VerifyCurrent, ChangePassword, ResetPassword,
           RevokeAll, Logout, RequestDies, AskLogout, AskPasswordChange, SetStatus
  <1>3. account'.failed \in {0, account.failed} /\ (account'.locked => account.locked)
    <2>1. CASE ClearFailures(r)
      BY <1>1, <2>1 DEF ClearFailures, Account
    <2>2. CASE ChangePassword(r) \/ ResetPassword(r)
      BY <1>1, <2>2 DEF ChangePassword, ResetPassword, SetsPassword
    <2>3. CASE \E status \in Statuses : SetStatus(r, status)
      BY <1>1, <2>3 DEF SetStatus, Account
    <2>4. CASE UNCHANGED account
      BY <2>4
    <2> QED
      BY <2>1, <2>2, <2>3, <2>4 DEF TypePassword, OpenSession, VerifyCurrent, RevokeAll, Logout,
         RequestDies, AskLogout, AskPasswordChange
  <1>4. \/ \E s \in Steps : Moves(r, s)
        \/ EndsRequest(r)
        \/ UNCHANGED request
        \/ \E q : /\ request' = [request EXCEPT ![r] = q]
                  /\ q.read \in {Idle.read, row}
    <2>1. \A s \in Steps : [Idle EXCEPT !.step = s].read = Idle.read
      BY IdleType DEF Request
    <2>2. \A s \in 1..MaxSessions :
              [Idle EXCEPT !.step = "logout", !.session = s].read = Idle.read
      BY IdleType DEF Request
    <2>3. {"admitted", "open", "verified", "revoke", "revokeOpen", "principal"} \subseteq Steps
      BY DEF Steps
    <2>4. CASE TypePassword(r)
      <3>1. PICK typed \in 0..account.password :
               request' = [request EXCEPT ![r] = [step |-> "typed", typed |-> typed, session |-> 0,
                                                  read |-> row]]
        BY <2>4 DEF TypePassword
      <3>2. [step |-> "typed", typed |-> typed, session |-> 0, read |-> row].read = row
        OBVIOUS
      <3> QED
        BY <3>1, <3>2
    <2>5. CASE ClearFailures(r) \/ OpenSession(r) \/ VerifyCurrent(r) \/ RevokeAll(r) \/ Logout(r)
               \/ RequestDies(r)
      BY <2>3, <2>5 DEF ClearFailures, OpenSession, VerifyCurrent, RevokeAll, Logout, RequestDies
    <2>6. CASE ChangePassword(r)
      BY <2>3, <2>6 DEF ChangePassword, RevokeNext, Moves
    <2>7. CASE ResetPassword(r) \/ \E status \in Statuses : SetStatus(r, status)
      BY <2>1, <2>3, <2>7 DEF ResetPassword, SetStatus
    <2>8. ASSUME NEW s \in DOMAIN sessions, AskLogout(r, s) \/ AskPasswordChange(r, s)
          PROVE  \E q : request' = [request EXCEPT ![r] = q] /\ q.read = Idle.read
      BY <1>1, <2>1, <2>2, <2>3, <2>8 DEF AskLogout, AskPasswordChange, SignInTypeOK
    <2> QED
      BY <2>4, <2>5, <2>6, <2>7, <2>8
  <1>5. \A o \in SignInRequests : request'[o].read \in {request[o].read, Idle.read, row}
    <2>1. CASE \E s \in Steps : Moves(r, s)
      BY <1>1, <2>1, MovesType
    <2>2. CASE EndsRequest(r)
      BY <1>1, <2>2, EndsType
    <2>3. CASE UNCHANGED request
      BY <2>3
    <2>4. CASE \E q : request' = [request EXCEPT ![r] = q] /\ q.read \in {Idle.read, row}
      BY <1>1, <2>4 DEF SignInTypeOK
    <2> QED
      BY <1>4, <2>1, <2>2, <2>3, <2>4
  <1> QED
    BY <1>2, <1>3, <1>5, FailuresKept
-----------------------------------------------------------------------------
(* Sessions.                                                                 *)

(* A step that revives no session and gives up no revoke. *)
LEMMA SessionsKept ==
    ASSUME SignInTypeOK, ChangesEndSessions, changes' = changes,
           DOMAIN sessions' = DOMAIN sessions,
           \A s \in DOMAIN sessions : sessions'[s].live =>
               sessions[s].live /\ sessions'[s].opened = sessions[s].opened,
           owed => owed',
           \A r \in SignInRequests :
               request[r].step \in {"revoke", "revokeOpen"} =>
                   owed' \/ request'[r].step \in {"revoke", "revokeOpen"}
    PROVE  ChangesEndSessions'
  BY DEF ChangesEndSessions

(* A commit that is to end sessions leaves its request with the revoke. *)
LEMMA RevokeOwed ==
    ASSUME NEW r \in SignInRequests, request'[r].step \in {"revoke", "revokeOpen"}
    PROVE  ChangesEndSessions'
  BY DEF ChangesEndSessions

LEMMA ChangesStep ==
    ASSUME SignInTypeOK, ChangesEndSessions, NEW r \in SignInRequests,
           \/ TypePassword(r) \/ ComparePassword(r) \/ ClearFailures(r) \/ OpenSession(r)
           \/ VerifyCurrent(r) \/ ChangePassword(r) \/ ResetPassword(r) \/ RevokeAll(r)
           \/ Logout(r) \/ RequestDies(r)
           \/ \E s \in DOMAIN sessions : AskLogout(r, s) \/ AskPasswordChange(r, s)
           \/ \E status \in Statuses : SetStatus(r, status)
    PROVE  ChangesEndSessions'
  <1>s. {"admitted", "open", "verified", "revokeOpen"} \subseteq Steps
    BY DEF Steps
  <1>t. [Idle EXCEPT !.step = "revoke"].step = "revoke"
    BY IdleType DEF Request
  <1>1. CASE TypePassword(r)
    <2>1. \A o \in SignInRequests \ {r} : request'[o] = request[o]
      BY <1>1 DEF TypePassword, SignInTypeOK
    <2> QED
      BY <1>1, <2>1, SessionsKept DEF TypePassword
  <1>2. CASE ComparePassword(r)
    <2>1. \A o \in SignInRequests \ {r} : request'[o] = request[o]
      BY <1>2, <1>s, MovesType, EndsType DEF ComparePassword
    <2> QED
      BY <1>2, <2>1, SessionsKept DEF ComparePassword
  <1>3. CASE ClearFailures(r) \/ VerifyCurrent(r)
    <2>1. \A o \in SignInRequests \ {r} : request'[o] = request[o]
      BY <1>3, <1>s, MovesType, EndsType DEF ClearFailures, VerifyCurrent
    <2> QED
      BY <1>3, <2>1, SessionsKept DEF ClearFailures, VerifyCurrent
  <1>4. CASE OpenSession(r)
    <2>1. \A o \in SignInRequests \ {r} : request'[o] = request[o]
      BY <1>4, EndsType DEF OpenSession
    <2>2. PICK s \in DOMAIN sessions :
             sessions' = [sessions EXCEPT ![s] = [opened |-> changes, live |-> TRUE,
                                                  stale |-> FALSE]]
      BY <1>4 DEF OpenSession, FreeSlots
    <2>3. sessions'[s].opened = changes /\ \A t \in DOMAIN sessions \ {s} : sessions'[t] = sessions[t]
      BY <2>2
    <2>4. changes \in Nat /\ changes' = changes /\ owed' = owed /\ DOMAIN sessions' = DOMAIN sessions
      BY <1>4, <2>2 DEF OpenSession, SignInTypeOK
    <2>5. \A o \in SignInRequests : request[o].step \in {"revoke", "revokeOpen"} =>
                                       request'[o] = request[o]
      BY <1>4, <2>1 DEF OpenSession
    <2> QED
      BY <2>3, <2>4, <2>5 DEF ChangesEndSessions
  <1>5. CASE ChangePassword(r)
    <2>1. request'[r].step = "revokeOpen"
      BY <1>5, <1>s, MovesType DEF ChangePassword, RevokeNext, Moves
    <2> QED
      BY <2>1, RevokeOwed
  <1>6. CASE ResetPassword(r)
    <2>1. request'[r].step = "revoke"
      BY <1>6, <1>t DEF ResetPassword, SignInTypeOK
    <2> QED
      BY <2>1, RevokeOwed
  <1>7. CASE RevokeAll(r)
    <2>1. DOMAIN sessions' = DOMAIN sessions /\ \A s \in DOMAIN sessions : ~sessions'[s].live
      BY <1>7 DEF RevokeAll, SignInTypeOK, Session
    <2> QED
      BY <2>1 DEF ChangesEndSessions
  <1>8. CASE Logout(r)
    <2>1. \A o \in SignInRequests \ {r} : request'[o] = request[o]
      BY <1>8, EndsType DEF Logout
    <2>2. /\ DOMAIN sessions' = DOMAIN sessions
          /\ \A s \in DOMAIN sessions : sessions'[s].live =>
                 sessions[s].live /\ sessions'[s].opened = sessions[s].opened
      BY <1>8 DEF Logout, SignInTypeOK, Session
    <2> QED
      BY <1>8, <2>1, <2>2, SessionsKept DEF Logout
  <1>9. CASE RequestDies(r)
    <2>1. \A o \in SignInRequests \ {r} : request'[o] = request[o]
      BY <1>9, EndsType DEF RequestDies
    <2>2. /\ changes' = changes /\ sessions' = sessions /\ (owed => owed')
          /\ request[r].step \in {"revoke", "revokeOpen"} => owed'
      BY <1>9 DEF RequestDies
    <2> QED
      BY <2>1, <2>2, SessionsKept
  <1>10. ASSUME NEW s \in DOMAIN sessions, AskLogout(r, s) \/ AskPasswordChange(r, s)
         PROVE  ChangesEndSessions'
    <2>1. \A o \in SignInRequests \ {r} : request'[o] = request[o]
      BY <1>10 DEF AskLogout, AskPasswordChange, SignInTypeOK
    <2>2. sessions' = Touched(s) /\ changes' = changes /\ owed' = owed /\ request[r].step = "idle"
      BY <1>10 DEF AskLogout, AskPasswordChange
    <2>3. DOMAIN Touched(s) = DOMAIN sessions /\ DOMAIN sessions = 1..MaxSessions
      BY TouchedType DEF SignInTypeOK
    <2>4. \A t \in DOMAIN sessions : Touched(s)[t].live =>
              sessions[t].live /\ Touched(s)[t].opened = sessions[t].opened
      BY <2>3, TouchedType
    <2> QED
      BY <2>1, <2>2, <2>3, <2>4, SessionsKept
  <1>11. ASSUME NEW status \in Statuses, SetStatus(r, status)
         PROVE  ChangesEndSessions'
    <2>1. CASE status = "ACTIVE"
      BY <1>11, <2>1, SessionsKept DEF SetStatus
    <2>2. CASE status # "ACTIVE"
      <3>1. request'[r].step = "revoke"
        BY <1>11, <1>t, <2>2 DEF SetStatus, SignInTypeOK
      <3> QED
        BY <3>1, RevokeOwed
    <2> QED
      BY <2>1, <2>2
  <1> QED
    BY <1>1, <1>2, <1>3, <1>4, <1>5, <1>6, <1>7, <1>8, <1>9, <1>10, <1>11
-----------------------------------------------------------------------------
(* The invariant.                                                            *)

LEMMA SignInInvInit == SignInInit => SignInInv
  <1> SUFFICES ASSUME SignInInit PROVE SignInInv
    OBVIOUS
  <1>1. account \in Account /\ account.failed = 0 /\ ~account.locked /\ wrong = 0 /\ changes = 1
    BY DEF SignInInit, FirstAccount, Account, Statuses
  <1>2. request \in [SignInRequests -> Request] /\ \A r \in SignInRequests : request[r] = Idle
    BY IdleType DEF SignInInit
  <1>3. /\ sessions \in [1..MaxSessions -> Session]
        /\ \A s \in DOMAIN sessions : ~sessions[s].live
    BY DEF SignInInit, Session
  <1>4. SignInTypeOK
    <2>1. attempts = 0 /\ owed = FALSE
      BY DEF SignInInit
    <2> QED
      BY <1>1, <1>2, <1>3, <2>1 DEF SignInTypeOK, Request
  <1>5. LockNeedsFailures /\ ReadsEarned
    BY <1>1, <1>2, IdleType DEF LockNeedsFailures, ReadsEarned, Earned
  <1>6. ChangesEndSessions
    BY <1>3 DEF ChangesEndSessions
  <1> QED
    BY <1>4, <1>5, <1>6 DEF SignInInv

(* Steps of no request: windows, locks and idle times run out, and a request *)
(* of a permission touches its session.                                      *)
LEMMA SignInInvAlone ==
    ASSUME SignInInv,
           \/ WindowPasses \/ LockLapses
           \/ \E s \in DOMAIN sessions : Serve(s) \/ SessionAges(s)
    PROVE  SignInInv'
  <1> USE DEF SignInInv
  <1>1. CASE WindowPasses
    <2>1. SignInTypeOK'
      BY <1>1 DEF WindowPasses, SignInTypeOK
    <2>2. (LockNeedsFailures /\ ReadsEarned)'
      BY <1>1, FailuresKept DEF WindowPasses
    <2>3. ChangesEndSessions'
      BY <1>1, SessionsKept DEF WindowPasses
    <2> QED
      BY <2>1, <2>2, <2>3
  <1>2. CASE LockLapses
    <2>1. account' \in Account /\ account'.failed = account.failed /\ ~account'.locked
      BY <1>2, RowType DEF LockLapses, Account
    <2>2. SignInTypeOK'
      BY <1>2, <2>1 DEF LockLapses, SignInTypeOK
    <2>3. (LockNeedsFailures /\ ReadsEarned)'
      BY <1>2, <2>1, FailuresKept DEF LockLapses
    <2>4. ChangesEndSessions'
      BY <1>2, SessionsKept DEF LockLapses
    <2> QED
      BY <2>2, <2>3, <2>4
  <1>3. ASSUME NEW s \in DOMAIN sessions, Serve(s) \/ SessionAges(s)
        PROVE  SignInInv'
    <2>1. /\ sessions' \in [1..MaxSessions -> Session]
          /\ \A t \in DOMAIN sessions : sessions'[t].live =>
                 sessions[t].live /\ sessions'[t].opened = sessions[t].opened
      <3>1. CASE Serve(s)
        <4>1. sessions' = Touched(s) /\ DOMAIN sessions = 1..MaxSessions
          BY <3>1 DEF Serve, SignInTypeOK
        <4> QED
          BY <4>1, TouchedType
      <3>2. CASE SessionAges(s)
        <4> DEFINE aged == [sessions[s] EXCEPT !.stale = TRUE, !.live = ~sessions[s].stale]
        <4>1. sessions \in [1..MaxSessions -> Session] /\ sessions[s] \in Session /\ sessions[s].live
          BY <3>2 DEF SessionAges, SignInTypeOK
        <4>2. sessions' = [sessions EXCEPT ![s] = aged]
          BY <3>2, <4>1 DEF SessionAges
        <4>3. aged \in Session /\ aged.opened = sessions[s].opened
          BY <4>1 DEF Session
        <4> HIDE DEF aged
        <4> QED
          BY <4>1, <4>2, <4>3
      <3> QED
        BY <1>3, <3>1, <3>2
    <2>2. UNCHANGED <<account, request, attempts, changes, owed, wrong>>
      BY <1>3 DEF Serve, SessionAges
    <2>3. SignInTypeOK'
      BY <2>1, <2>2 DEF SignInTypeOK
    <2>4. (LockNeedsFailures /\ ReadsEarned)'
      BY <2>2, FailuresKept
    <2>5. DOMAIN sessions' = DOMAIN sessions
      BY <2>1 DEF SignInTypeOK
    <2>6. ChangesEndSessions'
      BY <2>1, <2>2, <2>5, SessionsKept
    <2> QED
      BY <2>3, <2>4, <2>6
  <1> QED
    BY <1>1, <1>2, <1>3

LEMMA SignInInvNext == SignInInv /\ [SignInNext]_signInVars => SignInInv'
  <1> SUFFICES ASSUME SignInInv, [SignInNext]_signInVars PROVE SignInInv'
    OBVIOUS
  <1>1. ASSUME NEW r \in SignInRequests, ComparePassword(r)
        PROVE  SignInInv'
    BY <1>1, TypeStep, FailureCounted, ChangesStep DEF SignInInv
  <1>2. ASSUME NEW r \in SignInRequests,
               \/ TypePassword(r) \/ ClearFailures(r) \/ OpenSession(r)
               \/ VerifyCurrent(r) \/ ChangePassword(r) \/ ResetPassword(r) \/ RevokeAll(r)
               \/ Logout(r) \/ RequestDies(r)
               \/ \E s \in DOMAIN sessions : AskLogout(r, s) \/ AskPasswordChange(r, s)
               \/ \E status \in Statuses : SetStatus(r, status)
        PROVE  SignInInv'
    BY <1>2, TypeStep, FailuresStep, ChangesStep DEF SignInInv
  <1>3. CASE UNCHANGED signInVars
    BY <1>3 DEF SignInInv, SignInTypeOK, LockNeedsFailures, ReadsEarned, Earned,
                ChangesEndSessions, signInVars
  <1> QED
    BY <1>1, <1>2, <1>3, SignInInvAlone DEF SignInNext

(* An account, its sessions and its requests keep their types. *)
THEOREM SignInTypeCorrect == SignInSpec => []SignInTypeOK
  <1>1. SignInInv => SignInTypeOK
    BY DEF SignInInv
  <1> QED
    BY <1>1, SignInInvInit, SignInInvNext, PTL DEF SignInSpec

(* However concurrent sign-ins write the row each of them read before, the   *)
(* account is locked only for MaxFailed wrong passwords really compared, for *)
(* every threshold (login/route.ts).                                         *)
THEOREM LockEarned == SignInSpec => []LockNeedsFailures
  <1>1. SignInInv => LockNeedsFailures
    BY DEF SignInInv
  <1> QED
    BY <1>1, SignInInvInit, SignInInvNext, PTL DEF SignInSpec

(* However sign-ins, logouts and the operations of an administrator overlap, *)
(* a session older than the last password, suspension or disable is live     *)
(* only while a revoke is still to come or was lost with its request.        *)
THEOREM SessionsEnded == SignInSpec => []ChangesEndSessions
  <1>1. SignInInv => ChangesEndSessions
    BY DEF SignInInv
  <1> QED
    BY <1>1, SignInInvInit, SignInInvNext, PTL DEF SignInSpec
=============================================================================
