------------------------ MODULE FantasyIntake_proofs ------------------------
(***************************************************************************)
(* Proofs about the way in of Fantasy data: the scheduler of imports, the  *)
(* client of the API, the capture of raw batches and the contract of their *)
(* columns, for any number of scheduler objects, fetches, tokens, captures *)
(* and batches, and any contract.                                          *)
(***************************************************************************)
EXTENDS FantasyScheduler, FantasyClient, RawIngestion, BatchPreparation, TLAPS,
        FiniteSetTheorems

-----------------------------------------------------------------------------
(* The scheduler.                                                            *)

(* A running object is the one the process points at: what was stopped is    *)
(* never started again.                                                      *)
OneRunning == \A o \in Objects : object[o].running => o = scheduler

SchedulerInv == SchedulerTypeOK /\ OneRunning /\ OneTimer

LEMMA ObjectType ==
    ASSUME SchedulerTypeOK, NEW o \in Objects
    PROVE  object[o] \in Object
  BY DEF SchedulerTypeOK

LEMMA NewObjectType == NewObject \in Object /\ Unarmed \in 0..Unarmed /\ 0 \in 0..Unarmed
  BY MaxExponentAssumption DEF NewObject, Object, Unarmed

(* The next delay is a delay, never `no timer'. *)
LEMMA DelayType ==
    ASSUME NEW n \in Nat
    PROVE  Delay(n) \in 0..MaxExponent
  BY MaxExponentAssumption DEF Delay

LEMMA FailuresType ==
    ASSUME NEW n \in 0..MaxExponent, NEW s \in {"SUCCESS", "LOCKED", "SKIPPED", "FAILED"}
    PROVE  FailuresAfter(n, s) \in 0..MaxExponent
  BY MaxExponentAssumption, DelayType DEF FailuresAfter

(* A step that changes one object. *)
LEMMA OneObject ==
    ASSUME SchedulerTypeOK, NEW o \in Objects, NEW x \in Object,
           object' = [object EXCEPT ![o] = x], scheduler' \in Objects \cup {NoObject}
    PROVE  /\ SchedulerTypeOK'
           /\ object'[o] = x
           /\ \A p \in Objects \ {o} : object'[p] = object[p]
  BY DEF SchedulerTypeOK

LEMMA SchedulerInvInit == SchedulerInit => SchedulerInv
  <1> SUFFICES ASSUME SchedulerInit PROVE SchedulerInv
    OBVIOUS
  <1>1. \A o \in Objects : object[o] = NewObject /\ object[o].timer = Unarmed /\ ~object[o].running
    BY DEF SchedulerInit, NewObject
  <1> QED
    BY <1>1, NewObjectType
       DEF SchedulerInit, SchedulerInv, SchedulerTypeOK, OneRunning, OneTimer, Armed

LEMMA SchedulerInvNext == SchedulerInv /\ [SchedulerNext]_schedulerVars => SchedulerInv'
  <1> SUFFICES ASSUME SchedulerInv, [SchedulerNext]_schedulerVars PROVE SchedulerInv'
    OBVIOUS
  <1> USE DEF SchedulerInv
  <1>1. CASE StartScheduler
    <2>1. PICK o \in Objects :
             /\ ~Made(o)
             /\ scheduler' = o
             /\ object' = [object EXCEPT ![o].running = TRUE, ![o].timer = 0]
      BY <1>1 DEF StartScheduler
    <2> DEFINE x == [object[o] EXCEPT !.running = TRUE, !.timer = 0]
    <2>2. object[o] = NewObject /\ object[o] \in Object
      BY <2>1, ObjectType DEF Made
    <2>3. x \in Object /\ x.running /\ x.timer = 0 /\ ~x.inFlight
      BY <2>2, NewObjectType DEF Object, NewObject
    <2>4. object' = [object EXCEPT ![o] = x]
      BY <2>1 DEF SchedulerTypeOK
    <2> HIDE DEF x
    <2>5. SchedulerTypeOK' /\ object'[o] = x /\ \A p \in Objects \ {o} : object'[p] = object[p]
      BY <2>1, <2>3, <2>4, OneObject
    (* The scheduler before, if any, does not run, so no object does. *)
    <2>6. \A p \in Objects : ~object[p].running
      BY <1>1, NoObjectAssumption DEF StartScheduler, OneRunning
    <2>7. OneRunning'
      BY <2>1, <2>5, <2>6 DEF OneRunning
    <2>8. OneTimer'
      BY <2>1, <2>3, <2>5, <2>6 DEF OneTimer, Armed
    <2> QED
      BY <2>5, <2>7, <2>8
  <1>2. CASE StopScheduler
    <2> DEFINE x == [object[scheduler] EXCEPT !.timer = Unarmed, !.running = FALSE]
    <2>1. scheduler \in Objects /\ object[scheduler] \in Object
      BY <1>2, ObjectType DEF StopScheduler, SchedulerTypeOK
    <2>2. x \in Object /\ ~x.running /\ x.timer = Unarmed
      BY <2>1, NewObjectType DEF Object
    <2>3. object' = [object EXCEPT ![scheduler] = x] /\ scheduler' = scheduler
      BY <1>2, <2>1 DEF StopScheduler, SchedulerTypeOK
    <2> HIDE DEF x
    <2>4. /\ SchedulerTypeOK' /\ object'[scheduler] = x
          /\ \A p \in Objects \ {scheduler} : object'[p] = object[p]
      BY <2>1, <2>2, <2>3, OneObject
    <2>5. OneRunning'
      BY <2>2, <2>3, <2>4 DEF OneRunning
    <2>6. OneTimer'
      BY <2>2, <2>3, <2>4 DEF OneTimer, Armed
    <2> QED
      BY <2>4, <2>5, <2>6
  <1>3. CASE RestartProcess
    <2>1. object' = [o \in Objects |-> NewObject] /\ scheduler' = NoObject
      BY <1>3 DEF RestartProcess
    <2>2. NewObject.timer = Unarmed /\ ~NewObject.running
      BY DEF NewObject
    <2>3. SchedulerTypeOK'
      BY <2>1, NewObjectType DEF SchedulerTypeOK
    <2>4. OneRunning' /\ OneTimer'
      BY <2>1, <2>2 DEF OneRunning, OneTimer, Armed
    <2> QED
      BY <2>3, <2>4
  <1>4. ASSUME NEW o \in Objects, Tick(o)
        PROVE  SchedulerInv'
    <2> DEFINE x == [object[o] EXCEPT !.timer = Unarmed, !.inFlight = @ \/ object[o].running]
    <2>1. object[o] \in Object
      BY ObjectType
    <2>2. x \in Object /\ x.running = object[o].running /\ x.timer = Unarmed
      BY <2>1, NewObjectType DEF Object
    <2>3. object' = [object EXCEPT ![o] = x] /\ scheduler' = scheduler
      BY <1>4, <2>1 DEF Tick, SchedulerTypeOK
    <2> HIDE DEF x
    <2>4. SchedulerTypeOK' /\ object'[o] = x /\ \A p \in Objects \ {o} : object'[p] = object[p]
      BY <2>2, <2>3, OneObject DEF SchedulerTypeOK
    <2>5. OneRunning'
      BY <2>2, <2>3, <2>4 DEF OneRunning
    <2>6. OneTimer'
      BY <2>2, <2>3, <2>4 DEF OneTimer, Armed
    <2> QED
      BY <2>4, <2>5, <2>6
  <1>5. ASSUME NEW o \in Objects, Finish(o)
        PROVE  SchedulerInv'
    <2>1. PICK s \in {"SUCCESS", "LOCKED", "SKIPPED", "FAILED"} :
             object' = [object EXCEPT ![o].inFlight = FALSE,
                                      ![o].failures = FailuresAfter(@, s),
                                      ![o].timer = TimerAfter(o, s)]
      BY <1>5 DEF Finish
    <2> DEFINE n == FailuresAfter(object[o].failures, s)
               t == TimerAfter(o, s)
               x == [object[o] EXCEPT !.inFlight = FALSE, !.failures = n, !.timer = t]
    <2>2. object[o] \in Object /\ object[o].inFlight
      BY <1>5, ObjectType DEF Finish
    <2>3. n \in 0..MaxExponent
      BY <2>2, FailuresType DEF Object
    <2>4. t \in 0..Unarmed /\ (~object[o].running => t = object[o].timer)
      BY <2>2, <2>3, DelayType, MaxExponentAssumption DEF TimerAfter, Object, Unarmed
    <2> HIDE DEF n, t
    <2>5. x \in Object /\ x.running = object[o].running /\ ~x.inFlight /\ x.timer = t
      BY <2>2, <2>3, <2>4 DEF Object
    <2>6. object' = [object EXCEPT ![o] = x] /\ scheduler' = scheduler
      BY <1>5, <2>1, <2>2 DEF Finish, SchedulerTypeOK, n, t
    <2> HIDE DEF x
    <2>7. SchedulerTypeOK' /\ object'[o] = x /\ \A p \in Objects \ {o} : object'[p] = object[p]
      BY <2>5, <2>6, OneObject DEF SchedulerTypeOK
    <2>8. OneRunning'
      BY <2>5, <2>6, <2>7 DEF OneRunning
    (* Its timer was not armed while its import was in flight. *)
    <2>9. object[o].timer = Unarmed
      BY <2>2 DEF OneTimer, Armed
    <2>10. OneTimer'
      BY <2>4, <2>5, <2>6, <2>7, <2>9 DEF OneTimer, OneRunning, Armed
    <2> QED
      BY <2>7, <2>8, <2>10
  <1>6. CASE UNCHANGED schedulerVars
    BY <1>6 DEF SchedulerTypeOK, OneRunning, OneTimer, Armed, schedulerVars
  <1> QED
    BY <1>1, <1>2, <1>3, <1>4, <1>5, <1>6 DEF SchedulerNext

(* However starts, stops, restarts, ticks and endings of imports interleave, *)
(* one timer at most is armed, and none whose tick would find its own import *)
(* in flight and end the schedule (scheduler.ts).                            *)
THEOREM OneTimerCorrect == SchedulerSpec => []OneTimer
  <1>1. SchedulerInv => OneTimer
    BY DEF SchedulerInv
  <1> QED
    BY <1>1, SchedulerInvInit, SchedulerInvNext, PTL DEF SchedulerSpec
-----------------------------------------------------------------------------
(* The client.                                                               *)

(* Between a 401 and the forced login that answers it. *)
Pending(r) == r.at = "clear" \/ r.forced

(* What attempts and requests count: the forced login takes an attempt of    *)
(* its own, and may take it after the last retry.                            *)
Counted(r) ==
    /\ r.forced => r.at \in {"login", "save"} /\ r.reloggedIn
    /\ r.at = "clear" => r.reloggedIn
    /\ r.requests = IF Pending(r) THEN r.attempt + 1 ELSE r.attempt
    /\ r.attempt <= IF r.reloggedIn /\ ~Pending(r) THEN MaxRetries + 1 ELSE MaxRetries

(* A fetch alone after its forced login: while the token it was given lasts, *)
(* memory holds that token and no other is looked for.                       *)
Fresh(r) ==
    /\ r.at = "save" => r.held = r.mine /\ memory = r.mine
    /\ r.reloggedIn /\ ~Pending(r) /\ Usable(r.mine) =>
           /\ memory = r.mine
           /\ r.at \notin {"load", "login"}
           /\ r.at = "request" => r.held = r.mine

Real(r) == r.at = "refused" /\ r.alone /\ Usable(r.mine) => r.held = r.mine

(* What is known of one fetch. *)
FetchOK(r) ==
    /\ r.mine # NoToken => token[r.mine].issued
    /\ r.at \in Waiting => Counted(r) /\ (r.alone => Fresh(r))
    /\ Real(r)

(* Nobody else is on the way while a fetch counts as alone. *)
Company == \A f, g \in Fetches : f # g /\ Working(f) /\ Working(g) => ~fetch[f].alone

ClientInv == ClientTypeOK /\ Company /\ \A f \in Fetches : FetchOK(fetch[f])

LEMMA ClientGoals == ClientInv => RequestsBounded /\ SecondRefusalIsReal
  <1> SUFFICES ASSUME ClientInv, NEW f \in Fetches
               PROVE  /\ fetch[f].at = "request" => fetch[f].requests < MaxRetries + 2
                      /\ Real(fetch[f])
    BY DEF RequestsBounded, SecondRefusalIsReal, Real
  <1>1. fetch[f] \in Fetch /\ FetchOK(fetch[f])
    BY DEF ClientInv, ClientTypeOK
  <1>2. ASSUME fetch[f].at = "request" PROVE fetch[f].requests < MaxRetries + 2
    <2>1. Counted(fetch[f])
      BY <1>1, <1>2 DEF FetchOK, Waiting
    <2>2. fetch[f].attempt \in Nat /\ fetch[f].requests \in Nat
      BY <1>1, MaxRetriesAssumption DEF Fetch
    <2> QED
      BY <1>2, <2>1, <2>2, MaxRetriesAssumption DEF Counted, Pending
  <1> QED
    BY <1>1, <1>2 DEF FetchOK

(* Tokens do not come back to life: what matters of them only decreases. *)
TokensWear ==
    \A t \in Tokens : token[t].issued =>
        token'[t].issued /\ (token'[t].usable => token[t].usable)

(* A fetch that does not move keeps what is known of it, if nothing that it  *)
(* could rely on is taken away.                                              *)
LEMMA FetchKept ==
    ASSUME ClientTypeOK, TokensWear, NEW r \in Fetch, FetchOK(r),
           r.at \in Waiting /\ r.alone => memory' = memory
    PROVE  FetchOK(r)'
  <1>1. r.mine \in TokenOrNone
    BY DEF Fetch
  <1>2. r.mine # NoToken => token[r.mine].issued /\ token'[r.mine].issued
    BY <1>1 DEF FetchOK, TokensWear, TokenOrNone
  <1>3. Usable(r.mine)' => Usable(r.mine)
    BY <1>1, <1>2 DEF Usable, TokensWear, TokenOrNone
  <1>4. Real(r)'
    BY <1>3 DEF Real, FetchOK
  <1>5. ASSUME r.at \in Waiting, r.alone PROVE Fresh(r)'
    BY <1>3, <1>5 DEF FetchOK, Fresh
  <1> QED
    BY <1>2, <1>4, <1>5 DEF FetchOK

LEMMA FetchMoves ==
    ASSUME ClientInv, NEW f \in Fetches, Working(f), NEW r \in Fetch, Moves(f, r),
           memory' \in TokenOrNone, stored' \in TokenOrNone, token' \in [Tokens -> Token],
           TokensWear, r.at \in Waiting => (r.alone => fetch[f].alone), FetchOK(r)'
    PROVE  ClientInv'
  <1> USE DEF ClientInv
  <1>1. /\ fetch' \in [Fetches -> Fetch]
        /\ fetch'[f] = r
        /\ \A g \in Fetches \ {f} : fetch'[g] = fetch[g]
    BY DEF Moves, ClientTypeOK
  <1>2. ClientTypeOK'
    BY <1>1 DEF ClientTypeOK
  <1>3. Company'
    BY <1>1 DEF Company, Working
  <1>4. ASSUME NEW g \in Fetches \ {f} PROVE FetchOK(fetch[g])'
    <2>1. fetch[g].at \in Waiting => ~fetch[g].alone
      BY DEF Company, Working
    <2>2. fetch[g] \in Fetch /\ FetchOK(fetch[g])
      BY DEF ClientTypeOK
    <2> DEFINE q == fetch[g]
    <2>3. \A s \in Fetch : FetchOK(s) /\ (s.at \in Waiting => ~s.alone) => FetchOK(s)'
      BY FetchKept
    <2> QED
      BY <1>1, <2>1, <2>2, <2>3
  <1> QED
    BY <1>1, <1>2, <1>3, <1>4

(* A fetch of which nothing has happened, or nothing matters, is in order. *)
Blank(r) ==
    /\ r.held = NoToken /\ r.mine = NoToken /\ r.attempt = 0 /\ r.requests = 0
    /\ ~r.reloggedIn /\ ~r.forced

LEMMA BlankOK ==
    ASSUME NEW r \in Fetch, Blank(r), r.at \in Over \cup {"token"}
    PROVE  FetchOK(r) /\ FetchOK(r)'
  <1>1. Counted(r)
    BY MaxRetriesAssumption DEF Counted, Pending, Blank, Over
  <1>2. Fresh(r) /\ Fresh(r)' /\ Real(r) /\ Real(r)'
    BY DEF Fresh, Real, Blank, Over
  <1> QED
    BY <1>1, <1>2 DEF FetchOK, Blank

LEMMA NewFetchType == NewFetch \in Fetch /\ Blank(NewFetch) /\ NewFetch.at = "idle"
  <1>1. NoToken \in TokenOrNone /\ "idle" \in Waiting \cup Over /\ 0 \in 0..(MaxRetries + 1)
        /\ 0 \in 0..(MaxRetries + 3) /\ 1 \in 1..MaxPages
    BY MaxRetriesAssumption, MaxPagesAssumption DEF TokenOrNone, Over
  <1>2. NewFetch \in Fetch
    BY <1>1 DEF NewFetch, Fetch
  <1> QED
    BY <1>2 DEF Blank, NewFetch

LEMMA LeftOK ==
    ASSUME NEW how \in {"done", "failed"}
    PROVE  Left(how) \in Fetch /\ Left(how).at = how /\ FetchOK(Left(how)) /\ FetchOK(Left(how))'
  <1>1. how \in Over
    BY DEF Over
  <1>2. Left(how) \in Fetch /\ Left(how).at = how /\ Blank(Left(how))
    BY <1>1, NewFetchType DEF Left, Fetch, Blank
  <1> QED
    BY <1>1, <1>2, BlankOK

LEMMA ClientInvInit == ClientInit => ClientInv
  <1> SUFFICES ASSUME ClientInit PROVE ClientInv
    OBVIOUS
  <1>3. NewFetch \in Fetch /\ NewFetch.at = "idle" /\ FetchOK(NewFetch)
    BY NewFetchType, BlankOK DEF Over
  <1>4. \A f \in Fetches : fetch[f] = NewFetch /\ ~Working(f)
    BY <1>3 DEF ClientInit, Working, Waiting
  <1>5. ClientTypeOK
    BY <1>3 DEF ClientInit, ClientTypeOK, TokenOrNone, Token
  <1> QED
    BY <1>3, <1>4, <1>5 DEF ClientInv, Company

(* A fetch that met another one. *)
LEMMA MetOK ==
    ASSUME NEW s \in Fetch, FetchOK(s), UNCHANGED <<memory, token>>, NEW q \in Fetch,
           q = [s EXCEPT !.alone = FALSE]
    PROVE  ~q.alone /\ q.at = s.at /\ FetchOK(q)'
  <1>1. /\ ~q.alone /\ q.at = s.at /\ q.mine = s.mine /\ q.held = s.held /\ q.forced = s.forced
        /\ q.attempt = s.attempt /\ q.requests = s.requests /\ q.reloggedIn = s.reloggedIn
    BY DEF Fetch
  <1> QED
    BY <1>1 DEF FetchOK, Counted, Pending, Real

(* A fetch begins: everyone it meets has company from now on. *)
LEMMA BeginOK ==
    ASSUME ClientInv, NEW f \in Fetches, Begin(f)
    PROVE  ClientInv'
  <1> USE DEF ClientInv
  <1> DEFINE company == {g \in Fetches : Working(g)}
  <1>1. /\ fetch' = [g \in Fetches |->
                       IF g = f THEN [NewFetch EXCEPT !.at = "token", !.alone = company = {}]
                       ELSE IF g \in company THEN [fetch[g] EXCEPT !.alone = FALSE]
                       ELSE fetch[g]]
        /\ fetch[f].at = "idle" /\ UNCHANGED <<memory, stored, token>>
    BY DEF Begin
  <1>2. /\ fetch'[f] \in Fetch /\ fetch'[f].at = "token" /\ FetchOK(fetch[f])'
        /\ fetch'[f].alone => company = {}
    <2>1. PICK r : r = [NewFetch EXCEPT !.at = "token", !.alone = company = {}]
      OBVIOUS
    <2>2. "token" \in Waiting
      BY DEF Waiting
    <2>3. r \in Fetch /\ r.at = "token" /\ (r.alone => company = {}) /\ Blank(r)
      BY <2>1, <2>2, NewFetchType DEF Fetch, Blank
    <2>4. FetchOK(r)'
      BY <2>3, BlankOK
    <2> QED
      BY <1>1, <2>1, <2>3, <2>4
  <1>3. ASSUME NEW g \in Fetches \ {f}
        PROVE  /\ fetch'[g] \in Fetch /\ FetchOK(fetch[g])'
               /\ fetch'[g].at = fetch[g].at
               /\ Working(g) => ~fetch'[g].alone
    <2>1. PICK s \in Fetch : s = fetch[g] /\ FetchOK(s)
      BY DEF ClientTypeOK
    <2>2. TokensWear
      BY <1>1 DEF TokensWear
    <2>3. CASE g \in company
      <3>1. PICK q : q = [s EXCEPT !.alone = FALSE]
        OBVIOUS
      <3>2. fetch'[g] = q
        BY <1>1, <2>1, <2>3, <3>1
      <3>3. q \in Fetch
        BY <3>1 DEF Fetch
      <3>4. ~q.alone /\ q.at = s.at /\ FetchOK(q)'
        BY <1>1, <2>1, <3>1, <3>3, MetOK
      <3> QED
        BY <2>1, <3>2, <3>3, <3>4
    <2>4. CASE g \notin company
      <3>1. fetch'[g] = s /\ ~Working(g)
        BY <1>1, <2>1, <2>4
      <3>2. FetchOK(s)'
        BY <2>1, <2>2, <3>1, FetchKept DEF Working
      <3> QED
        BY <2>1, <3>1, <3>2
    <2> QED
      BY <2>3, <2>4
  <1>4. fetch' \in [Fetches -> Fetch]
    BY <1>1, <1>2, <1>3
  <1>5. ClientTypeOK'
    BY <1>1, <1>4 DEF ClientTypeOK
  <1>6. ~Working(f)
    BY <1>1 DEF Working, Waiting
  <1>7. Company'
    BY <1>2, <1>3, <1>6 DEF Company, Working
  <1> QED
    BY <1>2, <1>3, <1>5, <1>7

(* What is known of the fetch that takes a step. *)
LEMMA AtWork ==
    ASSUME ClientInv, NEW f \in Fetches, Working(f)
    PROVE  \E s \in Fetch : /\ s = fetch[f] /\ FetchOK(s) /\ Counted(s) /\ (s.alone => Fresh(s))
                            /\ s.attempt \in 0..(MaxRetries + 1) /\ s.attempt \in Nat
                            /\ s.requests \in Nat /\ s.mine \in TokenOrNone
                            /\ s.held \in TokenOrNone
                            /\ s.reloggedIn \in BOOLEAN /\ s.forced \in BOOLEAN
  BY MaxRetriesAssumption DEF ClientInv, ClientTypeOK, FetchOK, Working, Fetch

(* Tokens and caches stay as they are. *)
LEMMA SameTokens ==
    ASSUME ClientInv, token' = token
    PROVE  TokensWear /\ token' \in [Tokens -> Token]
  BY DEF TokensWear, ClientInv, ClientTypeOK

LEMMA FromMemoryOK ==
    ASSUME ClientInv, NEW f \in Fetches, FromMemory(f)
    PROVE  ClientInv'
  <1>1. Working(f) /\ fetch[f].at = "token" /\ UNCHANGED <<memory, stored, token>>
    BY DEF FromMemory, Working, Waiting
  <1>2. PICK s \in Fetch : /\ s = fetch[f] /\ FetchOK(s) /\ Counted(s) /\ (s.alone => Fresh(s))
                          /\ s.mine \in TokenOrNone
    BY <1>1, AtWork
  <1>3. PICK r : r = IF Usable(memory) THEN [s EXCEPT !.at = "request", !.held = memory]
                                       ELSE [s EXCEPT !.at = "load", !.held = stored]
    OBVIOUS
  <1>4. Moves(f, r)
    BY <1>2, <1>3 DEF FromMemory
  <1>5. memory \in TokenOrNone /\ stored \in TokenOrNone
    BY DEF ClientInv, ClientTypeOK
  <1>6. "request" \in Waiting /\ "load" \in Waiting
    BY DEF Waiting
  <1>7. r \in Fetch
    BY <1>3, <1>5, <1>6 DEF Fetch
  <1>8. /\ r.mine = s.mine /\ r.attempt = s.attempt /\ r.requests = s.requests /\ r.forced = s.forced
        /\ r.reloggedIn = s.reloggedIn /\ r.alone = s.alone
        /\ \/ Usable(memory) /\ r.at = "request" /\ r.held = memory
           \/ ~Usable(memory) /\ r.at = "load"
    BY <1>3 DEF Fetch
  <1>9. Counted(r) /\ ~Pending(r) /\ ~Pending(s)
    BY <1>1, <1>2, <1>8 DEF Counted, Pending
  <1>10. r.alone => Fresh(r)
    BY <1>1, <1>2, <1>8, <1>9 DEF Fresh
  <1>11. FetchOK(r)'
    BY <1>1, <1>2, <1>8, <1>9, <1>10 DEF FetchOK, Real, Fresh, Usable, Counted, Pending
  <1> QED
    BY <1>1, <1>2, <1>4, <1>5, <1>7, <1>8, <1>11, FetchMoves, SameTokens

LEMMA FromTableOK ==
    ASSUME ClientInv, NEW f \in Fetches, FromTable(f)
    PROVE  ClientInv'
  <1>1. Working(f) /\ fetch[f].at = "load" /\ UNCHANGED <<stored, token>>
    BY DEF FromTable, Working, Waiting
  <1>2. PICK s \in Fetch : /\ s = fetch[f] /\ FetchOK(s) /\ Counted(s) /\ (s.alone => Fresh(s))
                          /\ s.mine \in TokenOrNone /\ s.held \in TokenOrNone
    BY <1>1, AtWork
  <1>3. PICK loaded \in {s.held, NoToken} :
          IF Usable(loaded)
          THEN memory' = loaded /\ Moves(f, [s EXCEPT !.at = "request", !.held = loaded])
          ELSE memory' = memory /\ Moves(f, [s EXCEPT !.at = "login", !.held = NoToken])
    BY <1>2 DEF FromTable
  <1>4. PICK r : r = IF Usable(loaded) THEN [s EXCEPT !.at = "request", !.held = loaded]
                                       ELSE [s EXCEPT !.at = "login", !.held = NoToken]
    OBVIOUS
  <1>5. Moves(f, r) /\ memory' \in {memory, loaded}
    BY <1>3, <1>4
  <1>6. "request" \in Waiting /\ "login" \in Waiting /\ NoToken \in TokenOrNone
    BY DEF Waiting, TokenOrNone
  <1>7. loaded \in TokenOrNone /\ memory' \in TokenOrNone /\ stored' \in TokenOrNone
    BY <1>1, <1>2, <1>3, <1>5, <1>6 DEF ClientInv, ClientTypeOK
  <1>8. r \in Fetch
    BY <1>4, <1>6, <1>7 DEF Fetch
  <1>9. /\ r.mine = s.mine /\ r.attempt = s.attempt /\ r.requests = s.requests /\ r.forced = s.forced
        /\ r.reloggedIn = s.reloggedIn /\ r.alone = s.alone /\ r.at \in {"request", "login"}
    BY <1>4 DEF Fetch
  <1>10. Counted(r) /\ ~Pending(r) /\ ~Pending(s)
    BY <1>1, <1>2, <1>9 DEF Counted, Pending
  (* The table is asked only when the token of the forced login is used up. *)
  <1>11. r.alone /\ r.reloggedIn => ~Usable(r.mine)
    BY <1>1, <1>2, <1>9, <1>10 DEF Fresh
  <1>12. Usable(r.mine)' => Usable(r.mine)
    BY <1>1 DEF Usable
  <1>13. r.alone => Fresh(r)'
    BY <1>9, <1>11, <1>12 DEF Fresh
  <1>14. FetchOK(r)'
    BY <1>1, <1>2, <1>9, <1>10, <1>13 DEF FetchOK, Real
  <1> QED
    BY <1>1, <1>2, <1>5, <1>7, <1>8, <1>9, <1>14, FetchMoves, SameTokens

LEMMA LoginOK ==
    ASSUME ClientInv, NEW f \in Fetches, Login(f)
    PROVE  ClientInv'
  <1>1. Working(f) /\ fetch[f].at = "login" /\ UNCHANGED stored
    BY DEF Login, Working, Waiting
  <1>2. PICK s \in Fetch : s = fetch[f] /\ FetchOK(s) /\ Counted(s)
    BY <1>1, AtWork
  <1>3. PICK t \in Tokens : Granted(f, t) /\ memory' = t
    BY DEF Login
  <1>4. PICK long \in BOOLEAN :
          token' = [token EXCEPT ![t] = [issued |-> TRUE, usable |-> long, accepted |-> TRUE]]
    BY <1>3 DEF Granted
  <1>5. PICK r : r = [s EXCEPT !.at = "save", !.held = t, !.mine = t]
    OBVIOUS
  <1>6. Moves(f, r) /\ ~token[t].issued
    BY <1>2, <1>3, <1>5 DEF Granted
  <1>7. "save" \in Waiting /\ t \in TokenOrNone
    BY DEF Waiting, TokenOrNone
  <1>8. r \in Fetch
    BY <1>5, <1>7 DEF Fetch
  <1>9. /\ r.mine = t /\ r.held = t /\ r.attempt = s.attempt /\ r.requests = s.requests
        /\ r.forced = s.forced /\ r.reloggedIn = s.reloggedIn /\ r.alone = s.alone /\ r.at = "save"
    BY <1>5, <1>7 DEF Fetch
  <1>10. [issued |-> TRUE, usable |-> long, accepted |-> TRUE] \in Token
    BY DEF Token
  <1>11. /\ token' \in [Tokens -> Token] /\ token'[t].issued
         /\ \A u \in Tokens \ {t} : token'[u] = token[u]
    BY <1>4, <1>10 DEF ClientInv, ClientTypeOK
  <1>12. TokensWear
    BY <1>6, <1>11 DEF TokensWear
  <1>13. Counted(r) /\ (Pending(r) <=> r.forced)
    BY <1>1, <1>2, <1>9 DEF Counted, Pending
  <1>14. Fresh(r)'
    BY <1>3, <1>9 DEF Fresh
  <1>15. FetchOK(r)'
    BY <1>9, <1>11, <1>13, <1>14 DEF FetchOK, Real
  <1>16. memory' \in TokenOrNone /\ stored' \in TokenOrNone
    BY <1>1, <1>3, <1>7 DEF ClientInv, ClientTypeOK
  <1> QED
    BY <1>1, <1>2, <1>6, <1>8, <1>9, <1>11, <1>12, <1>15, <1>16, FetchMoves

LEMMA SaveOK ==
    ASSUME ClientInv, NEW f \in Fetches, Save(f)
    PROVE  ClientInv'
  <1>1. Working(f) /\ fetch[f].at = "save" /\ UNCHANGED <<memory, token>>
    BY DEF Save, Working, Waiting
  <1>2. PICK s \in Fetch : /\ s = fetch[f] /\ FetchOK(s) /\ Counted(s) /\ (s.alone => Fresh(s))
                          /\ s.attempt \in Nat /\ s.mine \in TokenOrNone /\ s.held \in TokenOrNone
    BY <1>1, AtWork
  <1>3. PICK r : r = IF s.forced
                     THEN [s EXCEPT !.at = "token", !.held = NoToken, !.forced = FALSE,
                                    !.attempt = @ + 1]
                     ELSE [s EXCEPT !.at = "request"]
    OBVIOUS
  <1>4. Moves(f, r)
    BY <1>2, <1>3 DEF Save
  <1>5. "token" \in Waiting /\ "request" \in Waiting /\ NoToken \in TokenOrNone
    BY DEF Waiting, TokenOrNone
  <1>6. s.forced => s.attempt + 1 \in 0..(MaxRetries + 1)
    BY <1>1, <1>2, MaxRetriesAssumption DEF Counted, Pending
  <1>7. r \in Fetch
    BY <1>2, <1>3, <1>5, <1>6 DEF Fetch
  <1>8. /\ r.mine = s.mine /\ r.requests = s.requests /\ r.reloggedIn = s.reloggedIn
        /\ r.alone = s.alone /\ ~r.forced
        /\ \/ s.forced /\ r.at = "token" /\ r.attempt = s.attempt + 1
           \/ ~s.forced /\ r.at = "request" /\ r.held = s.held /\ r.attempt = s.attempt
    BY <1>3 DEF Fetch
  <1>9. Counted(r) /\ ~Pending(r)
    BY <1>1, <1>2, <1>8, MaxRetriesAssumption DEF Counted, Pending
  <1>10. r.alone => Fresh(r)'
    BY <1>1, <1>2, <1>8 DEF Fresh
  <1>11. FetchOK(r)'
    BY <1>1, <1>2, <1>8, <1>9, <1>10 DEF FetchOK, Real
  <1>12. memory' \in TokenOrNone /\ stored' \in TokenOrNone
    BY <1>1, <1>2 DEF Save, ClientInv, ClientTypeOK
  <1> QED
    BY <1>1, <1>2, <1>4, <1>7, <1>8, <1>11, <1>12, FetchMoves, SameTokens

(* Steps that end the fetch. *)
LEMMA EndsOK ==
    ASSUME ClientInv, NEW f \in Fetches, Working(f), NEW how \in {"done", "failed"},
           Moves(f, Left(how)), UNCHANGED <<memory, stored, token>>
    PROVE  ClientInv'
  <1>1. PICK r : r = Left(how)
    OBVIOUS
  <1>2. r \in Fetch /\ r.at \notin Waiting /\ FetchOK(r)'
    <2>1. \A h \in {"done", "failed"} : Left(h) \in Fetch /\ Left(h).at = h /\ FetchOK(Left(h))'
      BY LeftOK
    <2> QED
      BY <1>1, <2>1 DEF Waiting, Left, NewFetch
  <1>3. memory' \in TokenOrNone /\ stored' \in TokenOrNone
    BY DEF ClientInv, ClientTypeOK
  <1> QED
    BY <1>1, <1>2, <1>3, FetchMoves, SameTokens

LEMMA LoginFailsOK ==
    ASSUME ClientInv, NEW f \in Fetches, LoginFails(f) \/ Unanswered(f)
    PROVE  ClientInv'
  BY EndsOK DEF LoginFails, Unanswered, Working, Waiting

LEMMA BusyOK ==
    ASSUME ClientInv, NEW f \in Fetches, Busy(f)
    PROVE  ClientInv'
  <1>1. Working(f) /\ fetch[f].at = "request" /\ UNCHANGED <<memory, stored, token>>
    BY DEF Busy, Working, Waiting
  <1>2. PICK s \in Fetch : /\ s = fetch[f] /\ FetchOK(s) /\ Counted(s) /\ (s.alone => Fresh(s))
                          /\ s.attempt \in Nat /\ s.requests \in Nat
    BY <1>1, AtWork
  <1>3. CASE ~MayRetry(f)
    BY <1>1, <1>3, EndsOK DEF Busy
  <1>4. CASE MayRetry(f)
    <2>1. s.attempt < MaxRetries /\ s.requests = s.attempt /\ ~s.forced
      BY <1>1, <1>2, <1>4 DEF MayRetry, Counted, Pending
    <2>2. PICK r : r = [s EXCEPT !.requests = s.requests + 1, !.at = "token", !.held = NoToken,
                                 !.attempt = s.attempt + 1]
      OBVIOUS
    <2>3. Retried(f) = [[s EXCEPT !.requests = s.requests + 1]
                          EXCEPT !.at = "token", !.held = NoToken, !.attempt = @ + 1]
      <3>1. s = fetch[f] /\ s.requests \in Nat /\ s.attempt \in Nat
        BY <1>2
      <3>2. ~(s.requests > MaxRetries + 2)
        BY <2>1, <3>1, MaxRetriesAssumption
      <3>3. (IF s.requests > MaxRetries + 2 THEN s.requests ELSE s.requests + 1) = s.requests + 1
        BY <3>2
      <3>4. Sent(f) = [s EXCEPT !.requests = s.requests + 1]
        BY <3>1, <3>3 DEF Sent
      <3> QED
        BY <3>4 DEF Retried
    <2>4. Moves(f, r)
      <3>1. [[s EXCEPT !.requests = s.requests + 1] EXCEPT !.at = "token", !.held = NoToken,
                                                           !.attempt = @ + 1] = r
        BY <2>2 DEF Fetch
      <3> QED
        BY <1>4, <2>3, <3>1 DEF Busy
    <2>5. /\ s.requests + 1 \in 0..(MaxRetries + 3) /\ s.attempt + 1 \in 0..(MaxRetries + 1)
          /\ "token" \in Waiting /\ NoToken \in TokenOrNone
      BY <1>2, <2>1, MaxRetriesAssumption DEF Waiting, TokenOrNone
    <2>6. r \in Fetch
      BY <2>2, <2>5 DEF Fetch
    <2>7. /\ r.mine = s.mine /\ r.requests = s.requests + 1 /\ r.reloggedIn = s.reloggedIn
          /\ r.alone = s.alone /\ ~r.forced /\ r.at = "token" /\ r.attempt = s.attempt + 1
      BY <2>1, <2>2 DEF Fetch
    <2>8. Counted(r) /\ ~Pending(r) /\ ~Pending(s)
      BY <1>1, <1>2, <2>1, <2>7, MaxRetriesAssumption DEF Counted, Pending
    <2>9. r.alone => Fresh(r)'
      BY <1>1, <1>2, <2>7, <2>8 DEF Fresh, Usable
    <2>10. FetchOK(r)'
      BY <1>1, <1>2, <2>7, <2>8, <2>9 DEF FetchOK, Real
    <2>11. memory' \in TokenOrNone /\ stored' \in TokenOrNone
      BY <1>1 DEF ClientInv, ClientTypeOK
    <2> QED
      BY <1>1, <1>2, <2>4, <2>6, <2>7, <2>10, <2>11, FetchMoves, SameTokens
  <1> QED
    BY <1>3, <1>4

LEMMA UnauthorizedOK ==
    ASSUME ClientInv, NEW f \in Fetches, Unauthorized(f)
    PROVE  ClientInv'
  <1>1. Working(f) /\ fetch[f].at = "request" /\ UNCHANGED <<stored, token>>
    BY DEF Unauthorized, Working, Waiting
  <1>2. PICK s \in Fetch : /\ s = fetch[f] /\ FetchOK(s) /\ Counted(s) /\ (s.alone => Fresh(s))
                          /\ s.attempt \in Nat /\ s.requests \in Nat /\ s.mine \in TokenOrNone
                          /\ s.held \in TokenOrNone /\ s.reloggedIn \in BOOLEAN
    BY <1>1, AtWork
  <1>3. ~Pending(s) /\ ~s.forced /\ s.requests = s.attempt
    BY <1>1, <1>2 DEF Counted, Pending
  <1>4. stored' \in TokenOrNone /\ memory \in TokenOrNone /\ NoToken \in TokenOrNone
    BY <1>1 DEF ClientInv, ClientTypeOK, TokenOrNone
  <1>5. CASE s.reloggedIn
    <2>1. PICK r : r = [Left("refused") EXCEPT !.held = s.held, !.mine = s.mine, !.alone = s.alone]
      OBVIOUS
    <2>2. Moves(f, r) /\ memory' = memory
      BY <1>2, <1>5, <2>1 DEF Unauthorized
    <2>3. Left("refused") \in Fetch /\ Left("refused").at = "refused"
      BY NewFetchType DEF Left, Fetch, Over
    <2>4. r \in Fetch /\ r.at = "refused" /\ r.held = s.held /\ r.mine = s.mine /\ r.alone = s.alone
      BY <1>2, <2>1, <2>3 DEF Fetch
    <2>5. Real(r)'
      BY <1>1, <1>2, <1>3, <1>5, <2>2, <2>4 DEF Real, Fresh, Usable
    <2>6. FetchOK(r)'
      BY <1>1, <1>2, <2>4, <2>5 DEF FetchOK, Waiting
    <2> QED
      BY <1>1, <1>2, <1>4, <2>2, <2>4, <2>6, FetchMoves, SameTokens
  <1>6. CASE ~s.reloggedIn
    <2>1. PICK r : r = [s EXCEPT !.requests = s.requests + 1, !.at = "clear", !.reloggedIn = TRUE]
      OBVIOUS
    <2>2. s.attempt <= MaxRetries
      BY <1>2, <1>6 DEF Counted
    <2>3. Sent(f) = [s EXCEPT !.requests = s.requests + 1]
      BY <1>2, <1>3, <2>2, MaxRetriesAssumption DEF Sent
    <2>4. [[s EXCEPT !.requests = s.requests + 1] EXCEPT !.at = "clear", !.reloggedIn = TRUE] = r
      BY <2>1 DEF Fetch
    <2>5. Moves(f, r) /\ memory' = NoToken
      BY <1>2, <1>6, <2>3, <2>4 DEF Unauthorized
    <2>6. s.requests + 1 \in 0..(MaxRetries + 3) /\ "clear" \in Waiting
      BY <1>2, <1>3, <2>2, MaxRetriesAssumption DEF Waiting
    <2>7. r \in Fetch
      BY <2>1, <2>6 DEF Fetch
    <2>8. /\ r.mine = s.mine /\ r.requests = s.requests + 1 /\ r.reloggedIn /\ r.at = "clear"
          /\ r.alone = s.alone /\ ~r.forced /\ r.attempt = s.attempt
      BY <1>3, <2>1 DEF Fetch
    <2>9. Counted(r) /\ Pending(r)
      BY <1>2, <1>3, <2>2, <2>8 DEF Counted, Pending
    <2>10. FetchOK(r)'
      BY <1>1, <1>2, <2>8, <2>9 DEF FetchOK, Real, Fresh, Pending
    <2> QED
      BY <1>1, <1>2, <1>4, <2>5, <2>7, <2>8, <2>10, FetchMoves, SameTokens
  <1> QED
    BY <1>2, <1>5, <1>6

LEMMA ClearOK ==
    ASSUME ClientInv, NEW f \in Fetches, Clear(f)
    PROVE  ClientInv'
  <1>1. Working(f) /\ fetch[f].at = "clear" /\ UNCHANGED <<memory, token>>
    BY DEF Clear, Working, Waiting
  <1>2. PICK s \in Fetch : /\ s = fetch[f] /\ FetchOK(s) /\ Counted(s) /\ s.mine \in TokenOrNone
    BY <1>1, AtWork
  <1>3. PICK r : r = [s EXCEPT !.at = "login", !.held = NoToken, !.forced = TRUE]
    OBVIOUS
  <1>4. Moves(f, r)
    BY <1>2, <1>3 DEF Clear
  <1>5. "login" \in Waiting /\ NoToken \in TokenOrNone
    BY DEF Waiting, TokenOrNone
  <1>6. r \in Fetch
    BY <1>3, <1>5 DEF Fetch
  <1>7. /\ r.mine = s.mine /\ r.requests = s.requests /\ r.reloggedIn = s.reloggedIn /\ r.at = "login"
        /\ r.alone = s.alone /\ r.forced /\ r.attempt = s.attempt
    BY <1>3 DEF Fetch
  <1>8. Counted(r) /\ Pending(r)
    BY <1>1, <1>2, <1>7 DEF Counted, Pending
  <1>9. FetchOK(r)'
    BY <1>1, <1>2, <1>7, <1>8 DEF FetchOK, Real, Fresh
  <1>10. memory' \in TokenOrNone /\ stored' \in TokenOrNone
    BY <1>1, <1>5 DEF Clear, ClientInv, ClientTypeOK
  <1> QED
    BY <1>1, <1>2, <1>4, <1>6, <1>7, <1>9, <1>10, FetchMoves, SameTokens

LEMMA PageOK ==
    ASSUME ClientInv, NEW f \in Fetches, Page(f)
    PROVE  ClientInv'
  <1>1. Working(f) /\ UNCHANGED <<memory, stored, token>>
    BY DEF Page, Working, Waiting
  <1>2. PICK s \in Fetch : s = fetch[f]
    BY DEF ClientInv, ClientTypeOK
  <1>3. CASE Moves(f, Left("done"))
    BY <1>1, <1>3, EndsOK
  <1>4. CASE /\ s.page < MaxPages
             /\ Moves(f, [NewFetch EXCEPT !.at = "token", !.page = s.page + 1, !.alone = s.alone])
    <2>1. PICK r : r = [NewFetch EXCEPT !.at = "token", !.page = s.page + 1, !.alone = s.alone]
      OBVIOUS
    <2>2. s.page + 1 \in 1..MaxPages /\ "token" \in Waiting /\ s.alone \in BOOLEAN
      BY <1>4, MaxPagesAssumption DEF Fetch, Waiting
    <2>3. r \in Fetch /\ Blank(r) /\ r.at = "token" /\ (r.alone => s.alone)
      BY <2>1, <2>2, NewFetchType DEF Fetch, Blank
    <2>4. FetchOK(r)'
      BY <2>3, BlankOK
    <2>5. memory' \in TokenOrNone /\ stored' \in TokenOrNone
      BY <1>1 DEF ClientInv, ClientTypeOK
    <2> QED
      BY <1>1, <1>2, <1>4, <2>1, <2>3, <2>4, <2>5, FetchMoves, SameTokens
  <1> QED
    BY <1>2, <1>3, <1>4 DEF Page

(* The server and the process: tokens wear out, memory is lost. *)
LEMMA WearOK ==
    ASSUME ClientInv, NEW t \in Tokens, Revoke(t) \/ NearsItsEnd(t)
    PROVE  ClientInv'
  <1>1. UNCHANGED <<memory, stored, fetch>>
    BY DEF Revoke, NearsItsEnd
  <1>2. token \in [Tokens -> Token]
    BY DEF ClientInv, ClientTypeOK
  <1>3. /\ token' \in [Tokens -> Token]
        /\ \A u \in Tokens : /\ token'[u].issued = token[u].issued
                             /\ token'[u].usable => token[u].usable
    <2>1. CASE Revoke(t)
      BY <1>2, <2>1 DEF Revoke, Token
    <2>2. CASE NearsItsEnd(t)
      BY <1>2, <2>2 DEF NearsItsEnd, Token
    <2> QED
      BY <2>1, <2>2
  <1>4. TokensWear
    BY <1>3 DEF TokensWear
  <1>5. ClientTypeOK' /\ Company'
    BY <1>1, <1>3 DEF ClientInv, ClientTypeOK, Company, Working
  <1>6. \A r \in Fetch : FetchOK(r) => FetchOK(r)'
    BY <1>1, <1>4, FetchKept DEF ClientInv
  <1>7. \A f \in Fetches : fetch[f] \in Fetch /\ FetchOK(fetch[f])
    BY DEF ClientInv, ClientTypeOK
  <1>8. \A f \in Fetches : FetchOK(fetch[f])'
    BY <1>1, <1>6, <1>7
  <1> QED
    BY <1>5, <1>8 DEF ClientInv

LEMMA RestartClientOK ==
    ASSUME ClientInv, RestartClient
    PROVE  ClientInv'
  <1>1. /\ memory' = NoToken /\ UNCHANGED <<stored, token>>
        /\ fetch' = [f \in Fetches |-> IF Working(f) THEN Left("failed") ELSE fetch[f]]
    BY DEF RestartClient
  <1>2. TokensWear
    BY <1>1 DEF TokensWear
  <1>3. ASSUME NEW f \in Fetches
        PROVE  fetch'[f] \in Fetch /\ fetch'[f].at \notin Waiting /\ FetchOK(fetch[f])'
    <2>1. PICK s \in Fetch : s = fetch[f] /\ FetchOK(s)
      BY DEF ClientInv, ClientTypeOK
    <2>2. CASE Working(f)
      <3>1. fetch'[f] = Left("failed")
        BY <1>1, <2>2
      <3>2. Left("failed") \in Fetch /\ Left("failed").at = "failed" /\ FetchOK(Left("failed"))'
        BY LeftOK
      <3> QED
        BY <3>1, <3>2 DEF Waiting
    <2>3. CASE ~Working(f)
      <3>1. fetch'[f] = s /\ s.at \notin Waiting
        BY <1>1, <2>1, <2>3 DEF Working
      <3>2. FetchOK(s)'
        BY <1>2, <2>1, <3>1, FetchKept DEF ClientInv
      <3> QED
        BY <2>1, <3>1, <3>2
    <2> QED
      BY <2>2, <2>3
  <1>4. fetch' \in [Fetches -> Fetch]
    BY <1>1, <1>3
  <1>5. ClientTypeOK'
    BY <1>1, <1>4 DEF ClientInv, ClientTypeOK, TokenOrNone
  <1>6. Company'
    BY <1>3 DEF Company, Working
  <1> QED
    BY <1>3, <1>5, <1>6 DEF ClientInv

LEMMA ClientInvNext == ClientInv /\ [ClientNext]_clientVars => ClientInv'
  <1> SUFFICES ASSUME ClientInv, [ClientNext]_clientVars PROVE ClientInv'
    OBVIOUS
  <1>1. ASSUME NEW f \in Fetches, Begin(f) \/ FetchStep(f)
        PROVE  ClientInv'
    BY <1>1, BeginOK, FromMemoryOK, FromTableOK, LoginOK, LoginFailsOK, SaveOK, BusyOK,
       UnauthorizedOK, ClearOK, PageOK DEF FetchStep
  <1>2. CASE UNCHANGED clientVars
    BY <1>2 DEF clientVars, ClientInv, ClientTypeOK, Company, Working, FetchOK, Fresh, Real, Usable
  <1> QED
    BY <1>1, <1>2, WearOK, RestartClientOK DEF ClientNext

(* Whatever the server answers, and whichever fetches share the caches, the  *)
(* forced login adds one request to those of the retries and no more, for    *)
(* every number of retries (get).                                            *)
THEOREM RequestsAreBounded == ClientSpec => []RequestsBounded
  <1> QED
    BY ClientInvInit, ClientInvNext, ClientGoals, PTL DEF ClientSpec

(* A fetch that had the caches to itself is refused with the token its own   *)
(* forced login was given, as long as that token is usable: neither memory   *)
(* nor the table brings an older one back (get, getAccessToken).             *)
THEOREM RefusalIsReal == ClientSpec => []SecondRefusalIsReal
  <1> QED
    BY ClientInvInit, ClientInvNext, ClientGoals, PTL DEF ClientSpec
-----------------------------------------------------------------------------
(* The capture of raw batches.                                               *)

Stages == {"start", "fetch", "lock", "locked", "insert", "ended"}
Answer == [outcome: Refusals \cup {"NONE", "INGESTED"}, status: BatchStatuses \cup {"NONE"}, replay: BOOLEAN, id: Nat]
Request == [at: Stages, mode: Modes, identity: Identities \cup {CHOOSE i \in Identities : TRUE},
            body: Bodies \cup {NoBody}, attempt: 1..MaxPersistAttempts,
            status: BatchStatuses \cup {"NONE"}, original: Nat, answer: Answer]

RawTyped ==
    /\ captured \in Seq(StoredBatch)
    /\ advisory \in [Identities -> Captures \cup {NoCapture}]
    /\ capture \in [Captures -> Request]

OriginalsOf(i) ==
    {n \in 1..Len(captured) : captured[n].identity = i /\ captured[n].status # "CONFLICT"}

(* No identity has conflicts alone. *)
Begun ==
    \A n \in 1..Len(captured) :
        \E m \in OriginalsOf(captured[n].identity) : m <= n

(* What the transaction found under the lock is still so when it inserts. *)
Decided(r) ==
    IF OriginalsOf(r.identity) = {}
    THEN r.original = 0 /\ r.status = BatchStatus(r.body)
    ELSE r.original \in OriginalsOf(r.identity) /\ r.status = "CONFLICT"

Answered(r) ==
    r.answer.outcome = "INGESTED" /\ r.mode = "PERSIST" =>
        /\ r.answer.id \in 1..Len(captured)
        /\ captured[r.answer.id].identity = r.identity
        /\ captured[r.answer.id].body = r.body
        /\ captured[r.answer.id].status = r.answer.status

(* What is known of one request. *)
RequestOK(c, r) ==
    /\ r.at \in {"start", "fetch"} => r.body = NoBody
    /\ r.at \in {"lock", "locked", "insert"} =>
          r.mode = "PERSIST" /\ r.identity \in Identities /\ r.body \in Bodies
    /\ r.at \in {"locked", "insert"} => advisory[r.identity] = c
    /\ r.at = "insert" => Decided(r)
    /\ r.at # "ended" => r.answer = NoAnswer
    /\ Answered(r)

RawInv ==
    /\ RawTyped
    /\ OneOriginal
    /\ Begun
    /\ \A c \in Captures : RequestOK(c, capture[c])

LEMMA BatchStatusType ==
    ASSUME NEW b
    PROVE  BatchStatus(b) \in BatchStatuses \ {"CONFLICT"}
  BY DEF BatchStatus, BatchStatuses

LEMMA NoAnswerType == NoAnswer \in Answer /\ NoAnswer.outcome = "NONE"
  <1>1. PICK no : no = FALSE
    OBVIOUS
  <1>2. /\ no \in BOOLEAN /\ "NONE" \in Refusals \cup {"NONE", "INGESTED"}
        /\ "NONE" \in BatchStatuses \cup {"NONE"} /\ 0 \in Nat
    BY <1>1
  <1>3. NoAnswer = [outcome |-> "NONE", status |-> "NONE", replay |-> no, id |-> 0]
    BY <1>1 DEF NoAnswer
  <1> QED
    BY <1>2, <1>3 DEF Answer

LEMMA NewCaptureType == NewCapture \in Request /\ NewCapture.at = "start" /\ NewCapture.answer = NoAnswer
                         /\ NewCapture.body = NoBody
  <1>1. PICK i : i = CHOOSE j \in Identities : TRUE
    OBVIOUS
  <1>2. PICK a \in Answer : a = NoAnswer
    BY NoAnswerType
  <1>3. /\ "start" \in Stages /\ "PERSIST" \in Modes /\ 1 \in 1..MaxPersistAttempts
        /\ "NONE" \in BatchStatuses \cup {"NONE"} /\ 0 \in Nat
    BY DEF Stages, Modes, MaxPersistAttempts
  <1>4. NewCapture = [at |-> "start", mode |-> "PERSIST", identity |-> i, body |-> NoBody,
                      attempt |-> 1, status |-> "NONE", original |-> 0, answer |-> a]
    BY <1>1, <1>2 DEF NewCapture
  <1>5. Request = [at: Stages, mode: Modes, identity: Identities \cup {i},
                   body: Bodies \cup {NoBody}, attempt: 1..MaxPersistAttempts,
                   status: BatchStatuses \cup {"NONE"}, original: Nat, answer: Answer]
    BY <1>1 DEF Request
  <1> QED
    BY <1>2, <1>3, <1>4, <1>5

LEMMA RawInvInit == RawInit => RawInv
  <1> SUFFICES ASSUME RawInit PROVE RawInv
    OBVIOUS
  <1>1. captured = <<>> /\ captured \in Seq(StoredBatch) /\ Len(captured) = 0
    BY DEF RawInit
  <1>2. RawTyped
    BY <1>1, NewCaptureType DEF RawInit, RawTyped
  <1>3. OneOriginal /\ Begun
    BY <1>1 DEF OneOriginal, Begun
  <1>4. ASSUME NEW c \in Captures
        PROVE  RequestOK(c, capture[c])
    <2>1. capture[c] = NewCapture
      BY DEF RawInit
    <2> QED
      BY <2>1, NewCaptureType DEF RequestOK, Answered, NoAnswer
  <1> QED
    BY <1>2, <1>3, <1>4 DEF RawInv

(* The request of a step: a typed record of which the invariant speaks. *)
LEMMA RequestType ==
    ASSUME RawInv, NEW c \in Captures
    PROVE  \E r \in Request : r = capture[c] /\ RequestOK(c, r)
  BY DEF RawInv, RawTyped

(* A step that stores nothing, and takes no lock of another request. *)
LEMMA NothingStored ==
    ASSUME RawInv, NEW c \in Captures, NEW r \in Request, Becomes(c, r), captured' = captured,
           advisory' \in [Identities -> Captures \cup {NoCapture}],
           \A i \in Identities : advisory[i] \in Captures \ {c} => advisory'[i] = advisory[i],
           RequestOK(c, r)'
    PROVE  RawInv'
  <1>1. RawTyped'
    BY DEF RawInv, RawTyped, Becomes
  <1>2. OneOriginal' /\ Begun'
    BY DEF RawInv, OneOriginal, Begun, OriginalsOf
  <1>3. ASSUME NEW d \in Captures
        PROVE  RequestOK(d, capture[d])'
    <2>1. CASE d = c
      <3>1. capture'[d] = r
        BY <2>1 DEF Becomes, RawInv, RawTyped
      <3> QED
        BY <2>1, <3>1 DEF RequestOK, Answered, Decided, OriginalsOf
    <2>2. CASE d # c
      <3>1. PICK s \in Request : s = capture[d] /\ s = capture'[d] /\ RequestOK(d, s)
        BY <2>2, RequestType DEF Becomes, RawInv, RawTyped
      <3>2. RequestOK(d, s)'
        BY <2>2, <3>1 DEF RequestOK, Answered, Decided, OriginalsOf
      <3> QED
        BY <3>1, <3>2 DEF RequestOK, Answered, Decided, OriginalsOf
    <2> QED
      BY <2>1, <2>2
  <1> QED
    BY <1>1, <1>2, <1>3 DEF RawInv

LEMMA UnlockType ==
    ASSUME RawInv, NEW c \in Captures, Unlock(c)
    PROVE  /\ advisory' \in [Identities -> Captures \cup {NoCapture}]
           /\ \A i \in Identities : advisory[i] \in Captures \ {c} => advisory'[i] = advisory[i]
  BY DEF RawInv, RawTyped, Unlock

LEMMA EndedType ==
    ASSUME NEW s \in Request, NEW a \in Answer
    PROVE  \E r \in Request : /\ r = Ended(s, a) /\ r.at = "ended" /\ r.answer = a
                              /\ r.mode = s.mode /\ r.identity = s.identity /\ r.body = s.body
  <1>1. PICK r : r = [s EXCEPT !.at = "ended", !.answer = a, !.attempt = 1, !.status = "NONE",
                               !.original = 0]
    OBVIOUS
  <1>2. "ended" \in Stages /\ 1 \in 1..MaxPersistAttempts
    BY DEF Stages, MaxPersistAttempts
  <1>3. /\ r \in Request /\ r.at = "ended" /\ r.answer = a
        /\ r.mode = s.mode /\ r.identity = s.identity /\ r.body = s.body
    BY <1>1, <1>2 DEF Request
  <1> QED
    BY <1>1, <1>3 DEF Ended

(* A request that ends with a refusal, from any stage. *)
LEMMA RefusedOK ==
    ASSUME NEW c \in Captures, NEW code \in Refusals, NEW s \in Request
    PROVE  RefusedFor(s, code) \in Request /\ RequestOK(c, RefusedFor(s, code))'
  <1>1. PICK a \in Answer : a = [NoAnswer EXCEPT !.outcome = code] /\ a.outcome # "INGESTED"
    <2>1. [NoAnswer EXCEPT !.outcome = code] \in Answer
      BY NoAnswerType DEF Answer
    <2>2. [NoAnswer EXCEPT !.outcome = code].outcome # "INGESTED"
      BY NoAnswerType DEF Answer, Refusals
    <2> QED
      BY <2>1, <2>2
  <1>2. PICK r \in Request : r = Ended(s, a) /\ r.at = "ended" /\ r.answer = a
    BY EndedType
  <1>3. RequestOK(c, r)'
    BY <1>1, <1>2 DEF RequestOK, Answered
  <1> QED
    BY <1>1, <1>2, <1>3 DEF RefusedFor

LEMMA AskOK ==
    ASSUME RawInv, NEW c \in Captures, Ask(c)
    PROVE  RawInv'
  <1>1. capture[c].at = "start" /\ captured' = captured /\ advisory' = advisory
    BY DEF Ask
  <1>2. PICK s \in Request : s = capture[c] /\ RequestOK(c, s)
    BY RequestType
  <1>3. PICK mode \in Modes :
            \E code \in {RefusalOf(context, mode) : context \in Context} :
                Becomes(c, IF code # "NONE" THEN RefusedFor(s, code)
                           ELSE [s EXCEPT !.at = "fetch", !.mode = mode])
    BY <1>2 DEF Ask
  <1>4. PICK code \in Refusals \cup {"NONE"} :
            Becomes(c, IF code # "NONE" THEN RefusedFor(s, code)
                       ELSE [s EXCEPT !.at = "fetch", !.mode = mode])
    BY <1>3 DEF RefusalOf, Refusals
  <1>5. advisory' \in [Identities -> Captures \cup {NoCapture}]
    BY <1>1 DEF RawInv, RawTyped
  <1>6. CASE code # "NONE"
    BY <1>1, <1>4, <1>5, <1>6, RefusedOK, NothingStored
  <1>7. CASE code = "NONE"
    <2>1. PICK r : r = [s EXCEPT !.at = "fetch", !.mode = mode]
      OBVIOUS
    <2>2. r \in Request /\ r.at = "fetch" /\ r.answer = s.answer /\ r.body = s.body
      BY <2>1 DEF Request, Stages
    <2>3. RequestOK(c, r)'
      BY <1>1, <1>2, <2>2, NoAnswerType DEF RequestOK, Answered
    <2> QED
      BY <1>1, <1>4, <1>5, <1>7, <2>1, <2>2, <2>3, NothingStored
  <1> QED
    BY <1>6, <1>7

LEMMA NothingUsableOK ==
    ASSUME RawInv, NEW c \in Captures, NothingUsable(c)
    PROVE  RawInv'
  <1>1. captured' = captured /\ advisory' = advisory
    BY DEF NothingUsable
  <1>2. PICK s \in Request : s = capture[c]
    BY RequestType
  <1>3. PICK code \in Refusals : Becomes(c, RefusedFor(s, code))
    BY <1>2 DEF NothingUsable, Refusals
  <1>4. advisory' \in [Identities -> Captures \cup {NoCapture}]
    BY <1>1 DEF RawInv, RawTyped
  <1> QED
    BY <1>1, <1>3, <1>4, RefusedOK, NothingStored

LEMMA DeliverOK ==
    ASSUME RawInv, NEW c \in Captures, Deliver(c)
    PROVE  RawInv'
  <1>1. capture[c].at = "fetch" /\ captured' = captured /\ advisory' = advisory
    BY DEF Deliver
  <1>2. PICK s \in Request : s = capture[c] /\ RequestOK(c, s)
    BY RequestType
  <1>3. PICK i \in Identities, b \in Bodies :
            Becomes(c, PreparedRun([s EXCEPT !.identity = i, !.body = b]))
    BY <1>2 DEF Deliver
  <1>4. PICK q \in Request : /\ q = [s EXCEPT !.identity = i, !.body = b]
                             /\ q.identity = i /\ q.body = b /\ q.mode = s.mode /\ q.answer = s.answer
    <2>1. [s EXCEPT !.identity = i, !.body = b] \in Request
      BY DEF Request
    <2> QED
      BY <2>1 DEF Request
  <1>6. advisory' \in [Identities -> Captures \cup {NoCapture}]
    BY <1>1 DEF RawInv, RawTyped
  <1>7. CASE s.mode = "PERSIST"
    <2>1. PICK r : r = [q EXCEPT !.at = "lock"]
      OBVIOUS
    <2>2. /\ r \in Request /\ r.at = "lock" /\ r.identity = i /\ r.body = b /\ r.mode = s.mode
          /\ r.answer = s.answer
      BY <1>4, <2>1 DEF Request, Stages
    <2>3. RequestOK(c, r)'
      BY <1>1, <1>2, <1>7, <2>2, NoAnswerType DEF RequestOK, Answered
    <2>4. Becomes(c, r)
      BY <1>3, <1>4, <1>7, <2>1 DEF PreparedRun
    <2> QED
      BY <1>1, <1>6, <2>2, <2>3, <2>4, NothingStored
  <1>8. CASE s.mode # "PERSIST"
    <2>1. PICK a : a = [NoAnswer EXCEPT !.outcome = "INGESTED", !.status = BatchStatus(b)]
      OBVIOUS
    <2>2. a \in Answer
      BY <2>1, NoAnswerType, BatchStatusType DEF Answer
    <2>3. PICK e \in Request : e = Ended(q, a) /\ e.at = "ended" /\ e.mode = q.mode
      BY <1>4, <2>2, EndedType
    <2>4. RequestOK(c, e)'
      BY <1>4, <1>8, <2>3 DEF RequestOK, Answered
    <2>5. Becomes(c, e)
      BY <1>3, <1>4, <1>8, <2>1, <2>3 DEF PreparedRun
    <2> QED
      BY <1>1, <1>6, <2>3, <2>4, <2>5, NothingStored
  <1> QED
    BY <1>7, <1>8

LEMMA LockIdentityOK ==
    ASSUME RawInv, NEW c \in Captures, LockIdentity(c)
    PROVE  RawInv'
  <1>1. /\ capture[c].at = "lock" /\ captured' = captured
        /\ LockFree(capture[c].identity)
        /\ advisory' = [advisory EXCEPT ![capture[c].identity] = c]
    BY DEF LockIdentity
  <1>2. PICK s \in Request : s = capture[c] /\ RequestOK(c, s)
    BY RequestType
  <1>3. s.identity \in Identities /\ s.body \in Bodies /\ s.answer = NoAnswer /\ s.mode = "PERSIST"
    BY <1>1, <1>2 DEF RequestOK
  <1>4. PICK r : r = [s EXCEPT !.at = "locked"]
    OBVIOUS
  <1>5. Becomes(c, r)
    BY <1>2, <1>4 DEF LockIdentity
  <1>6. /\ r \in Request /\ r.at = "locked" /\ r.identity = s.identity /\ r.body = s.body
        /\ r.answer = s.answer /\ r.mode = s.mode
    BY <1>4 DEF Request, Stages
  <1>7. advisory \in [Identities -> Captures \cup {NoCapture}]
    BY DEF RawInv, RawTyped
  <1>8. /\ advisory' \in [Identities -> Captures \cup {NoCapture}]
        /\ \A i \in Identities : advisory[i] \in Captures \ {c} => advisory'[i] = advisory[i]
        /\ advisory'[s.identity] = c
    BY <1>1, <1>2, <1>3, <1>7, NoCaptureAssumption DEF LockFree
  <1>9. RequestOK(c, r)'
    BY <1>3, <1>6, <1>8, NoAnswerType DEF RequestOK, Answered
  <1> QED
    BY <1>1, <1>5, <1>6, <1>8, <1>9, NothingStored

LEMMA StoredType ==
    ASSUME RawInv
    PROVE  Len(captured) \in Nat /\ \A n \in 1..Len(captured) : captured[n] \in StoredBatch
  BY DEF RawInv, RawTyped

LEMMA ReplayOK ==
    ASSUME RawInv, NEW c \in Captures, Replay(c)
    PROVE  RawInv'
  <1>1. captured' = captured /\ Unlock(c)
    BY DEF Replay
  <1>2. PICK s \in Request : s = capture[c]
    BY RequestType
  <1>3. PICK n \in Existing(c) : Becomes(c, Ended(s, ReplayAnswer(c, n)))
    BY <1>2 DEF Replay
  <1>4. /\ n \in 1..Len(captured) /\ n \in Nat
        /\ captured[n].identity = s.identity /\ captured[n].body = s.body
        /\ captured[n].status \in BatchStatuses
    <2>1. n \in 1..Len(captured) /\ captured[n].identity = s.identity /\ captured[n].body = s.body
      BY <1>2, <1>3 DEF Existing
    <2> QED
      BY <2>1, StoredType DEF StoredBatch
  <1>5. PICK yes \in BOOLEAN : yes = TRUE
    OBVIOUS
  <1>6. ReplayAnswer(c, n) = [outcome |-> "INGESTED", status |-> captured[n].status, replay |-> yes,
                              id |-> n]
    BY <1>5 DEF ReplayAnswer
  <1>7. PICK a \in Answer : a = ReplayAnswer(c, n) /\ a.id = n /\ a.status = captured[n].status
    <2>1. [outcome |-> "INGESTED", status |-> captured[n].status, replay |-> yes, id |-> n] \in Answer
      BY <1>4, <1>5 DEF Answer
    <2> QED
      BY <1>6, <2>1
  <1>8. PICK r \in Request : /\ r = Ended(s, a) /\ r.at = "ended" /\ r.answer = a
                             /\ r.identity = s.identity /\ r.body = s.body
    BY <1>7, EndedType
  <1>9. RequestOK(c, r)'
    BY <1>1, <1>4, <1>7, <1>8 DEF RequestOK, Answered
  <1> QED
    BY <1>1, <1>3, <1>7, <1>8, <1>9, UnlockType, NothingStored

(* Two originals of one identity are one. *)
LEMMA OriginalIsUnique ==
    ASSUME OneOriginal, NEW i, NEW n \in OriginalsOf(i), NEW m \in OriginalsOf(i)
    PROVE  n = m
  BY DEF OneOriginal, OriginalsOf

LEMMA FindOriginalOK ==
    ASSUME RawInv, NEW c \in Captures, FindOriginal(c)
    PROVE  RawInv'
  <1>1. capture[c].at = "locked" /\ captured' = captured /\ advisory' = advisory
    BY DEF FindOriginal
  <1>2. PICK s \in Request : s = capture[c] /\ RequestOK(c, s)
    BY RequestType
  <1>3. PICK originals : originals = OriginalsOf(s.identity) /\ originals = Originals(c)
    BY <1>2 DEF OriginalsOf, Originals
  <1>4. PICK original :
            original = IF originals = {} THEN 0
                       ELSE CHOOSE n \in originals : \A m \in originals : m >= n
    OBVIOUS
  <1>5. PICK status :
            status = IF originals = {} THEN BatchStatus(s.body) ELSE "CONFLICT"
    OBVIOUS
  <1>6. Becomes(c, [s EXCEPT !.at = "insert", !.original = original, !.status = status])
    BY <1>2, <1>3, <1>4, <1>5 DEF FindOriginal
  <1>7. \A n \in originals : n \in Nat
    BY <1>3 DEF OriginalsOf
  <1>8. ASSUME originals # {}
        PROVE  original \in originals
    <2>1. PICK n \in originals : TRUE
      BY <1>8
    <2>2. \A m \in originals : m = n
      BY <1>3, OriginalIsUnique DEF RawInv
    <2>3. \A m \in originals : m >= n
      BY <1>7, <2>1, <2>2
    <2> QED
      BY <1>4, <1>8, <2>1, <2>3
  <1>9. original \in Nat /\ status \in BatchStatuses \cup {"NONE"} /\ "insert" \in Stages
    <2>1. BatchStatus(s.body) \in BatchStatuses
      BY BatchStatusType
    <2> QED
      BY <1>4, <1>5, <1>7, <1>8, <2>1 DEF BatchStatuses, Stages
  <1>10. PICK r : r = [s EXCEPT !.at = "insert", !.original = original, !.status = status]
    OBVIOUS
  <1>11. /\ r \in Request /\ r.at = "insert" /\ r.original = original /\ r.status = status
         /\ r.identity = s.identity /\ r.body = s.body /\ r.answer = s.answer /\ r.mode = s.mode
    BY <1>9, <1>10 DEF Request
  <1>12. Decided(r)'
    <2>1. OriginalsOf(r.identity)' = originals
      BY <1>1, <1>3, <1>11 DEF OriginalsOf
    <2> QED
      BY <1>4, <1>5, <1>8, <1>11, <2>1 DEF Decided
  <1>13. RequestOK(c, r)'
    BY <1>1, <1>2, <1>11, <1>12 DEF RequestOK, Answered
  <1>14. advisory' \in [Identities -> Captures \cup {NoCapture}]
    BY <1>1 DEF RawInv, RawTyped
  <1> QED
    BY <1>1, <1>6, <1>10, <1>11, <1>13, <1>14, NothingStored

LEMMA RollbackOK ==
    ASSUME RawInv, NEW c \in Captures, Rollback(c)
    PROVE  RawInv'
  <1>1. captured' = captured /\ Unlock(c) /\ capture[c].at \in {"lock", "locked", "insert"}
    BY DEF Rollback
  <1>2. PICK s \in Request : s = capture[c] /\ RequestOK(c, s)
    BY RequestType
  <1>3. CASE Becomes(c, RefusedFor(s, "RAW_INGESTION_FAILED"))
    <2>1. "RAW_INGESTION_FAILED" \in Refusals
      BY DEF Refusals
    <2> QED
      BY <1>1, <1>3, <2>1, RefusedOK, UnlockType, NothingStored
  <1>4. CASE /\ s.attempt < MaxPersistAttempts
             /\ Becomes(c, [s EXCEPT !.at = "lock", !.attempt = s.attempt + 1, !.status = "NONE",
                                     !.original = 0])
    <2>1. PICK r : r = [s EXCEPT !.at = "lock", !.attempt = s.attempt + 1, !.status = "NONE",
                                 !.original = 0]
      OBVIOUS
    <2>2. s.attempt + 1 \in 1..MaxPersistAttempts /\ "lock" \in Stages
      BY <1>4 DEF Request, MaxPersistAttempts, Stages
    <2>3. /\ r \in Request /\ r.at = "lock" /\ r.identity = s.identity /\ r.body = s.body
          /\ r.answer = s.answer /\ r.mode = s.mode
      BY <2>1, <2>2 DEF Request
    <2>4. RequestOK(c, r)'
      BY <1>1, <1>2, <2>3, NoAnswerType DEF RequestOK, Answered
    <2> QED
      BY <1>1, <1>4, <2>1, <2>3, <2>4, UnlockType, NothingStored
  <1> QED
    BY <1>2, <1>3, <1>4 DEF Rollback

LEMMA CommitOK ==
    ASSUME RawInv, NEW c \in Captures, Commit(c)
    PROVE  RawInv'
  <1>1. capture[c].at = "insert" /\ Existing(c) = {} /\ Unlock(c)
    BY DEF Commit
  <1>2. PICK s \in Request : s = capture[c] /\ RequestOK(c, s)
    BY RequestType
  <1>3. /\ s.identity \in Identities /\ s.body \in Bodies /\ advisory[s.identity] = c /\ Decided(s)
        /\ s.original \in Nat
    BY <1>1, <1>2 DEF RequestOK, Request
  <1>4. s.status \in BatchStatuses
    <2>1. BatchStatus(s.body) \in BatchStatuses /\ "CONFLICT" \in BatchStatuses
      BY BatchStatusType DEF BatchStatuses
    <2> QED
      BY <1>3, <2>1 DEF Decided
  <1>5. PICK row \in StoredBatch : /\ captured' = Append(captured, row)
                              /\ row.identity = s.identity /\ row.body = s.body
                              /\ row.status = s.status /\ row.conflictsWith = s.original
    <2>1. PICK rows \in Nat : rows = Len(s.body.rows)
      BY <1>3, RowsAssumption
    <2>2. PICK row \in StoredBatch : row = [identity |-> s.identity, body |-> s.body, status |-> s.status,
                                       conflictsWith |-> s.original, rows |-> rows]
      BY <1>3, <1>4, <2>1 DEF StoredBatch
    <2>3. captured' = Append(captured, row)
      BY <1>2, <2>1, <2>2 DEF Commit
    <2> QED
      BY <2>2, <2>3
  <1>6. PICK last \in Nat : last = Len(captured)
    BY StoredType
  <1>7. /\ captured' \in Seq(StoredBatch) /\ Len(captured') = last + 1
        /\ captured'[last + 1] = row
        /\ \A n \in 1..last : captured'[n] = captured[n]
    BY <1>5, <1>6 DEF RawInv, RawTyped
  <1>8. \A n \in 1..last : captured[n].identity = s.identity => captured[n].body # s.body
    BY <1>1, <1>2, <1>6 DEF Existing
  <1>9. \A n \in 1..last : captured[n].identity = s.identity => OriginalsOf(s.identity) # {}
    BY <1>6 DEF RawInv, Begun
  <1>10. OneOriginal'
    <2> SUFFICES ASSUME NEW n \in 1..(last + 1), NEW m \in 1..(last + 1),
                        captured'[n].identity = captured'[m].identity, n < m
                 PROVE  /\ captured'[m].status = "CONFLICT"
                        /\ captured'[n].status # "CONFLICT" <=> captured'[m].conflictsWith = n
                        /\ captured'[n].body # captured'[m].body
      BY <1>7 DEF OneOriginal
    <2>1. n \in 1..last /\ captured'[n] = captured[n]
      BY <1>7
    <2>2. CASE m \in 1..last
      BY <1>6, <1>7, <2>1, <2>2 DEF RawInv, OneOriginal
    <2>3. CASE m = last + 1
      <3>1. captured[n].identity = s.identity /\ captured'[m] = row
        BY <1>5, <1>7, <2>1, <2>3
      <3>2. s.original \in OriginalsOf(s.identity) /\ s.status = "CONFLICT"
        BY <1>3, <1>9, <2>1, <3>1 DEF Decided
      <3>3. captured[n].status # "CONFLICT" => n = s.original
        <4>1. captured[n].status # "CONFLICT" => n \in OriginalsOf(s.identity)
          BY <1>6, <2>1, <3>1 DEF OriginalsOf
        <4> QED
          BY <3>2, <4>1, OriginalIsUnique DEF RawInv
      <3>4. n = s.original => captured[n].status # "CONFLICT"
        BY <3>2 DEF OriginalsOf
      <3> QED
        BY <1>5, <1>8, <2>1, <3>1, <3>2, <3>3, <3>4
    <2> QED
      BY <2>2, <2>3
  <1>11. ASSUME NEW i
         PROVE  /\ OriginalsOf(i) \subseteq OriginalsOf(i)'
                /\ i # s.identity => OriginalsOf(i)' = OriginalsOf(i)
    <2>1. \A n \in 1..(last + 1) : n \in 1..last \/ n = last + 1
      OBVIOUS
    <2>2. \A n \in 1..last : n \in 1..(last + 1)
      OBVIOUS
    <2> QED
      BY <1>5, <1>6, <1>7, <2>1, <2>2 DEF OriginalsOf
  <1>12. Begun'
    <2> SUFFICES ASSUME NEW n \in 1..(last + 1), NEW i, i = captured'[n].identity
                 PROVE  \E m \in OriginalsOf(i)' : m <= n
      BY <1>7 DEF Begun, OriginalsOf
    <2>1. CASE n \in 1..last
      <3>1. i = captured[n].identity
        BY <1>7, <2>1
      <3>2. PICK m \in OriginalsOf(i) : m <= n
        BY <1>6, <2>1, <3>1 DEF RawInv, Begun
      <3> QED
        BY <1>11, <3>2
    <2>2. CASE n = last + 1 /\ OriginalsOf(s.identity) # {}
      <3>1. PICK m \in OriginalsOf(s.identity) : m \in 1..last
        BY <1>6, <2>2 DEF OriginalsOf
      <3>2. i = s.identity /\ m <= n
        BY <1>5, <1>7, <2>2, <3>1
      <3> QED
        BY <1>11, <3>1, <3>2
    <2>3. CASE n = last + 1 /\ OriginalsOf(s.identity) = {}
      <3>1. row.status # "CONFLICT"
        BY <1>3, <1>5, <2>3, BatchStatusType DEF Decided
      <3>2. n \in OriginalsOf(i)' /\ n <= n
        BY <1>5, <1>7, <2>3, <3>1 DEF OriginalsOf
      <3> QED
        BY <3>2
    <2> QED
      BY <2>1, <2>2, <2>3
  <1>13. ASSUME NEW d \in Captures, d # c
         PROVE  RequestOK(d, capture[d])'
    <2>1. PICK t \in Request : t = capture[d] /\ t = capture'[d] /\ RequestOK(d, t)
      BY <1>13, RequestType DEF Commit, Becomes, RawInv, RawTyped
    <2>2. t.at \in {"locked", "insert"} =>
              /\ t.identity # s.identity
              /\ advisory'[t.identity] = d
      BY <1>1, <1>3, <1>13, <2>1, UnlockType DEF RequestOK
    <2>3. t.at = "insert" => Decided(t)'
      BY <1>11, <2>1, <2>2 DEF RequestOK, Decided
    <2>4. Answered(t)'
      BY <1>6, <1>7, <2>1 DEF RequestOK, Answered
    <2>5. RequestOK(d, t)'
      BY <2>1, <2>2, <2>3, <2>4 DEF RequestOK
    <2> QED
      BY <2>1, <2>5 DEF RequestOK, Answered, Decided, OriginalsOf
  <1>14. \E r \in Request : Becomes(c, r) /\ RequestOK(c, r)'
    <2>1. CASE Becomes(c, RefusedFor(s, "RAW_INGESTION_FAILED"))
      <3>1. "RAW_INGESTION_FAILED" \in Refusals
        BY DEF Refusals
      <3> QED
        BY <2>1, <3>1, RefusedOK
    <2>2. CASE Becomes(c, Ended(s, [outcome |-> "INGESTED", status |-> s.status, replay |-> FALSE,
                                    id |-> last + 1]))
      <3>1. PICK no \in BOOLEAN : no = FALSE
        OBVIOUS
      <3>2. PICK a \in Answer : /\ a = [outcome |-> "INGESTED", status |-> s.status, replay |-> no,
                                        id |-> last + 1]
                                /\ a.id = last + 1 /\ a.status = s.status
        <4>1. [outcome |-> "INGESTED", status |-> s.status, replay |-> no, id |-> last + 1] \in Answer
          BY <1>4 DEF Answer
        <4> QED
          BY <4>1
      <3>3. PICK r \in Request : /\ r = Ended(s, a) /\ r.at = "ended" /\ r.answer = a
                                 /\ r.identity = s.identity /\ r.body = s.body
        BY <3>2, EndedType
      <3>4. RequestOK(c, r)'
        BY <1>5, <1>7, <3>2, <3>3 DEF RequestOK, Answered
      <3> QED
        BY <2>2, <3>1, <3>2, <3>3, <3>4
    <2> QED
      BY <1>2, <1>6, <2>1, <2>2 DEF Commit
  <1>15. PICK r \in Request : Becomes(c, r) /\ RequestOK(c, r)'
    BY <1>14
  <1>16. RawTyped'
    BY <1>1, <1>7, <1>15, UnlockType DEF RawInv, RawTyped, Becomes
  <1>17. RequestOK(c, capture[c])'
    <2>1. capture'[c] = r
      BY <1>15 DEF Becomes, RawInv, RawTyped
    <2> QED
      BY <1>15, <2>1 DEF RequestOK, Answered, Decided, OriginalsOf
  <1> QED
    BY <1>10, <1>12, <1>13, <1>16, <1>17 DEF RawInv

LEMMA RawInvNext == RawInv /\ [RawNext]_rawVars => RawInv'
  <1> SUFFICES ASSUME RawInv, [RawNext]_rawVars PROVE RawInv'
    OBVIOUS
  <1>1. ASSUME NEW c \in Captures, CaptureStep(c)
        PROVE  RawInv'
    BY <1>1, AskOK, NothingUsableOK, DeliverOK, LockIdentityOK, ReplayOK, FindOriginalOK, CommitOK,
       RollbackOK DEF CaptureStep
  <1>2. CASE UNCHANGED rawVars
    BY <1>2 DEF rawVars, RawInv, RawTyped, OneOriginal, Begun, OriginalsOf, RequestOK, Decided,
                Answered
  <1> QED
    BY <1>1, <1>2 DEF RawNext

LEMMA RawGoals == RawInv => RawTypeOK /\ OneOriginal /\ AnswersAreStored
  <1> SUFFICES ASSUME RawInv PROVE RawTypeOK /\ AnswersAreStored
    BY DEF RawInv
  <1>1. RawTypeOK
    BY StoredType DEF RawInv, RawTyped, RawTypeOK, Request, Stages
  <1>2. AnswersAreStored
    BY DEF RawInv, RequestOK, Answered, AnswersAreStored
  <1> QED
    BY <1>1, <1>2

(* Captures keep to their types.                                             *)
THEOREM RawTypeCorrect == RawSpec => []RawTypeOK
  <1> QED
    BY RawInvInit, RawInvNext, RawGoals, PTL DEF RawSpec

(* However many captures of however many identities overlap, are retried or  *)
(* lose their answer, each identity has one original, stored first, at which *)
(* all its other batches point, and no two of the same body                  *)
(* (persistWithinIdentityLock under the advisory lock).                      *)
THEOREM IdentityHasOneOriginal == RawSpec => []OneOriginal
  <1> QED
    BY RawInvInit, RawInvNext, RawGoals, PTL DEF RawSpec

(* Whatever answer of a capture says that a batch was ingested, that batch   *)
(* is stored, with the identity, the body and the status of the answer       *)
(* (replayResult, persistWithinIdentityLock).                                *)
THEOREM IngestedIsStored == RawSpec => []AnswersAreStored
  <1> QED
    BY RawInvInit, RawInvNext, RawGoals, PTL DEF RawSpec

-----------------------------------------------------------------------------
(* How captures are seen through CaptureLog. *)

Unseen == UNCHANGED Log!logged

(* What the log shows of the requests. *)
SeenAsked == [d \in Captures |-> Asked(capture[d])]
SeenAnswer == [d \in Captures |-> capture[d].answer]

LEMMA NoAnswerSeen == NoAnswer = Log!Unanswered
  BY DEF NoAnswer, Log!Unanswered

LEMMA SameUpdate ==
    ASSUME NEW f, NEW c \in Captures, f = [d \in Captures |-> f[d]]
    PROVE  [f EXCEPT ![c] = f[c]] = f
  <1>1. [f EXCEPT ![c] = f[c]] = [d \in Captures |-> f[d]]
    OBVIOUS
  <1> QED
    BY <1>1

(* What a request that moves asks for and is answered. *)
LEMMA RequestSeen ==
    ASSUME RawInv, NEW c \in Captures, NEW r, Becomes(c, r)
    PROVE  /\ SeenAnswer' = [SeenAnswer EXCEPT ![c] = r.answer]
           /\ SeenAsked' = [SeenAsked EXCEPT ![c] = Asked(r)]
           /\ SeenAnswer'[c] = r.answer /\ SeenAsked'[c] = Asked(r)
           /\ SeenAnswer[c] = capture[c].answer /\ SeenAsked[c] = Asked(capture[c])
  <1>1. SeenAnswer' = [SeenAnswer EXCEPT ![c] = r.answer]
    BY DEF RawInv, RawTyped, Becomes, SeenAnswer
  <1>2. SeenAsked' = [SeenAsked EXCEPT ![c] = Asked(r)]
    BY DEF RawInv, RawTyped, Becomes, SeenAsked, Asked
  <1>3. SeenAnswer[c] = capture[c].answer /\ SeenAsked[c] = Asked(capture[c])
    BY DEF SeenAnswer, SeenAsked
  <1>4. SeenAnswer'[c] = r.answer /\ SeenAsked'[c] = Asked(r)
    BY <1>1, <1>2 DEF SeenAnswer, SeenAsked
  <1> QED
    BY <1>1, <1>2, <1>3, <1>4

LEMMA SameAnswer ==
    ASSUME RawInv, NEW c \in Captures, NEW r, Becomes(c, r), r.answer = capture[c].answer
    PROVE  SeenAnswer' = SeenAnswer
  <1>1. SeenAnswer' = [SeenAnswer EXCEPT ![c] = r.answer] /\ SeenAnswer[c] = capture[c].answer
    BY RequestSeen
  <1>2. SeenAnswer = [d \in Captures |-> SeenAnswer[d]]
    BY DEF SeenAnswer
  <1>3. [SeenAnswer EXCEPT ![c] = SeenAnswer[c]] = SeenAnswer
    BY <1>2, SameUpdate
  <1>4. r.answer = SeenAnswer[c]
    BY <1>1
  <1> QED
    BY <1>1, <1>3, <1>4

LEMMA SameAsked ==
    ASSUME RawInv, NEW c \in Captures, NEW r, Becomes(c, r), Asked(r) = Asked(capture[c])
    PROVE  SeenAsked' = SeenAsked
  <1>1. SeenAsked' = [SeenAsked EXCEPT ![c] = Asked(r)] /\ SeenAsked[c] = Asked(capture[c])
    BY RequestSeen
  <1>2. SeenAsked = [d \in Captures |-> SeenAsked[d]]
    BY DEF SeenAsked
  <1>3. [SeenAsked EXCEPT ![c] = SeenAsked[c]] = SeenAsked
    BY <1>2, SameUpdate
  <1>4. Asked(r) = SeenAsked[c]
    BY <1>1
  <1> QED
    BY <1>1, <1>3, <1>4

(* A step that neither stores nor answers. *)
LEMMA StepUnseen ==
    ASSUME RawInv, NEW c \in Captures, NEW r, Becomes(c, r), captured' = captured,
           r.answer = capture[c].answer, Asked(r) = Asked(capture[c])
    PROVE  Unseen
  <1>1. SeenAnswer' = SeenAnswer
    BY SameAnswer
  <1>2. SeenAsked' = SeenAsked
    BY SameAsked
  <1> QED
    BY <1>1, <1>2 DEF Unseen, Log!logged, SeenAnswer, SeenAsked

(* A request that is answered. *)
LEMMA AnswerSeen ==
    ASSUME RawInv, NEW c \in Captures, NEW s \in Request, s = capture[c], s.answer = NoAnswer,
           NEW a \in Answer, a.outcome # "NONE", Becomes(c, Ended(s, a))
    PROVE  /\ Log!Answers(c, a) /\ Log!Moves(c) /\ SeenAsked' = SeenAsked
           /\ SeenAnswer' = [SeenAnswer EXCEPT ![c] = a] /\ SeenAnswer[c] = Log!Unanswered
  <1>1. PICK r \in Request : /\ r = Ended(s, a) /\ r.answer = a
                             /\ r.mode = s.mode /\ r.identity = s.identity /\ r.body = s.body
    BY EndedType
  <1>2. a # NoAnswer /\ Becomes(c, r)
    BY <1>1, NoAnswerType
  <1>3. /\ SeenAnswer' = [SeenAnswer EXCEPT ![c] = a] /\ SeenAnswer[c] = NoAnswer
        /\ SeenAnswer'[c] # SeenAnswer[c]
    BY <1>1, <1>2, RequestSeen
  <1>4. Asked(r) = Asked(s)
    BY <1>1 DEF Asked
  <1>5. SeenAsked' = SeenAsked
    BY <1>2, <1>4, SameAsked
  <1> QED
    BY <1>3, <1>5, NoAnswerSeen DEF Log!Answers, Log!Moves, SeenAnswer, SeenAsked

(* A request refused at any stage. *)
LEMMA RefusalSeen ==
    ASSUME RawInv, NEW c \in Captures, NEW code \in Refusals, NEW s \in Request, s = capture[c],
           s.answer = NoAnswer, Becomes(c, RefusedFor(s, code))
    PROVE  /\ Log!Answers(c, Log!Refusal(code)) /\ Log!Moves(c) /\ SeenAsked' = SeenAsked
           /\ SeenAnswer' = [SeenAnswer EXCEPT ![c] = Log!Refusal(code)]
           /\ SeenAnswer[c] = Log!Unanswered
  <1>1. PICK a \in Answer : a = [NoAnswer EXCEPT !.outcome = code] /\ a.outcome # "NONE"
    <2>1. [NoAnswer EXCEPT !.outcome = code] \in Answer
      BY NoAnswerType DEF Answer
    <2>2. [NoAnswer EXCEPT !.outcome = code].outcome # "NONE"
      BY NoAnswerType DEF Answer, Refusals
    <2> QED
      BY <2>1, <2>2
  <1>2. Becomes(c, Ended(s, a))
    BY <1>1 DEF RefusedFor
  <1>3. /\ Log!Answers(c, a) /\ Log!Moves(c) /\ SeenAsked' = SeenAsked
        /\ SeenAnswer' = [SeenAnswer EXCEPT ![c] = a] /\ SeenAnswer[c] = Log!Unanswered
    BY <1>1, <1>2, AnswerSeen
  <1>4. a = Log!Refusal(code)
    BY <1>1, NoAnswerSeen DEF Log!Refusal
  <1> QED
    BY <1>3, <1>4

LEMMA RefuseImplements ==
    ASSUME RawInv, NEW c \in Captures, NEW code \in Refusals, NEW s \in Request, s = capture[c],
           s.answer = NoAnswer, Becomes(c, RefusedFor(s, code)), captured' = captured
    PROVE  Log!Next
  <1>1. Log!Answers(c, Log!Refusal(code)) /\ Log!Moves(c) /\ SeenAsked' = SeenAsked
    BY RefusalSeen
  <1>2. Log!Refuse(c)
    BY <1>1 DEF Log!Refuse, SeenAsked
  <1> QED
    BY <1>1, <1>2 DEF Log!Next

(* Before its batch was delivered a request has asked nothing. *)
LEMMA QuestionSeen ==
    ASSUME NEW s \in Request, s.body \in Bodies
    PROVE  \E q : /\ q = Asked(s) /\ q = Log!Question(s.mode, s.identity, s.body)
                  /\ q.mode = s.mode /\ q.identity = s.identity /\ q.body = s.body
                  /\ q # NothingAsked
  <1>1. PICK q : q = [mode |-> s.mode, identity |-> s.identity, body |-> s.body]
    OBVIOUS
  <1>2. q.mode = s.mode /\ q.identity = s.identity /\ q.body = s.body
    BY <1>1
  <1>3. q.mode # NothingAsked.mode
    BY <1>2 DEF Request, Modes, NothingAsked
  <1>4. q = Asked(s)
    BY <1>1, NoBodyAssumption DEF Asked
  <1>5. q = Log!Question(s.mode, s.identity, s.body)
    BY <1>1 DEF Log!Question
  <1> QED
    BY <1>2, <1>3, <1>4, <1>5

(* A request whose batch is delivered. *)
LEMMA DeliverySeen ==
    ASSUME RawInv, NEW c \in Captures, NEW r \in Request, Becomes(c, r), r.body \in Bodies,
           capture[c].body = NoBody
    PROVE  /\ Log!Asks(c, Log!Question(r.mode, r.identity, r.body))
           /\ Log!Moves(c)
  <1>1. PICK q : q = Asked(r) /\ q = Log!Question(r.mode, r.identity, r.body) /\ q # NothingAsked
    BY QuestionSeen
  <1>2. SeenAsked[c] = NothingAsked
    BY RequestSeen DEF Asked
  <1>3. SeenAsked' = [SeenAsked EXCEPT ![c] = q] /\ SeenAsked'[c] # SeenAsked[c]
    <2>1. SeenAsked' = [SeenAsked EXCEPT ![c] = Asked(r)] /\ SeenAsked'[c] = Asked(r)
      BY RequestSeen
    <2> QED
      BY <1>1, <1>2, <2>1
  <1>4. Log!Asks(c, q) /\ Log!Moves(c)
    BY <1>2, <1>3 DEF Log!Asks, Log!Moves, SeenAsked
  <1> QED
    BY <1>1, <1>4

LEMMA AskImplements ==
    ASSUME RawInv, NEW c \in Captures, Ask(c)
    PROVE  Log!Next \/ Unseen
  <1>1. capture[c].at = "start" /\ captured' = captured
    BY DEF Ask
  <1>2. PICK s \in Request : s = capture[c] /\ RequestOK(c, s)
    BY RequestType
  <1>3. s.body = NoBody /\ s.answer = NoAnswer
    BY <1>1, <1>2 DEF RequestOK
  <1>4. PICK mode \in Modes :
            \E code \in {RefusalOf(context, mode) : context \in Context} :
                Becomes(c, IF code # "NONE" THEN RefusedFor(s, code)
                           ELSE [s EXCEPT !.at = "fetch", !.mode = mode])
    BY <1>2 DEF Ask
  <1>5. PICK code \in Refusals \cup {"NONE"} :
            Becomes(c, IF code # "NONE" THEN RefusedFor(s, code)
                       ELSE [s EXCEPT !.at = "fetch", !.mode = mode])
    BY <1>4 DEF RefusalOf, Refusals
  <1>6. CASE code # "NONE"
    BY <1>1, <1>2, <1>3, <1>5, <1>6, RefuseImplements
  <1>7. CASE code = "NONE"
    <2>1. PICK r : r = [s EXCEPT !.at = "fetch", !.mode = mode]
      OBVIOUS
    <2>2. r.body = NoBody /\ r.answer = s.answer
      BY <1>3, <2>1 DEF Request
    <2>3. Becomes(c, r) /\ Asked(r) = Asked(s)
      BY <1>3, <1>5, <1>7, <2>1, <2>2 DEF Asked
    <2> QED
      BY <1>1, <1>2, <2>2, <2>3, StepUnseen
  <1> QED
    BY <1>6, <1>7

LEMMA NothingUsableImplements ==
    ASSUME RawInv, NEW c \in Captures, NothingUsable(c)
    PROVE  Log!Next
  <1>1. capture[c].at = "fetch" /\ captured' = captured
    BY DEF NothingUsable
  <1>2. PICK s \in Request : s = capture[c] /\ RequestOK(c, s)
    BY RequestType
  <1>3. PICK code \in Refusals : Becomes(c, RefusedFor(s, code))
    BY <1>2 DEF NothingUsable, Refusals
  <1>4. s.answer = NoAnswer
    BY <1>1, <1>2 DEF RequestOK
  <1> QED
    BY <1>1, <1>2, <1>3, <1>4, RefuseImplements

(* The answer to a dry run. *)
LEMMA ShownAnswer ==
    ASSUME NEW b
    PROVE  \E a \in Answer : /\ a = [NoAnswer EXCEPT !.outcome = "INGESTED", !.status = BatchStatus(b)]
                             /\ a = Log!Ingested(BatchStatus(b), 0)
                             /\ a.outcome # "NONE"
  <1>1. PICK no \in BOOLEAN, status \in BatchStatuses : no = FALSE /\ status = BatchStatus(b)
    BY BatchStatusType
  <1>2. PICK a \in Answer :
            /\ a = [outcome |-> "INGESTED", status |-> status, replay |-> no, id |-> 0]
            /\ a.outcome = "INGESTED"
    <2>1. [outcome |-> "INGESTED", status |-> status, replay |-> no, id |-> 0] \in Answer
      BY DEF Answer
    <2> QED
      BY <2>1
  <1>3. NoAnswer = [outcome |-> "NONE", status |-> "NONE", replay |-> no, id |-> 0]
    BY <1>1 DEF NoAnswer
  <1>4. a = [NoAnswer EXCEPT !.outcome = "INGESTED", !.status = status]
    <2>1. PICK half : half = [NoAnswer EXCEPT !.outcome = "INGESTED"]
      OBVIOUS
    <2>2. half = [outcome |-> "INGESTED", status |-> "NONE", replay |-> no, id |-> 0]
      BY <1>3, <2>1
    <2>3. a = [half EXCEPT !.status = status]
      BY <1>2, <2>2
    <2> QED
      BY <2>1, <2>3
  <1>5. a = [NoAnswer EXCEPT !.outcome = "INGESTED", !.status = BatchStatus(b)]
    BY ONLY <1>1, <1>4
  <1>6. a = Log!Ingested(BatchStatus(b), 0)
    BY <1>1, <1>2 DEF Log!Ingested
  <1> QED
    BY <1>2, <1>5, <1>6

LEMMA DeliverImplements ==
    ASSUME RawInv, NEW c \in Captures, Deliver(c)
    PROVE  Log!Next
  <1>1. capture[c].at = "fetch" /\ captured' = captured
    BY DEF Deliver
  <1>2. PICK s \in Request : s = capture[c] /\ RequestOK(c, s)
    BY RequestType
  <1>3. s.body = NoBody /\ s.answer = NoAnswer
    BY <1>1, <1>2 DEF RequestOK
  <1>4. PICK i \in Identities, b \in Bodies :
            Becomes(c, PreparedRun([s EXCEPT !.identity = i, !.body = b]))
    BY <1>2 DEF Deliver
  <1>5. PICK q \in Request : /\ q = [s EXCEPT !.identity = i, !.body = b]
                             /\ q.identity = i /\ q.body = b /\ q.mode = s.mode
                             /\ q.answer = NoAnswer
    <2>1. [s EXCEPT !.identity = i, !.body = b] \in Request
      BY DEF Request
    <2> QED
      BY <1>3, <2>1 DEF Request
  <1>6. CASE s.mode = "PERSIST"
    <2>1. PICK r \in Request : /\ r = [q EXCEPT !.at = "lock"] /\ r.mode = "PERSIST"
                               /\ r.identity = i /\ r.body = b /\ r.answer = NoAnswer
      <3>1. [q EXCEPT !.at = "lock"] \in Request
        BY DEF Request, Stages
      <3> QED
        BY <1>5, <1>6, <3>1 DEF Request
    <2>2. Becomes(c, r)
      BY <1>4, <1>5, <1>6, <2>1 DEF PreparedRun
    <2>3. Log!Asks(c, Log!Question("PERSIST", i, b)) /\ Log!Moves(c)
      BY <1>2, <1>3, <2>1, <2>2, DeliverySeen
    <2>4. SeenAnswer' = SeenAnswer /\ SeenAnswer[c] = NoAnswer
      <3>1. SeenAnswer' = SeenAnswer
        BY <1>2, <1>3, <2>1, <2>2, SameAnswer
      <3>2. SeenAnswer[c] = NoAnswer
        BY <1>2, <1>3, <2>2, RequestSeen
      <3> QED
        BY <3>1, <3>2
    <2>5. Log!Ask(c)
      BY <1>1, <2>3, <2>4, NoAnswerSeen DEF Log!Ask, SeenAnswer
    <2> QED
      BY <2>3, <2>5 DEF Log!Next
  <1>7. CASE s.mode # "PERSIST"
    <2>1. PICK a \in Answer :
              /\ a = [NoAnswer EXCEPT !.outcome = "INGESTED", !.status = BatchStatus(b)]
              /\ a = Log!Ingested(BatchStatus(b), 0)
              /\ a.outcome # "NONE"
      BY ShownAnswer
    <2>2. Becomes(c, Ended(q, a))
      BY <1>4, <1>5, <1>7, <2>1 DEF PreparedRun
    <2>3. PICK r \in Request : /\ r = Ended(q, a) /\ r.answer = a
                               /\ r.mode = q.mode /\ r.identity = q.identity /\ r.body = q.body
      BY EndedType
    <2>4. r.mode = "DRY_RUN" /\ r.identity = i /\ r.body = b /\ Becomes(c, r)
      BY <1>5, <1>7, <2>2, <2>3 DEF Request, Modes
    <2>5. Log!Asks(c, Log!Question("DRY_RUN", i, b)) /\ Log!Moves(c)
      BY <1>2, <1>3, <2>4, DeliverySeen
    <2>6. SeenAnswer' = [SeenAnswer EXCEPT ![c] = a] /\ SeenAnswer[c] = NoAnswer
      BY <1>2, <1>3, <2>3, <2>4, RequestSeen
    <2>7. Log!Answers(c, a)
      BY <2>6, NoAnswerSeen DEF Log!Answers, SeenAnswer
    <2>8. BatchStatus(b) = [x \in Bodies |-> BatchStatus(x)][b]
      OBVIOUS
    <2>9. Log!Answers(c, Log!Ingested([x \in Bodies |-> BatchStatus(x)][b], 0))
      BY <2>1, <2>7, <2>8
    <2>10. Log!Show(c)
      BY <1>1, <2>5, <2>9 DEF Log!Show
    <2> QED
      BY <2>5, <2>10 DEF Log!Next
  <1> QED
    BY <1>6, <1>7

(* Taking the lock, finding the original and trying again are not seen. *)
LEMMA LockIdentityImplements ==
    ASSUME RawInv, NEW c \in Captures, LockIdentity(c)
    PROVE  Unseen
  <1>1. PICK s \in Request : s = capture[c]
    BY RequestType
  <1>2. PICK r : r = [s EXCEPT !.at = "locked"]
    OBVIOUS
  <1>3. Becomes(c, r) /\ captured' = captured
    BY <1>1, <1>2 DEF LockIdentity
  <1>4. r.answer = s.answer /\ r.mode = s.mode /\ r.identity = s.identity /\ r.body = s.body
    BY <1>2 DEF Request
  <1>5. Asked(r) = Asked(s)
    BY <1>4 DEF Asked
  <1> QED
    BY <1>1, <1>3, <1>4, <1>5, StepUnseen

LEMMA FindOriginalImplements ==
    ASSUME RawInv, NEW c \in Captures, FindOriginal(c)
    PROVE  Unseen
  <1>1. PICK s \in Request : s = capture[c]
    BY RequestType
  <1>2. PICK original, status :
            Becomes(c, [s EXCEPT !.at = "insert", !.original = original, !.status = status])
    BY <1>1 DEF FindOriginal
  <1>3. PICK r : r = [s EXCEPT !.at = "insert", !.original = original, !.status = status]
    OBVIOUS
  <1>4. Becomes(c, r) /\ captured' = captured
    BY <1>2, <1>3 DEF FindOriginal
  <1>5. r.answer = s.answer /\ r.mode = s.mode /\ r.identity = s.identity /\ r.body = s.body
    BY <1>3 DEF Request
  <1>6. Asked(r) = Asked(s)
    BY <1>5 DEF Asked
  <1> QED
    BY <1>1, <1>4, <1>5, <1>6, StepUnseen

LEMMA RollbackImplements ==
    ASSUME RawInv, NEW c \in Captures, Rollback(c)
    PROVE  Log!Next \/ Unseen
  <1>1. captured' = captured /\ capture[c].at \in {"lock", "locked", "insert"}
    BY DEF Rollback
  <1>2. PICK s \in Request : s = capture[c] /\ RequestOK(c, s)
    BY RequestType
  <1>3. CASE Becomes(c, RefusedFor(s, "RAW_INGESTION_FAILED"))
    <2>1. "RAW_INGESTION_FAILED" \in Refusals /\ s.answer = NoAnswer
      BY <1>1, <1>2 DEF Refusals, RequestOK
    <2> QED
      BY <1>1, <1>2, <1>3, <2>1, RefuseImplements
  <1>4. CASE Becomes(c, [s EXCEPT !.at = "lock", !.attempt = s.attempt + 1, !.status = "NONE",
                                  !.original = 0])
    <2>1. PICK r : r = [s EXCEPT !.at = "lock", !.attempt = s.attempt + 1, !.status = "NONE",
                                 !.original = 0]
      OBVIOUS
    <2>2. r.answer = s.answer /\ r.mode = s.mode /\ r.identity = s.identity /\ r.body = s.body
      BY <2>1 DEF Request
    <2>3. Asked(r) = Asked(s)
      BY <2>2 DEF Asked
    <2> QED
      BY <1>1, <1>2, <1>4, <2>1, <2>2, <2>3, StepUnseen
  <1> QED
    BY <1>2, <1>3, <1>4 DEF Rollback

(* What the log holds of a request that looks its batch up. *)
LEMMA PlacesSeen ==
    ASSUME NEW c \in Captures, NEW q, q.identity = capture[c].identity, q.body = capture[c].body
    PROVE  Log!Places(q) = Existing(c)
  BY DEF Log!Places, Log!Of, Existing

LEMMA ReplayImplements ==
    ASSUME RawInv, NEW c \in Captures, Replay(c)
    PROVE  Log!Next
  <1>1. capture[c].at = "locked" /\ captured' = captured
    BY DEF Replay
  <1>2. PICK s \in Request : s = capture[c] /\ RequestOK(c, s)
    BY RequestType
  <1>3. s.body \in Bodies /\ s.answer = NoAnswer
    BY <1>1, <1>2 DEF RequestOK
  <1>4. PICK q : /\ q = Asked(s) /\ q.identity = s.identity /\ q.body = s.body
                 /\ q # NothingAsked
    BY <1>3, QuestionSeen
  <1>5. PICK n \in Existing(c) : Becomes(c, Ended(s, ReplayAnswer(c, n)))
    BY <1>2 DEF Replay
  <1>6. n \in Nat /\ captured[n].status \in BatchStatuses
    <2>1. n \in 1..Len(captured)
      BY <1>5 DEF Existing
    <2> QED
      BY <2>1, StoredType DEF StoredBatch
  <1>7. PICK a \in Answer : /\ a = ReplayAnswer(c, n) /\ a.outcome # "NONE"
                            /\ a = Log!Replayed(captured[n].status, n)
    <2>1. PICK yes \in BOOLEAN : yes = TRUE
      OBVIOUS
    <2>2. PICK a : a = [outcome |-> "INGESTED", status |-> captured[n].status, replay |-> yes,
                        id |-> n]
      OBVIOUS
    <2>3. a \in Answer /\ a.outcome # "NONE"
      BY <1>6, <2>2 DEF Answer
    <2>4. a = ReplayAnswer(c, n)
      BY <2>1, <2>2 DEF ReplayAnswer
    <2>5. a = Log!Replayed(captured[n].status, n)
      BY <2>1, <2>2 DEF Log!Replayed
    <2> QED
      BY <2>3, <2>4, <2>5
  <1>8. /\ Log!Moves(c) /\ SeenAsked' = SeenAsked
        /\ SeenAnswer' = [SeenAnswer EXCEPT ![c] = a] /\ SeenAnswer[c] = Log!Unanswered
    BY <1>2, <1>3, <1>5, <1>7, AnswerSeen
  <1>9. SeenAsked[c] = q
    BY <1>2, <1>4 DEF SeenAsked
  <1>10. n \in Log!Places(q)
    BY <1>2, <1>4, <1>5, PlacesSeen
  <1>11. \E m \in Log!Places(SeenAsked[c]) :
             SeenAnswer' = [SeenAnswer EXCEPT ![c] = Log!Replayed(captured[m].status, m)]
    BY <1>7, <1>8, <1>9, <1>10
  <1>12. Log!Replay(c)
    <2>1. SeenAsked[c] # NothingAsked
      BY <1>4, <1>9
    <2> QED
      BY <1>1, <1>8, <1>11, <2>1 DEF Log!Replay, Log!Answers, SeenAsked, SeenAnswer
  <1> QED
    BY <1>8, <1>12 DEF Log!Next

(* The first batch of an identity is its original. *)
LEMMA FirstIsOriginal ==
    ASSUME RawInv, NEW i
    PROVE  /\ Log!Of(i) = {} <=> OriginalsOf(i) = {}
           /\ \A n \in OriginalsOf(i) : n = Log!First(i)
  <1>1. PICK of : of = Log!Of(i) /\ of = {n \in 1..Len(captured) : captured[n].identity = i}
    BY DEF Log!Of
  <1>2. OriginalsOf(i) \subseteq of
    BY <1>1 DEF OriginalsOf
  <1>3. of # {} => OriginalsOf(i) # {}
    BY <1>1 DEF RawInv, Begun
  <1>4. ASSUME NEW n \in OriginalsOf(i)
        PROVE  n = Log!First(i)
    <2>1. n \in of /\ n \in Nat
      BY <1>1, <1>2, <1>4 DEF OriginalsOf
    <2>2. \A m \in of : n <= m
      <3> SUFFICES ASSUME NEW m \in of, m < n PROVE FALSE
        BY <1>1, <2>1
      <3>1. m \in 1..Len(captured) /\ n \in 1..Len(captured)
            /\ captured[m].identity = captured[n].identity
        BY <1>1, <2>1
      <3>2. captured[n].status = "CONFLICT"
        BY <3>1 DEF RawInv, OneOriginal
      <3> QED
        BY <1>4, <3>2 DEF OriginalsOf
    <2>3. PICK f : f = CHOOSE x \in of : \A m \in of : x <= m
      OBVIOUS
    <2>4. f \in of /\ \A m \in of : f <= m
      BY <2>1, <2>2, <2>3
    <2>5. f = n
      BY <1>1, <2>1, <2>2, <2>4
    <2>6. Log!First(i) = f
      BY <1>1, <2>1, <2>3 DEF Log!First
    <2> QED
      BY <2>5, <2>6
  <1> QED
    BY <1>1, <1>2, <1>3, <1>4

(* What a request inserts is what the log enters. *)
LEMMA EntrySeen ==
    ASSUME RawInv, NEW s \in Request, s.body \in Bodies, Decided(s),
           NEW q, q.identity = s.identity, q.body = s.body
    PROVE  Log!Entry(q) = [identity |-> s.identity, body |-> s.body, status |-> s.status,
                           conflictsWith |-> s.original, rows |-> Len(s.body.rows)]
  <1>1. /\ [b \in Bodies |-> BatchStatus(b)][q.body] = BatchStatus(s.body)
        /\ [b \in Bodies |-> Len(b.rows)][q.body] = Len(s.body.rows)
    OBVIOUS
  <1>2. PICK status : status = IF Log!Of(q.identity) = {} THEN BatchStatus(s.body) ELSE "CONFLICT"
    OBVIOUS
  <1>3. status = s.status /\ Log!First(q.identity) = s.original
    <2>1. CASE OriginalsOf(s.identity) = {}
      <3>1. Log!Of(q.identity) = {}
        BY <2>1, FirstIsOriginal
      <3>2. Log!First(q.identity) = 0
        BY <3>1 DEF Log!First
      <3> QED
        BY <1>2, <2>1, <3>1, <3>2 DEF Decided
    <2>2. CASE OriginalsOf(s.identity) # {}
      <3>1. Log!Of(q.identity) # {} /\ \A n \in OriginalsOf(s.identity) : n = Log!First(q.identity)
        BY <2>2, FirstIsOriginal
      <3> QED
        BY <1>2, <2>2, <3>1 DEF Decided
    <2> QED
      BY <2>1, <2>2
  <1>4. Log!Entry(q) = [identity |-> q.identity, body |-> q.body, rows |-> Len(s.body.rows),
                        status |-> status, conflictsWith |-> Log!First(q.identity)]
    BY <1>1, <1>2 DEF Log!Entry
  <1> QED
    BY <1>3, <1>4

LEMMA CommitImplements ==
    ASSUME RawInv, NEW c \in Captures, Commit(c)
    PROVE  Log!Next
  <1>1. capture[c].at = "insert" /\ Existing(c) = {}
    BY DEF Commit
  <1>2. PICK s \in Request : s = capture[c] /\ RequestOK(c, s)
    BY RequestType
  <1>3. s.body \in Bodies /\ s.answer = NoAnswer /\ Decided(s)
    BY <1>1, <1>2 DEF RequestOK
  <1>4. PICK q : /\ q = Asked(s) /\ q.identity = s.identity /\ q.body = s.body
                 /\ q # NothingAsked
    BY <1>3, QuestionSeen
  <1>5. SeenAsked[c] = q /\ Log!Places(q) = {}
    BY <1>1, <1>2, <1>4, PlacesSeen DEF SeenAsked
  <1>6. PICK entry : /\ entry = Log!Entry(q) /\ entry.status = s.status
                     /\ captured' = Append(captured, entry)
    <2>1. PICK entry : entry = [identity |-> s.identity, body |-> s.body, status |-> s.status,
                                conflictsWith |-> s.original, rows |-> Len(s.body.rows)]
      OBVIOUS
    <2>2. entry = Log!Entry(q)
      BY <1>3, <1>4, <2>1, EntrySeen
    <2>3. captured' = Append(captured, entry)
      BY <1>2, <2>1 DEF Commit
    <2> QED
      BY <2>1, <2>2, <2>3
  <1>7. /\ Log!Moves(c) /\ SeenAsked' = SeenAsked /\ SeenAnswer[c] = Log!Unanswered
        /\ \E a \in {Log!Ingested(s.status, Len(captured) + 1),
                     Log!Refusal("RAW_INGESTION_FAILED")} :
              SeenAnswer' = [SeenAnswer EXCEPT ![c] = a]
    <2>1. CASE Becomes(c, RefusedFor(s, "RAW_INGESTION_FAILED"))
      <3>1. "RAW_INGESTION_FAILED" \in Refusals
        BY DEF Refusals
      <3> QED
        BY <1>2, <1>3, <2>1, <3>1, RefusalSeen
    <2>2. CASE Becomes(c, Ended(s, [outcome |-> "INGESTED", status |-> s.status, replay |-> FALSE,
                                    id |-> Len(captured) + 1]))
      <3>1. PICK no \in BOOLEAN : no = FALSE
        OBVIOUS
      <3>2. PICK a : a = [outcome |-> "INGESTED", status |-> s.status, replay |-> no,
                          id |-> Len(captured) + 1]
        OBVIOUS
      <3>3. a \in Answer /\ a.outcome # "NONE"
        <4>1. Len(captured) + 1 \in Nat
          BY StoredType
        <4> QED
          BY <3>2, <4>1 DEF Answer, Request
      <3>4. Becomes(c, Ended(s, a))
        BY <2>2, <3>1, <3>2
      <3>5. a = Log!Ingested(s.status, Len(captured) + 1)
        BY <3>1, <3>2 DEF Log!Ingested
      <3> QED
        BY <1>2, <1>3, <3>3, <3>4, <3>5, AnswerSeen
    <2> QED
      BY <1>2, <2>1, <2>2 DEF Commit
  <1>8. Log!Entry(SeenAsked[c]) = entry /\ Log!Places(SeenAsked[c]) = {}
    BY <1>5, <1>6
  <1>9. captured' = Append(captured, Log!Entry(SeenAsked[c]))
    BY <1>6, <1>8
  <1>10. \E a \in {Log!Ingested(Log!Entry(SeenAsked[c]).status, Len(captured) + 1),
                    Log!Refusal("RAW_INGESTION_FAILED")} :
             SeenAnswer' = [SeenAnswer EXCEPT ![c] = a]
    <2>1. s.status = Log!Entry(SeenAsked[c]).status
      BY <1>6, <1>8
    <2> QED
      BY <1>7, <2>1
  <1>11. Log!Store(c)
    <2>1. SeenAsked[c] # NothingAsked
      BY <1>4, <1>5
    <2> QED
      BY <1>7, <1>8, <1>9, <1>10, <2>1 DEF Log!Store, Log!Answers, SeenAsked, SeenAnswer
  <1> QED
    BY <1>7, <1>11 DEF Log!Next

LEMMA RawInitImplements == RawInit => Log!Init
  <1> SUFFICES ASSUME RawInit PROVE Log!Init
    OBVIOUS
  <1>1. \A d \in Captures : capture[d].answer = NoAnswer /\ Asked(capture[d]) = NothingAsked
    <2>1. \A d \in Captures : capture[d] = NewCapture
      BY DEF RawInit
    <2> QED
      BY <2>1, NewCaptureType DEF Asked
  <1>2. SeenAnswer = [d \in Captures |-> NoAnswer] /\ SeenAsked = [d \in Captures |-> NothingAsked]
    BY <1>1 DEF SeenAnswer, SeenAsked
  <1> QED
    BY <1>2, NoAnswerSeen DEF RawInit, Log!Init, SeenAnswer, SeenAsked

LEMMA RawStepImplements == RawInv /\ [RawNext]_rawVars => [Log!Next]_(Log!logged)
  <1> SUFFICES ASSUME RawInv, [RawNext]_rawVars PROVE Log!Next \/ Unseen
    BY DEF Unseen
  <1>1. ASSUME NEW c \in Captures, CaptureStep(c)
        PROVE  Log!Next \/ Unseen
    BY <1>1, AskImplements, NothingUsableImplements, DeliverImplements, LockIdentityImplements,
       ReplayImplements, FindOriginalImplements, CommitImplements, RollbackImplements
       DEF CaptureStep
  <1>2. CASE UNCHANGED rawVars
    BY <1>2 DEF rawVars, Unseen, Log!logged
  <1> QED
    BY <1>1, <1>2 DEF RawNext

(* To whoever asks, captures are one after the other: under the advisory     *)
(* lock, the unique index, rollbacks, retries and lost answers each request  *)
(* stores or finds its batch in one step of a log that only grows, whatever  *)
(* the batches and however many requests (ingestFantasyRawBatch,             *)
(* persistWithinIdentityLock).                                               *)
THEOREM CapturesAreALog == RawSpec => ImplementsCaptureLog
  <1> QED
    BY RawInvInit, RawInvNext, RawInitImplements, RawStepImplements, PTL
       DEF RawSpec, ImplementsCaptureLog, Log!Spec

-----------------------------------------------------------------------------
(* The column contract.                                                      *)

(* The contract as a sequence of different names.                            *)
LEMMA ContractFacts ==
  /\ Contract \in Seq(Names)
  /\ \A h \in Names : \E i \in 1..Len(Contract) : h = Contract[i]
  /\ \A i \in 1..Len(Contract) : Contract[i] \in Names
  /\ LotID \in Names /\ NoName \notin Names
  /\ Len(Contract) \in Nat
<1>1. Contract \in Seq(Names) BY ContractAssumption DEF Names
<1> QED BY <1>1, ContractAssumption DEF Names, ToSet

LEMMA KeysAre ==
  ASSUME NEW headers \in Seq(HeaderCell)
  PROVE  /\ Len(headers) \in Nat /\ DOMAIN ColumnKeys(headers) = 1..Len(headers)
         /\ ToSet(ColumnKeys(headers)) = {ColumnKeys(headers)[c] : c \in 1..Len(headers)}
         /\ \A c \in 1..Len(headers) :
               ColumnKeys(headers)[c] =
                 IF Exact(headers[c]) /\ \A d \in 1..(c - 1) : headers[d] # headers[c]
                 THEN headers[c].name ELSE NoName
  BY DEF ColumnKeys, ToSet

(* A column without remark carries its own name, for the first time. *)
LEMMA NoColumnIssue ==
  ASSUME NEW headers \in Seq(HeaderCell), NEW c \in 1..Len(headers),
         ColumnIssue(headers, c) = {}
  PROVE  /\ headers[c].spelling = "exact" /\ headers[c].name \in Names
         /\ ColumnKeys(headers)[c] = headers[c].name
         /\ \A d \in 1..(c - 1) : headers[d] # headers[c]
<1>1. headers[c] \in HeaderCell OBVIOUS
<1>2. Exact(headers[c]) /\ ColumnKeys(headers)[c] # NoName
  BY DEF ColumnIssue
<1>3. headers[c].spelling = "exact" /\ headers[c].name \in Names
  BY <1>1, <1>2 DEF Exact, HeaderCell
<1> QED BY <1>2, <1>3, KeysAre

LEMMA VerbatimHasNoIssue ==
  ASSUME NEW headers, Verbatim(headers)
  PROVE  HeaderIssues(TRUE, headers) = {}
<1>1. /\ headers \in Seq(HeaderCell) /\ Len(headers) = Len(Contract)
      /\ \A c \in 1..Len(headers) :
            headers[c].name = Contract[c] /\ headers[c].spelling = "exact"
  <2>1. PICK exact \in Spellings : exact = "exact" BY DEF Spellings
  <2>2. headers = [c \in 1..Len(Contract) |-> [name |-> Contract[c], spelling |-> exact]]
    BY <2>1 DEF Verbatim
  <2>3. headers \in Seq(HeaderCell) /\ Len(headers) = Len(Contract)
    BY <2>2, ContractFacts DEF HeaderCell
  <2>4. \A c \in 1..Len(Contract) : headers[c] = [name |-> Contract[c], spelling |-> exact]
    BY <2>2
  <2>5. ASSUME NEW c \in 1..Len(Contract)
        PROVE  headers[c].name = Contract[c] /\ headers[c].spelling = exact
    <3>1. PICK cell, name : name = Contract[c] /\ cell = headers[c] OBVIOUS
    <3>2. cell = [name |-> name, spelling |-> exact] BY <2>4, <3>1
    <3> QED BY <3>1, <3>2
  <2> QED BY <2>1, <2>3, <2>5
<1>2. ASSUME NEW c \in 1..Len(headers)
      PROVE  ColumnKeys(headers)[c] = Contract[c] /\ ColumnIssue(headers, c) = {}
  <2>1. headers[c].name = Contract[c] /\ headers[c].spelling = "exact" /\ Contract[c] \in Names
    BY <1>1, ContractFacts
  <2>2. Exact(headers[c]) BY <2>1, ContractFacts DEF Exact
  <2>3. \A d \in 1..(c - 1) : headers[d] # headers[c]
    <3>1. ASSUME NEW d \in 1..(c - 1) PROVE headers[d] # headers[c]
      <4>1. d \in 1..Len(headers) /\ d # c BY <1>1, ContractFacts
      <4>2. headers[d].name = Contract[d] BY <1>1, <4>1
      <4>3. Contract[d] # Contract[c] BY <1>1, <4>1, ContractAssumption
      <4> QED BY <2>1, <4>2, <4>3
    <3> QED BY <3>1
  <2>4. ColumnKeys(headers)[c] = Contract[c] BY <1>1, <2>1, <2>2, <2>3, KeysAre
  <2> QED BY <2>1, <2>2, <2>4, ContractFacts DEF ColumnIssue
<1>3. MissingHeaders(headers) = {}
  BY <1>1, <1>2, KeysAre, ContractFacts DEF MissingHeaders
<1>4. OrderIssue(headers) = {} BY <1>1, <1>2 DEF OrderIssue
<1> QED BY <1>2, <1>3, <1>4 DEF HeaderIssues

(* Without a remark no column is foreign, repeated, missing or misplaced: the*)
(* keys cover the contract, so there are as many columns as it has names.    *)
LEMMA NoIssueIsVerbatim ==
  ASSUME NEW headers \in Seq(HeaderCell), HeaderIssues(TRUE, headers) = {}
  PROVE  Verbatim(headers)
<1>1. /\ \A c \in 1..Len(headers) : ColumnIssue(headers, c) = {}
      /\ MissingHeaders(headers) = {} /\ OrderIssue(headers) = {}
  <2>1. \A h \in MissingHeaders(headers) : FALSE BY DEF HeaderIssues
  <2>2. ASSUME NEW c \in 1..Len(headers) PROVE ColumnIssue(headers, c) = {}
    BY DEF HeaderIssues
  <2> QED BY <2>1, <2>2 DEF HeaderIssues
<1>2. \A c \in 1..Len(headers) :
         /\ headers[c].spelling = "exact" /\ headers[c].name \in Names
         /\ ColumnKeys(headers)[c] = headers[c].name
         /\ \A d \in 1..(c - 1) : headers[d] # headers[c]
  BY <1>1, NoColumnIssue
<1>3. \A i \in 1..Len(Contract) : ColumnKeys(headers)[i] = Contract[i]
  BY <1>1 DEF OrderIssue
<1>4. Len(Contract) <= Len(headers)
  <2> DEFINE at(i) == CHOOSE c \in 1..Len(headers) : ColumnKeys(headers)[c] = Contract[i]
             f == [i \in 1..Len(Contract) |-> at(i)]
  <2>1. ASSUME NEW i \in 1..Len(Contract)
        PROVE  at(i) \in 1..Len(headers) /\ ColumnKeys(headers)[at(i)] = Contract[i]
    <3>1. Contract[i] \in ToSet(ColumnKeys(headers))
      BY <1>1, ContractFacts DEF MissingHeaders
    <3>2. \E c \in 1..Len(headers) : ColumnKeys(headers)[c] = Contract[i] BY <3>1, KeysAre
    <3> QED BY <3>2
  <2> HIDE DEF at
  <2>2. f \in Injection(1..Len(Contract), 1..Len(headers))
    BY <2>1, ContractAssumption DEF Injection, IsInjective
  <2> HIDE DEF f
  <2>3. /\ IsFiniteSet(1..Len(headers)) /\ Cardinality(1..Len(headers)) = Len(headers)
        /\ Cardinality(1..Len(Contract)) = Len(Contract)
    <3>1. PICK m \in Nat, n \in Nat : m = Len(Contract) /\ n = Len(headers)
      BY ContractFacts, KeysAre
    <3>2. /\ IsFiniteSet(1..n) /\ Cardinality(1..n) = IF 1 > n THEN 0 ELSE n - 1 + 1
          /\ Cardinality(1..m) = IF 1 > m THEN 0 ELSE m - 1 + 1
      BY FS_Interval
    <3> QED BY <3>1, <3>2
  <2>4. Cardinality(1..Len(Contract)) <= Cardinality(1..Len(headers))
    BY <2>2, <2>3, FS_Injection
  <2> QED BY <2>3, <2>4
<1>5. Len(headers) <= Len(Contract)
  <2> SUFFICES ASSUME ~(Len(headers) <= Len(Contract)) PROVE FALSE OBVIOUS
  <2>1. Len(Contract) < Len(headers) BY ContractFacts, KeysAre
  <2>2. PICK c \in 1..Len(headers) : c = Len(headers) BY <2>1, ContractFacts, KeysAre
  <2>3. PICK d \in 1..Len(Contract) : headers[c].name = Contract[d] BY <1>2, ContractFacts
  <2>4. d \in 1..Len(headers) /\ d \in 1..(c - 1)
    <3>1. PICK m \in Nat, n \in Nat : m = Len(Contract) /\ n = Len(headers)
      BY ContractFacts, KeysAre
    <3> QED BY <2>1, <2>2, <3>1
  <2>5. headers[d].name = headers[c].name /\ headers[d].spelling = headers[c].spelling
    BY <1>2, <1>3, <2>3, <2>4
  <2>6. headers[d] \in HeaderCell /\ headers[c] \in HeaderCell BY <2>4
  <2>7. headers[d] = headers[c] BY <2>5, <2>6 DEF HeaderCell
  <2> QED BY <1>2, <2>4, <2>7
<1>6. PICK exact : exact = "exact" OBVIOUS
<1>7. Len(headers) = Len(Contract) BY <1>4, <1>5, ContractFacts, KeysAre
<1>8. ASSUME NEW c \in 1..Len(Contract)
      PROVE  headers[c] = [name |-> Contract[c], spelling |-> exact]
  <2>1. headers[c].name = Contract[c] /\ headers[c].spelling = exact BY <1>2, <1>3, <1>6, <1>7
  <2>2. headers[c] \in HeaderCell BY <1>7
  <2> QED BY <2>1, <2>2 DEF HeaderCell
<1>9. headers = [c \in 1..Len(Contract) |-> headers[c]] BY <1>7
<1>10. headers = [c \in 1..Len(Contract) |-> [name |-> Contract[c], spelling |-> exact]]
  BY <1>8, <1>9
<1> QED BY <1>6, <1>10 DEF Verbatim

(* Headers pass without remark exactly when they are the contract. *)
LEMMA CleanHeaders ==
  ASSUME NEW supported \in BOOLEAN, NEW headers \in Seq(HeaderCell)
  PROVE  HeaderIssues(supported, headers) = {} <=> supported /\ Verbatim(headers)
<1>1. CASE ~supported BY <1>1 DEF HeaderIssues
<1>2. CASE supported
  <2>1. HeaderIssues(supported, headers) = HeaderIssues(TRUE, headers)
    BY <1>2 DEF HeaderIssues
  <2> QED BY <1>2, <2>1, VerbatimHasNoIssue, NoIssueIsVerbatim
<1> QED BY <1>1, <1>2

(* Every remark is fatal or drift: none is passed over. *)
LEMMA EveryCodeIsJudged ==
  ASSUME NEW supported, NEW headers
  PROVE  HeaderIssues(supported, headers) \subseteq FatalCodes \cup DriftCodes
<1>1. ASSUME NEW c PROVE ColumnIssue(headers, c) \subseteq FatalCodes \cup DriftCodes
  BY DEF ColumnIssue, FatalCodes, DriftCodes
<1>2. OrderIssue(headers) \subseteq FatalCodes \cup DriftCodes
  BY DEF OrderIssue, DriftCodes
<1>3. {"MISSING_IDENTITY_HEADER", "MISSING_HEADER", "UNSUPPORTED_CONTRACT_VERSION"}
        \subseteq FatalCodes \cup DriftCodes
  BY DEF FatalCodes, DriftCodes
<1> QED BY <1>1, <1>2, <1>3 DEF HeaderIssues

(* A row without remark has the right length, no unsupported value and a Lot ID. *)
LEMMA CleanRow ==
  ASSUME NEW headers, NEW row
  PROVE  LET issues == RowIssues(row, headers)
         IN issues \cap (FatalCodes \cup DriftCodes) = {} <=>
               /\ LengthIssue(row, headers) = {}
               /\ \A k \in Names : Assigned(row, headers, k) # "unsupported"
               /\ Assigned(row, headers, LotID) = "text"
<1>1. LengthIssue(row, headers) \subseteq DriftCodes
  BY DEF LengthIssue, DriftCodes
<1>2. "UNSUPPORTED_VALUE_TYPE" \in FatalCodes /\ "MISSING_IDENTITY_VALUE" \in FatalCodes
  BY DEF FatalCodes
<1> QED BY <1>1, <1>2 DEF RowIssues

(* What a key is assigned is in the row, or missing. *)
LEMMA AssignedFromCells ==
  ASSUME NEW headers \in Seq(HeaderCell), NEW row,
         row.form = "POSITIONAL" => row.cells \in Seq(Values),
         NEW k \in Names, Assigned(row, headers, k) = "unsupported",
         row.form \in {"KEYED", "POSITIONAL"}
  PROVE  "unsupported" \in Cells(row)
<1>1. CASE row.form = "KEYED" BY <1>1 DEF Assigned, Cells
<1>2. CASE row.form = "POSITIONAL"
  <2> DEFINE at == {c \in 1..Len(headers) : c <= Len(row.cells) /\ ColumnKeys(headers)[c] = k}
  <2>1. at # {} /\ row.cells[CHOOSE c \in at : TRUE] = "unsupported"
    BY <1>2 DEF Assigned
  <2>2. PICK c \in at : row.cells[c] = "unsupported" BY <2>1
  <2>3. row.cells \in Seq(Values) /\ c \in 1..Len(row.cells)
    BY <1>2, <2>2
  <2> QED BY <1>2, <2>2, <2>3 DEF Cells, ToSet
<1> QED BY <1>1, <1>2

LEMMA AcceptedRow ==
  ASSUME NEW batch, Delivered(batch), NEW row,
         row.form \in {"KEYED", "POSITIONAL"},
         row.form = "POSITIONAL" => row.cells \in Seq(Values)
  PROVE  RowOutcome(batch, row) = "ACCEPTED_RAW" <=> RowVerbatim(batch, row)
<1>1. PICK headers : headers = batch.headers OBVIOUS
<1>2. PICK head, issues : /\ head = HeaderIssues(batch.supported, headers)
                          /\ issues = RowIssues(row, headers)
  OBVIOUS
<1>3. /\ headers \in Seq(HeaderCell) /\ head \subseteq FatalCodes \cup DriftCodes
      /\ head = {} <=> batch.supported /\ Verbatim(headers)
  BY <1>1, <1>2, CleanHeaders, EveryCodeIsJudged DEF Delivered
<1>4. RowOutcome(batch, row) = "ACCEPTED_RAW" <=>
         /\ head \cap FatalCodes = {} /\ issues \cap FatalCodes = {}
         /\ "unsupported" \notin Cells(row)
         /\ (issues \cup head) \cap DriftCodes = {}
  BY <1>1, <1>2 DEF RowOutcome, HeaderOk, QuarantineCodes
<1>5. RowOutcome(batch, row) = "ACCEPTED_RAW" <=>
         /\ head = {} /\ issues \cap (FatalCodes \cup DriftCodes) = {}
         /\ "unsupported" \notin Cells(row)
  BY <1>3, <1>4
<1>6. RowOutcome(batch, row) = "ACCEPTED_RAW" <=>
         /\ batch.supported /\ Verbatim(headers)
         /\ "unsupported" \notin Cells(row)
         /\ LengthIssue(row, headers) = {}
         /\ \A k \in Names : Assigned(row, headers, k) # "unsupported"
         /\ Assigned(row, headers, LotID) = "text"
  BY <1>2, <1>3, <1>5, CleanRow
<1>7. "unsupported" \notin Cells(row) => \A k \in Names : Assigned(row, headers, k) # "unsupported"
  BY <1>3, AssignedFromCells
<1>8. Verbatim(headers) =>
         (LengthIssue(row, headers) = {} <=>
            (row.form = "POSITIONAL" => Len(row.cells) = Len(Contract)))
  <2>1. ASSUME Verbatim(headers) PROVE Len(headers) = Len(Contract)
    BY <2>1, ContractFacts DEF Verbatim
  <2> QED BY <2>1 DEF LengthIssue
<1> QED BY <1>1, <1>6, <1>7, <1>8 DEF RowVerbatim

LEMMA AcceptedBatch ==
  ASSUME NEW batch, Delivered(batch), NEW result, result = Prepared(batch)
  PROVE  result.status = "ACCEPTED" <=> BatchVerbatim(result)
<1>1. PICK head, headers : /\ headers = batch.headers
                           /\ head = HeaderIssues(batch.supported, headers)
  OBVIOUS
<1>2. /\ head \subseteq FatalCodes \cup DriftCodes
      /\ head = {} <=> batch.supported /\ Verbatim(headers)
  BY <1>1, CleanHeaders, EveryCodeIsJudged DEF Delivered
<1>3. Outcomes(batch) \subseteq {"REJECTED_STRUCTURE", "QUARANTINED", "ACCEPTED_RAW"}
  BY DEF Outcomes, RowOutcome
<1>4. BatchStatus(batch) = "ACCEPTED" <=>
         /\ head \cap FatalCodes = {} /\ head \cap DriftCodes = {}
         /\ Outcomes(batch) \cap {"QUARANTINED", "REJECTED_STRUCTURE"} = {}
  BY <1>1 DEF BatchStatus, HeaderOk
<1>5. Outcomes(batch) \cap {"QUARANTINED", "REJECTED_STRUCTURE"} = {} <=>
         \A i \in 1..Len(batch.rows) : RowOutcome(batch, batch.rows[i]) = "ACCEPTED_RAW"
  BY <1>3 DEF Outcomes
<1>6. /\ result.batch = batch /\ result.status = BatchStatus(batch)
      /\ \A i \in 1..Len(batch.rows) : result.outcomes[i] = RowOutcome(batch, batch.rows[i])
  BY DEF Prepared
<1> QED BY <1>1, <1>2, <1>4, <1>5, <1>6 DEF BatchVerbatim

(* prepareBatch: rows and batches without remark are exactly those that map  *)
(* one to one to the column contract, for any contract and any deliveries.   *)
THEOREM OnlyVerbatimIsAccepted == PrepareSpec => []AcceptedIsVerbatim
<1>1. ASSUME NEW batch \in Deliveries, NEW result, result = Prepared(batch)
      PROVE  /\ \A i \in 1..Len(result.batch.rows) :
                    result.outcomes[i] = "ACCEPTED_RAW"
                       <=> RowVerbatim(result.batch, result.batch.rows[i])
             /\ result.status = "ACCEPTED" <=> BatchVerbatim(result)
  <2>1. Delivered(batch)
    BY DeliveriesAssumption
  <2>2. /\ result.batch = batch
        /\ \A i \in 1..Len(batch.rows) :
              result.outcomes[i] = RowOutcome(batch, batch.rows[i])
    BY <1>1 DEF Prepared
  <2>3. \A i \in 1..Len(batch.rows) :
           RowOutcome(batch, batch.rows[i]) = "ACCEPTED_RAW" <=> RowVerbatim(batch, batch.rows[i])
    BY <2>1, AcceptedRow DEF Delivered
  <2> QED BY <1>1, <2>1, <2>2, <2>3, AcceptedBatch
<1>2. PrepareInit => AcceptedIsVerbatim
  BY DEF PrepareInit, AcceptedIsVerbatim
<1>3. AcceptedIsVerbatim /\ [Prepare]_prepared => AcceptedIsVerbatim'
  <2> SUFFICES ASSUME AcceptedIsVerbatim, [Prepare]_prepared PROVE AcceptedIsVerbatim'
    OBVIOUS
  <2>1. CASE Prepare
    <3>1. PICK batch \in Deliveries : prepared' = {Prepared(batch)}
      BY <2>1 DEF Prepare
    <3>2. \A result \in prepared' : result = Prepared(batch)
      BY <3>1
    <3> QED BY <1>1, <3>2 DEF AcceptedIsVerbatim
  <2>2. CASE UNCHANGED prepared
    BY <2>2 DEF AcceptedIsVerbatim
  <2> QED BY <2>1, <2>2
<1> QED BY <1>2, <1>3, PTL DEF PrepareSpec
=============================================================================
