-------------------------- MODULE FantasyScheduler --------------------------
(***************************************************************************)
(* The scheduler of the live import (scheduler.ts, started by              *)
(* instrumentation.ts): a state object per start, with a timer and a flag  *)
(* that says whether its import is in flight.  A tick is the callback of a *)
(* fired timer: it runs the import and arms the next timer when that ends. *)
(*                                                                         *)
(* Delays are the exponent of two that nextDelayMs multiplies the interval *)
(* by; consecutiveFailures is counted up to MaxExponent, which is all the  *)
(* delay reads of it.                                                      *)
(***************************************************************************)
EXTENDS Naturals

CONSTANTS Objects,      \* SchedulerState objects, one per start
          NoObject,
          MaxExponent   \* the 5 of nextDelayMs

ASSUME NoObjectAssumption == NoObject \notin Objects
ASSUME MaxExponentAssumption == MaxExponent \in Nat

VARIABLES scheduler,    \* globalThis.__fantasySyncScheduler
          object        \* what each SchedulerState holds

schedulerVars == <<scheduler, object>>

Unarmed == MaxExponent + 1
NewObject == [running |-> FALSE, timer |-> Unarmed, inFlight |-> FALSE, failures |-> 0]
Object == [running: BOOLEAN, timer: 0..Unarmed, inFlight: BOOLEAN, failures: 0..MaxExponent]

Made(o) == object[o] # NewObject
Armed(o) == object[o].timer # Unarmed

SchedulerInit ==
    /\ scheduler = NoObject
    /\ object = [o \in Objects |-> NewObject]

(* startFantasySyncScheduler with the integration enabled: a running         *)
(* scheduler stays, a stopped one is replaced by a new object.               *)
StartScheduler ==
    /\ scheduler # NoObject => ~object[scheduler].running
    /\ \E o \in Objects :
          /\ ~Made(o)
          /\ scheduler' = o
          /\ object' = [object EXCEPT ![o].running = TRUE, ![o].timer = 0]

StopScheduler ==
    /\ scheduler # NoObject
    /\ object[scheduler].running
    /\ object' = [object EXCEPT ![scheduler].timer = Unarmed, ![scheduler].running = FALSE]
    /\ UNCHANGED scheduler

(* The timer fires: the tick gives up, or starts an import. *)
Tick(o) ==
    /\ Armed(o)
    /\ object' = [object EXCEPT ![o].timer = Unarmed,
                                ![o].inFlight = @ \/ object[o].running]
    /\ UNCHANGED scheduler

(* nextDelayMs, as the power of two. *)
Delay(failures) == IF failures < MaxExponent THEN failures ELSE MaxExponent

FailuresAfter(failures, status) ==
    CASE status = "SUCCESS" -> 0
      [] status \in {"LOCKED", "SKIPPED"} -> failures
      [] status = "FAILED" -> Delay(failures + 1)

(* Mutant of TimerAfter: the next timer is armed when the import succeeds.   *)
TimerAfterSuccess(o, status) ==
    IF object[o].running /\ status = "SUCCESS" THEN 0 ELSE object[o].timer

(* Mutant of TimerAfter: schedule does not look at running.                  *)
TimerAfterAlways(o, status) == Delay(FailuresAfter(object[o].failures, status))

(* schedule: nothing once the object was stopped.                            *)
TimerAfter(o, status) ==
    IF object[o].running THEN Delay(FailuresAfter(object[o].failures, status))
                         ELSE object[o].timer

(* The import of a tick answers or throws (SKIPPED); the finally clause.     *)
Finish(o) ==
    /\ object[o].inFlight
    /\ \E status \in {"SUCCESS", "LOCKED", "SKIPPED", "FAILED"} :
          object' = [object EXCEPT ![o].inFlight = FALSE,
                                   ![o].failures = FailuresAfter(@, status),
                                   ![o].timer = TimerAfter(o, status)]
    /\ UNCHANGED scheduler

(* The process restarts: objects, timers and imports are gone. *)
RestartProcess ==
    /\ scheduler # NoObject
    /\ scheduler' = NoObject
    /\ object' = [o \in Objects |-> NewObject]

SchedulerNext ==
    \/ StartScheduler \/ StopScheduler \/ RestartProcess
    \/ \E o \in Objects : Tick(o) \/ Finish(o)

(* A timer fires, and an import ends: its fetch is bounded in time (timeoutMs)
   and in attempts (maxRetries), and so are its transactions.                *)
SchedulerFairness == \A o \in Objects : WF_schedulerVars(Tick(o)) /\ WF_schedulerVars(Finish(o))

SchedulerSpec == SchedulerInit /\ [][SchedulerNext]_schedulerVars /\ SchedulerFairness
-----------------------------------------------------------------------------
SchedulerTypeOK ==
    /\ scheduler \in Objects \cup {NoObject}
    /\ object \in [Objects -> Object]

(* At most one timer is armed, that of the running scheduler, and never      *)
(* while an import of the same object is in flight: a tick that fired then   *)
(* would return without arming the next one, and its run would end the       *)
(* schedule (tick, schedule and the two entry points together).              *)
OneTimer ==
    \A o \in Objects : Armed(o) => o = scheduler /\ object[o].running /\ ~object[o].inFlight

(* A scheduler that is never stopped imports again and again, whatever its   *)
(* imports answer (tick's finally clause).                                   *)
SchedulerKeepsImporting ==
    \A o \in Objects : []<>(object[o].inFlight \/ ~object[o].running)
=============================================================================
