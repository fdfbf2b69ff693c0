-------------------------- MODULE LiveImport_proofs --------------------------
(***************************************************************************)
(* Proofs about the live import, for any number of lots, requests and      *)
(* contents, any guard and any batch size.                                 *)
(*                                                                         *)
(* The lock keeps imports apart as long as it is not taken over, because a *)
(* running import then holds it.  What an import writes lands because it   *)
(* is alone: every lot it delivered is still to do, in its batch with the  *)
(* content that was read, or in the table with the time of its snapshot,   *)
(* which is later than that of every lot it did not deliver.               *)
(***************************************************************************)
EXTENDS LiveImport, FiniteSetTheorems, TLAPS

Excl == \A v, w \in Busy : w \notin overlapped => v = w

Held ==
    ~takeovers => /\ \A v, w \in Busy : v = w
                  /\ Busy # {} => lock.held

Past ==
    /\ \A l \in Lots : lot[l].seen <= now
    /\ \A w \in Requests : work[w].seenAt <= now

Shape(w) ==
    /\ pc[w] \in {"start", "open", "fetch", "count", "read", "mark", "close"} => work[w].batch = {}
    /\ pc[w] = "count" => work[w].todo = Delivered(w)
    /\ pc[w] \in {"mark", "close"} => work[w].todo = {}
    /\ pc[w] \in {"read", "write"} => /\ work[w].todo \subseteq Delivered(w)
                                      /\ work[w].batch \subseteq Delivered(w)

Landed(w, l) ==
    /\ lot[l].active
    /\ lot[l].content = work[w].snapshot[l]
    /\ lot[l].seen = work[w].seenAt

Fetched == {"count", "read", "write", "mark", "close"}

Progress(w) ==
    pc[w] \in Fetched =>
        \A l \in Lots :
            /\ l \in Delivered(w) /\ l \notin work[w].todo /\ l \notin work[w].batch => Landed(w, l)
            /\ l \notin Delivered(w) => lot[l].seen < work[w].seenAt
            /\ pc[w] = "write" /\ l \in work[w].batch => work[w].read[l] = lot[l].content

RequestOK(w) == Shape(w) /\ (w \notin overlapped => Progress(w))

Locking == TypeOK /\ Excl /\ Held

IInv ==
    /\ Locking
    /\ Past
    /\ \A w \in Requests : RequestOK(w)
-----------------------------------------------------------------------------
LEMMA NoWorkType == NoWork \in Work
  BY DEF NoWork, Work, NoRows, Snapshot, RowContents

LEMMA InitTypeOK == Init => TypeOK
  <1> SUFFICES ASSUME Init PROVE TypeOK
    OBVIOUS
  <1>1. lot \in [Lots -> Lot]
    BY DEF Init, Lot
  <1>2. work \in [Requests -> Work]
    BY NoWorkType DEF Init
  <1> QED
    BY <1>1, <1>2 DEF Init, TypeOK, Running, Stopped, RunStatuses

(* What a request remembers is of the right type when the record is. *)
LEMMA WorkType ==
    ASSUME TypeOK, NEW w \in Requests, NEW r \in Work, work' = [work EXCEPT ![w] = r]
    PROVE  work' \in [Requests -> Work]
  BY DEF TypeOK

LEMMA PcType ==
    ASSUME TypeOK, NEW w \in Requests, NEW s \in Running \cup Stopped, Goto(w, s)
    PROVE  pc' \in [Requests -> Running \cup Stopped]
  BY DEF TypeOK, Goto

LEMMA AcquireType == ASSUME TypeOK, NEW w \in Requests, Acquire(w) PROVE TypeOK'
  <1>1. pc' \in [Requests -> Running \cup Stopped]
    BY PcType DEF Acquire, Running
  <1>2. overlapped' \subseteq Requests
    BY DEF Acquire, TypeOK, Busy
  <1> QED
    BY <1>1, <1>2 DEF Acquire, TypeOK

LEMMA EndsType ==
    ASSUME TypeOK, NEW w \in Requests, NEW s \in Running \cup Stopped, Ends(w, s)
    PROVE  pc' \in [Requests -> Running \cup Stopped] /\ work' \in [Requests -> Work]
  BY PcType, WorkType, NoWorkType DEF Ends

LEMMA RefusedType == ASSUME TypeOK, NEW w \in Requests, Refused(w) PROVE TypeOK'
  <1>1. pc' \in [Requests -> Running \cup Stopped] /\ work' \in [Requests -> Work]
    BY EndsType DEF Refused, Stopped
  <1> QED
    BY <1>1 DEF Refused, TypeOK

LEMMA OpenRunType == ASSUME TypeOK, NEW w \in Requests, OpenRun(w) PROVE TypeOK'
  <1>1. pc' \in [Requests -> Running \cup Stopped]
    BY PcType DEF OpenRun, Running
  <1> QED
    BY <1>1 DEF OpenRun, TypeOK, RunStatuses

LEMMA OpenThrowsType == ASSUME TypeOK, NEW w \in Requests, OpenThrows(w) PROVE TypeOK'
  <1>1. pc' \in [Requests -> Running \cup Stopped] /\ work' \in [Requests -> Work]
    BY EndsType DEF OpenThrows, Stopped
  <1> QED
    BY <1>1 DEF OpenThrows, TypeOK

LEMMA FetchType == ASSUME TypeOK, NEW w \in Requests, Fetch(w) PROVE TypeOK'
  <1>1. PICK s \in Snapshot, bad \in BOOLEAN :
            Remembers(w, "count", [work[w] EXCEPT !.snapshot = s, !.rejected = bad,
                                      !.seenAt = now + 1, !.todo = {l \in Lots : s[l] # NoContent}])
    BY DEF Fetch
  <1>2. now' = now + 1
    BY DEF Fetch
  <1>3. work[w] \in Work /\ now + 1 \in Nat
    BY DEF TypeOK
  <1>4. [work[w] EXCEPT !.snapshot = s, !.rejected = bad, !.seenAt = now + 1,
                        !.todo = {l \in Lots : s[l] # NoContent}] \in Work
    BY <1>3 DEF Work
  <1>5. work' \in [Requests -> Work]
    BY <1>1, <1>4, WorkType DEF Remembers
  <1>6. pc' \in [Requests -> Running \cup Stopped]
    BY <1>1, PcType DEF Remembers, Running
  <1> QED
    BY <1>1, <1>2, <1>3, <1>5, <1>6 DEF Remembers, TypeOK

LEMMA CountActiveType == ASSUME TypeOK, NEW w \in Requests, CountActive(w) PROVE TypeOK'
  <1>1. work[w] \in Work
    BY DEF TypeOK
  <1>2. Cardinality(ActiveLots) \in Nat
    BY FS_CardinalityType, FS_Subset, LotsAssumption DEF ActiveLots
  <1>3. [work[w] EXCEPT !.activeBefore = Cardinality(ActiveLots)] \in Work
    BY <1>1, <1>2 DEF Work
  <1>4. work' \in [Requests -> Work]
    BY <1>3, WorkType DEF CountActive, Remembers
  <1>5. pc' \in [Requests -> Running \cup Stopped]
    BY PcType DEF CountActive, Remembers, Running
  <1> QED
    BY <1>4, <1>5 DEF CountActive, Remembers, TypeOK

LEMMA ReadBatchType == ASSUME TypeOK, NEW w \in Requests, ReadBatch(w) PROVE TypeOK'
  <1>1. PICK b \in BatchesOf(work[w].todo) :
            Remembers(w, "write",
                [work[w] EXCEPT !.batch = b, !.todo = work[w].todo \ b,
                                !.read = [l \in Lots |-> IF l \in b THEN lot[l].content
                                                                    ELSE NoContent]])
    BY DEF ReadBatch
  <1>2. work[w] \in Work
    BY DEF TypeOK
  <1>3. b \subseteq work[w].todo /\ work[w].todo \subseteq Lots
    BY <1>1, <1>2 DEF BatchesOf, Work
  <1>4. [l \in Lots |-> IF l \in b THEN lot[l].content ELSE NoContent] \in Snapshot
    BY DEF TypeOK, Lot, Snapshot, RowContents
  <1>5. [work[w] EXCEPT !.batch = b, !.todo = work[w].todo \ b,
                        !.read = [l \in Lots |-> IF l \in b THEN lot[l].content ELSE NoContent]]
            \in Work
    BY <1>2, <1>3, <1>4 DEF Work
  <1>6. work' \in [Requests -> Work]
    BY <1>1, <1>5, WorkType DEF Remembers
  <1>7. pc' \in [Requests -> Running \cup Stopped]
    BY <1>1, PcType DEF Remembers, Running
  <1> QED
    BY <1>1, <1>6, <1>7 DEF ReadBatch, Remembers, TypeOK

LEMMA RowAfterType ==
    ASSUME TypeOK, NEW w \in Requests, NEW l \in Lots
    PROVE  RowAfter(w, l) \in Lot
  <1>1. work[w] \in Work /\ lot[l] \in Lot
    BY DEF TypeOK
  <1>2. work[w].snapshot[l] \in RowContents /\ work[w].seenAt \in Nat
    BY <1>1 DEF Work, Snapshot
  <1> QED
    BY <1>1, <1>2 DEF RowAfter, Lot

LEMMA WriteBatchType == ASSUME TypeOK, NEW w \in Requests, WriteBatch(w) PROVE TypeOK'
  <1>1. work[w] \in Work
    BY DEF TypeOK
  <1> DEFINE k == {l \in work[w].batch : work[w].read[l] # NoContent}
             n == work[w].known + Cardinality(k)
  <1>2. IsFiniteSet(k)
    BY <1>1, FS_Subset, LotsAssumption DEF Work
  <1>3. n \in Nat
    BY <1>1, <1>2, FS_CardinalityType DEF Work
  <1>4. NoRows \in Snapshot
    BY DEF NoRows, Snapshot, RowContents
  <1>5. work' = [work EXCEPT ![w].known = n, ![w].batch = {}, ![w].read = NoRows]
    BY DEF WriteBatch
  <1> HIDE DEF n
  <1>6. [work[w] EXCEPT !.known = n, !.batch = {}, !.read = NoRows] \in Work
    BY <1>1, <1>3, <1>4 DEF Work
  <1>7. work' = [work EXCEPT ![w] = [work[w] EXCEPT !.known = n, !.batch = {}, !.read = NoRows]]
    BY <1>5 DEF TypeOK
  <1>8. work' \in [Requests -> Work]
    BY <1>6, <1>7, WorkType
  <1>9. lot' \in [Lots -> Lot]
    BY RowAfterType DEF WriteBatch, TypeOK
  <1>10. pc' \in [Requests -> Running \cup Stopped]
    BY PcType DEF WriteBatch, Running
  <1> QED
    BY <1>8, <1>9, <1>10 DEF WriteBatch, TypeOK

LEMMA MarkStaleType == ASSUME TypeOK, NEW w \in Requests, MarkStale(w) PROVE TypeOK'
  <1>1. \A l \in Lots : lot[l] \in Lot /\ [lot[l] EXCEPT !.active = FALSE] \in Lot
    BY DEF TypeOK, Lot
  <1>2. lot' \in [Lots -> Lot]
    BY <1>1 DEF MarkStale
  <1>3. pc' \in [Requests -> Running \cup Stopped]
    BY PcType DEF MarkStale, Running
  <1> QED
    BY <1>2, <1>3 DEF MarkStale, TypeOK

LEMMA CloseRunType == ASSUME TypeOK, NEW w \in Requests, CloseRun(w) PROVE TypeOK'
  <1>1. pc' \in [Requests -> Running \cup Stopped] /\ work' \in [Requests -> Work]
    BY EndsType DEF CloseRun, Running
  <1> QED
    BY <1>1 DEF CloseRun, TypeOK, RunStatuses

LEMMA ThrowsType == ASSUME TypeOK, NEW w \in Requests, Throws(w) PROVE TypeOK'
  <1>1. pc' \in [Requests -> Running \cup Stopped] /\ work' \in [Requests -> Work]
    BY EndsType DEF Throws, Running
  <1> QED
    BY <1>1 DEF Throws, TypeOK

LEMMA RecordFailureType == ASSUME TypeOK, NEW w \in Requests, RecordFailure(w) PROVE TypeOK'
  <1>1. pc' \in [Requests -> Running \cup Stopped] /\ work' \in [Requests -> Work]
    BY EndsType DEF RecordFailure, Running
  <1> QED
    BY <1>1 DEF RecordFailure, TypeOK, RunStatuses

LEMMA ReleaseType == ASSUME TypeOK, NEW w \in Requests, Release(w) PROVE TypeOK'
  <1>1. pc' \in [Requests -> Running \cup Stopped] /\ work' \in [Requests -> Work]
    BY EndsType DEF Release, Stopped
  <1>2. lock' = lock \/ lock' = [held |-> FALSE, aged |-> FALSE]
    BY DEF Release
  <1>3. lock' \in [held: BOOLEAN, aged: BOOLEAN]
    <2>1. [held |-> FALSE, aged |-> FALSE] \in [held: BOOLEAN, aged: BOOLEAN]
      OBVIOUS
    <2>2. lock \in [held: BOOLEAN, aged: BOOLEAN]
      BY DEF TypeOK
    <2> QED
      BY <1>2, <2>1, <2>2, Zenon
  <1>4. UNCHANGED <<lot, run, now, overlapped, takeovers>>
    BY DEF Release
  <1> QED
    BY <1>1, <1>3, <1>4 DEF TypeOK

LEMMA CrashType == ASSUME TypeOK, NEW w \in Requests, Crash(w) PROVE TypeOK'
  <1>1. pc' \in [Requests -> Running \cup Stopped] /\ work' \in [Requests -> Work]
    BY EndsType DEF Crash, Stopped
  <1> QED
    BY <1>1 DEF Crash, TypeOK

LEMMA NextTypeOK == TypeOK /\ [Next]_vars => TypeOK'
  <1> SUFFICES ASSUME TypeOK, [Next]_vars PROVE TypeOK'
    OBVIOUS
  <1>1. ASSUME NEW w \in Requests, Step(w) PROVE TypeOK'
    BY <1>1, AcquireType, RefusedType, OpenRunType, OpenThrowsType, FetchType, CountActiveType,
       ReadBatchType, WriteBatchType, MarkStaleType, CloseRunType, ThrowsType,
       RecordFailureType, ReleaseType, CrashType DEF Step
  <1>2. CASE LockAges
    BY <1>2 DEF LockAges, TypeOK
  <1>3. CASE UNCHANGED vars
    BY <1>3 DEF vars, TypeOK
  <1> QED
    BY <1>1, <1>2, <1>3 DEF Next

(* Every variable keeps its type, in every run of the import.                *)
THEOREM TypeCorrect == Spec => []TypeOK
  BY InitTypeOK, NextTypeOK, PTL DEF Spec
-----------------------------------------------------------------------------
(* The lock.                                                                 *)

LEMMA BusyGoes ==
    ASSUME TypeOK, NEW w \in Requests, NEW s \in Running \cup Stopped, Goto(w, s),
           pc[w] \in Running
    PROVE  Busy' \subseteq Busy /\ w \in Busy /\ (s \notin Running => w \notin Busy')
  BY DEF TypeOK, Goto, Busy

(* An import that takes a step, keeping the lock or ending. *)
LEMMA LockFrame ==
    ASSUME Excl, Held, NEW w \in Busy, Busy' \subseteq Busy, overlapped' = overlapped,
           takeovers' = takeovers, lock' = lock \/ w \notin Busy'
    PROVE  Excl' /\ Held'
  <1>1. Excl'
    BY DEF Excl
  <1>2. ASSUME ~takeovers PROVE \A u, v \in Busy' : u = v
    BY <1>2 DEF Held
  <1>3. ASSUME ~takeovers, Busy' # {} PROVE lock'.held
    <2>1. w \in Busy'
      BY <1>3 DEF Held
    <2> QED
      BY <1>3, <2>1 DEF Held
  <1> QED
    BY <1>1, <1>2, <1>3 DEF Held

LEMMA AcquireLock ==
    ASSUME TypeOK, Excl, Held, NEW w \in Requests, Acquire(w)
    PROVE  Excl' /\ Held'
  <1>1. Busy' = Busy \cup {w}
    BY DEF TypeOK, Acquire, Goto, Busy, Running
  <1>2. Excl'
    <2>1. CASE Busy = {}
      BY <1>1, <2>1 DEF Excl
    <2>2. CASE Busy # {}
      <3>1. overlapped' = overlapped \cup Busy \cup {w}
        BY <2>2 DEF Acquire
      <3> QED
        BY <1>1, <3>1 DEF Excl
    <2> QED
      BY <2>1, <2>2
  <1>3. ASSUME ~takeovers' PROVE (\A u, v \in Busy' : u = v) /\ lock'.held
    <2>1. ~takeovers /\ ~(lock.held /\ lock.aged)
      BY <1>3 DEF Acquire
    <2>2. ~lock.held
      BY <2>1 DEF Acquire, Free
    <2>3. Busy = {}
      BY <2>1, <2>2 DEF Held
    <2>4. lock'.held
      BY DEF Acquire
    <2> QED
      BY <1>1, <2>3, <2>4
  <1> QED
    BY <1>2, <1>3 DEF Held

LEMMA IdleLock ==
    ASSUME Excl, Held, Busy' = Busy, overlapped' = overlapped, takeovers' = takeovers,
           lock'.held = lock.held
    PROVE  Excl' /\ Held'
  BY DEF Excl, Held

(* A request of another kind of step than Acquire and Refused is busy. *)
LEMMA StepLock ==
    ASSUME TypeOK, Excl, Held, NEW w \in Requests, Step(w)
    PROVE  Excl' /\ Held'
  <1>1. CASE Acquire(w)
    BY <1>1, AcquireLock
  <1>2. CASE Refused(w)
    <2>1. Busy' = Busy
      BY <1>2 DEF TypeOK, Refused, Ends, Goto, Busy, Running
    <2> QED
      BY <1>2, <2>1, IdleLock DEF Refused
  <1>3. ASSUME NEW s \in Running \cup Stopped, Goto(w, s), pc[w] \in Running,
               overlapped' = overlapped, takeovers' = takeovers,
               lock' = lock \/ s \notin Running
        PROVE  Excl' /\ Held'
    <2>1. Busy' \subseteq Busy /\ w \in Busy /\ (s \notin Running => w \notin Busy')
      BY <1>3, BusyGoes
    <2> QED
      BY <1>3, <2>1, LockFrame
  <1>4. CASE OpenRun(w)
    BY <1>3, <1>4 DEF OpenRun, Running
  <1>5. CASE OpenThrows(w)
    BY <1>3, <1>5 DEF OpenThrows, Ends, Running, Stopped
  <1>6. CASE Fetch(w)
    BY <1>3, <1>6 DEF Fetch, Remembers, Running
  <1>7. CASE CountActive(w)
    <2>1. CASE work[w].todo = {}
      BY <1>3, <1>7, <2>1 DEF CountActive, Remembers, Running
    <2>2. CASE work[w].todo # {}
      BY <1>3, <1>7, <2>2 DEF CountActive, Remembers, Running
    <2> QED
      BY <2>1, <2>2
  <1>8. CASE ReadBatch(w)
    BY <1>3, <1>8 DEF ReadBatch, Remembers, Running
  <1>9. CASE WriteBatch(w)
    <2>1. CASE work[w].todo = {}
      BY <1>3, <1>9, <2>1 DEF WriteBatch, Running
    <2>2. CASE work[w].todo # {}
      BY <1>3, <1>9, <2>2 DEF WriteBatch, Running
    <2> QED
      BY <2>1, <2>2
  <1>10. CASE MarkStale(w)
    BY <1>3, <1>10 DEF MarkStale, Running
  <1>11. CASE CloseRun(w)
    BY <1>3, <1>11 DEF CloseRun, Ends, Running
  <1>12. CASE Throws(w)
    BY <1>3, <1>12 DEF Throws, Ends, Running
  <1>13. CASE RecordFailure(w)
    BY <1>3, <1>13 DEF RecordFailure, Ends, Running
  <1>14. CASE Release(w)
    BY <1>3, <1>14 DEF Release, Ends, Running, Stopped
  <1>15. CASE Crash(w)
    BY <1>3, <1>15 DEF Crash, Ends, Running, Stopped
  <1> QED
    BY <1>1, <1>2, <1>4, <1>5, <1>6, <1>7, <1>8, <1>9, <1>10, <1>11, <1>12, <1>13, <1>14, <1>15
       DEF Step

LEMMA AgesLock ==
    ASSUME TypeOK, Excl, Held, LockAges
    PROVE  Excl' /\ Held'
  <1>1. lock'.held = lock.held
    BY DEF LockAges, TypeOK
  <1>2. Busy' = Busy
    BY DEF LockAges, Busy
  <1> QED
    BY <1>1, <1>2, IdleLock DEF LockAges

LEMMA InitLocking == Init => Locking
  <1> SUFFICES ASSUME Init PROVE Locking
    OBVIOUS
  <1>1. Busy = {}
    BY DEF Init, Busy, Running
  <1> QED
    BY <1>1, InitTypeOK DEF Locking, Excl, Held

LEMMA NextLocking == Locking /\ [Next]_vars => Locking'
  <1> SUFFICES ASSUME Locking, [Next]_vars PROVE Locking'
    OBVIOUS
  <1>1. TypeOK'
    BY NextTypeOK DEF Locking
  <1>2. CASE LockAges
    BY <1>1, <1>2, AgesLock DEF Locking
  <1>3. ASSUME NEW w \in Requests, Step(w) PROVE Excl' /\ Held'
    BY <1>3, StepLock DEF Locking
  <1>4. CASE UNCHANGED vars
    <2>1. Busy' = Busy
      BY <1>4 DEF vars, Busy
    <2> QED
      BY <1>1, <1>4, <2>1, IdleLock DEF vars, Locking
  <1> QED
    BY <1>1, <1>2, <1>3, <1>4 DEF Next, Locking

(* Imports run one at a time unless a lock was taken over: the holder of the *)
(* lock is the only one that runs, and it keeps the lock while it runs.      *)
THEOREM OneImport == Spec => []OneImportAtATime
  <1>1. Locking => OneImportAtATime
    BY DEF Locking, Held, OneImportAtATime
  <1> QED
    BY <1>1, InitLocking, NextLocking, PTL DEF Spec
-----------------------------------------------------------------------------
(* What an import writes.                                                    *)

(* A request keeps what is known of it while it does not move and the lots   *)
(* stay, or while another one runs.                                          *)
LEMMA StillFrame ==
    ASSUME NEW v \in Requests, RequestOK(v), lot' = lot, pc'[v] = pc[v], work'[v] = work[v],
           overlapped \subseteq overlapped'
    PROVE  RequestOK(v)'
  BY DEF RequestOK, Shape, Progress, Landed, Delivered

LEMMA OtherFrame ==
    ASSUME Excl, NEW w \in Busy, NEW v \in Requests \ {w}, RequestOK(v), pc'[v] = pc[v],
           work'[v] = work[v], overlapped' = overlapped
    PROVE  RequestOK(v)'
  <1>1. Shape(v)'
    BY DEF RequestOK, Shape, Delivered
  <1>2. ASSUME v \notin overlapped, pc[v] \in Fetched PROVE FALSE
    BY <1>2 DEF Excl, Busy, Fetched, Running
  <1> QED
    BY <1>1, <1>2 DEF RequestOK, Progress

(* A request that is over, or has not begun, owes nothing. *)
LEMMA IdleOK ==
    ASSUME NEW w \in Requests,
           pc[w] \notin {"count", "read", "write", "mark", "close"},
           pc[w] \in {"start", "open", "fetch"} => work[w].batch = {}
    PROVE  RequestOK(w)
  BY DEF RequestOK, Shape, Progress, Fetched

LEMMA NextIdleOK ==
    ASSUME NEW w \in Requests,
           pc'[w] \notin {"count", "read", "write", "mark", "close"},
           pc'[w] \in {"start", "open", "fetch"} => work'[w].batch = {}
    PROVE  RequestOK(w)'
  BY DEF RequestOK, Shape, Progress, Fetched

Moving(w) ==
    /\ \A v \in Requests \ {w} : pc'[v] = pc[v] /\ work'[v] = work[v]
    /\ overlapped' = overlapped

(* The step of a running request keeps what is known of the others. *)
LEMMA OthersOK ==
    ASSUME IInv, NEW w \in Requests, pc[w] \in Running, Moving(w), RequestOK(w)'
    PROVE  \A v \in Requests : RequestOK(v)'
  <1>1. w \in Busy
    BY DEF Busy
  <1>2. ASSUME NEW v \in Requests \ {w} PROVE RequestOK(v)'
    BY <1>1, OtherFrame DEF IInv, Locking, Moving
  <1> QED
    BY <1>2

PastAndAll == Past /\ \A w \in Requests : RequestOK(w)

(* A step that touches neither lots nor time, after which the request owes   *)
(* nothing.                                                                  *)
LEMMA EndsOK ==
    ASSUME IInv, NEW w \in Requests, pc[w] \in Running, NEW s \in {"fail", "release", "done",
           "thrown", "dead"}, Ends(w, s), UNCHANGED <<lot, now, overlapped>>
    PROVE  PastAndAll'
  <1>1. pc'[w] = s /\ work'[w] = NoWork
    BY DEF Ends, Goto, IInv, Locking, TypeOK
  <1>2. Moving(w)
    BY DEF Ends, Goto, Moving, IInv, Locking, TypeOK
  <1>3. RequestOK(w)'
    BY <1>1, NextIdleOK
  <1>4. \A v \in Requests : RequestOK(v)'
    BY <1>2, <1>3, OthersOK
  <1>5. \A v \in Requests : work'[v].seenAt <= now
    BY <1>1, <1>2 DEF Moving, IInv, Past, NoWork, Locking, TypeOK
  <1> QED
    BY <1>4, <1>5 DEF PastAndAll, Past, IInv

LEMMA AcquireOK ==
    ASSUME IInv, NEW w \in Requests, Acquire(w)
    PROVE  PastAndAll'
  <1>1. pc'[w] = "open" /\ work' = work /\ lot' = lot /\ now' = now
    BY DEF Acquire, Goto, IInv, Locking, TypeOK
  <1>2. work[w].batch = {}
    BY DEF Acquire, IInv, RequestOK, Shape
  <1>3. RequestOK(w)'
    BY <1>1, <1>2, NextIdleOK
  <1>4. ASSUME NEW v \in Requests \ {w} PROVE RequestOK(v)'
    <2>1. pc'[v] = pc[v] /\ work'[v] = work[v]
      BY <1>1 DEF Acquire, Goto, IInv, Locking, TypeOK
    <2>2. overlapped \subseteq overlapped'
      BY DEF Acquire
    <2> QED
      BY <1>1, <2>1, <2>2, StillFrame DEF IInv
  <1> QED
    BY <1>1, <1>3, <1>4 DEF PastAndAll, Past, IInv

LEMMA RefusedOK ==
    ASSUME IInv, NEW w \in Requests, Refused(w)
    PROVE  PastAndAll'
  <1>1. pc'[w] = "locked" /\ work'[w] = NoWork /\ lot' = lot /\ now' = now
    BY DEF Refused, Ends, Goto, IInv, Locking, TypeOK
  <1>2. RequestOK(w)'
    BY <1>1, NextIdleOK
  <1>3. \A v \in Requests \ {w} : pc'[v] = pc[v] /\ work'[v] = work[v]
    BY DEF Refused, Ends, Goto, IInv, Locking, TypeOK
  <1>4. ASSUME NEW v \in Requests \ {w} PROVE RequestOK(v)'
    BY <1>1, <1>3, StillFrame DEF IInv, Refused
  <1>5. \A v \in Requests : work'[v].seenAt <= now
    BY <1>1, <1>3 DEF IInv, Past, NoWork, Locking, TypeOK
  <1> QED
    BY <1>1, <1>2, <1>4, <1>5 DEF PastAndAll, Past, IInv

LEMMA OpenRunOK ==
    ASSUME IInv, NEW w \in Requests, OpenRun(w)
    PROVE  PastAndAll'
  <1>1. pc'[w] = "fetch" /\ work' = work /\ lot' = lot /\ now' = now /\ pc[w] \in Running
    BY DEF OpenRun, Goto, IInv, Locking, TypeOK, Running
  <1>2. work[w].batch = {}
    BY DEF OpenRun, IInv, RequestOK, Shape
  <1>3. RequestOK(w)'
    BY <1>1, <1>2, NextIdleOK
  <1>4. Moving(w)
    BY <1>1 DEF OpenRun, Goto, Moving, IInv, Locking, TypeOK
  <1>5. \A v \in Requests : RequestOK(v)'
    BY <1>1, <1>3, <1>4, OthersOK
  <1> QED
    BY <1>1, <1>5 DEF PastAndAll, Past, IInv

(* The delivered lots are all to do, and the others were seen before now.    *)
LEMMA FetchOK ==
    ASSUME IInv, NEW w \in Requests, Fetch(w)
    PROVE  PastAndAll'
  <1>1. PICK s \in Snapshot, bad \in BOOLEAN :
            Remembers(w, "count", [work[w] EXCEPT !.snapshot = s, !.rejected = bad,
                                      !.seenAt = now + 1, !.todo = {l \in Lots : s[l] # NoContent}])
    BY DEF Fetch
  <1>2. work[w] \in Work /\ now \in Nat /\ work \in [Requests -> Work]
    BY DEF IInv, Locking, TypeOK
  <1>3. /\ work'[w].snapshot = s
        /\ work'[w].seenAt = now + 1
        /\ work'[w].todo = {l \in Lots : s[l] # NoContent}
        /\ work'[w].batch = work[w].batch
    BY <1>1, <1>2 DEF Remembers, Work
  <1>4. pc'[w] = "count" /\ lot' = lot /\ now' = now + 1 /\ pc[w] = "fetch"
    BY <1>1 DEF Fetch, Remembers, Goto, IInv, Locking, TypeOK
  <1>5. Moving(w)
    BY <1>1, <1>2 DEF Remembers, Goto, Moving, IInv, Locking, TypeOK
  <1>6. work[w].batch = {}
    BY <1>4 DEF IInv, RequestOK, Shape
  <1>7. Delivered(w)' = work'[w].todo
    BY <1>3 DEF Delivered
  <1>8. Shape(w)'
    BY <1>3, <1>4, <1>6, <1>7 DEF Shape
  <1>9. \A l \in Lots : lot[l].seen \in Nat /\ lot[l].seen <= now
    BY DEF IInv, Past, Locking, TypeOK, Lot
  <1>10. \A l \in Lots : lot'[l].seen < work'[w].seenAt
    BY <1>2, <1>3, <1>4, <1>9
  <1>11. Progress(w)'
    BY <1>4, <1>7, <1>10 DEF Progress
  <1>12. \A v \in Requests : RequestOK(v)'
    BY <1>4, <1>5, <1>8, <1>11, OthersOK DEF RequestOK, Running
  <1>13. \A v \in Requests : work[v].seenAt \in Nat /\ work[v].seenAt <= now
    BY <1>2 DEF IInv, Past, Work
  <1>14. Past'
    BY <1>2, <1>3, <1>4, <1>5, <1>9, <1>13 DEF Past, Moving
  <1> QED
    BY <1>12, <1>14 DEF PastAndAll

LEMMA CountActiveOK ==
    ASSUME IInv, NEW w \in Requests, CountActive(w)
    PROVE  PastAndAll'
  <1> DEFINE n == Cardinality(ActiveLots)
  <1>1. work[w] \in Work /\ work \in [Requests -> Work]
    BY DEF IInv, Locking, TypeOK
  <1>2. work' = [work EXCEPT ![w] = [work[w] EXCEPT !.activeBefore = n]]
    BY DEF CountActive, Remembers
  <1> HIDE DEF n
  <1>3. /\ work'[w].snapshot = work[w].snapshot
        /\ work'[w].seenAt = work[w].seenAt
        /\ work'[w].todo = work[w].todo
        /\ work'[w].batch = work[w].batch
        /\ work'[w].read = work[w].read
    BY <1>1, <1>2 DEF Work
  <1>4. /\ pc'[w] = IF work[w].todo = {} THEN "mark" ELSE "read"
        /\ lot' = lot /\ now' = now /\ pc[w] = "count"
    BY DEF CountActive, Remembers, Goto, IInv, Locking, TypeOK
  <1>5. Moving(w)
    BY <1>1, <1>2 DEF CountActive, Remembers, Goto, Moving, IInv, Locking, TypeOK
  <1>6. Delivered(w)' = Delivered(w)
    BY <1>3 DEF Delivered
  <1>7. Shape(w) /\ (w \notin overlapped => Progress(w))
    BY DEF IInv, RequestOK
  <1>8. Shape(w)'
    BY <1>3, <1>4, <1>6, <1>7 DEF Shape
  <1>9. w \notin overlapped => Progress(w)'
    BY <1>3, <1>4, <1>6, <1>7 DEF Progress, Landed, Fetched
  <1>10. \A v \in Requests : RequestOK(v)'
    BY <1>4, <1>5, <1>8, <1>9, OthersOK DEF RequestOK, Running, Moving
  <1> QED
    BY <1>3, <1>4, <1>5, <1>10 DEF PastAndAll, Past, IInv, Moving

LEMMA ReadBatchOK ==
    ASSUME IInv, NEW w \in Requests, ReadBatch(w)
    PROVE  PastAndAll'
  <1>1. PICK b \in BatchesOf(work[w].todo) :
            Remembers(w, "write",
                [work[w] EXCEPT !.batch = b, !.todo = work[w].todo \ b,
                                !.read = [l \in Lots |-> IF l \in b THEN lot[l].content
                                                                    ELSE NoContent]])
    BY DEF ReadBatch
  <1>2. work[w] \in Work /\ work \in [Requests -> Work]
    BY DEF IInv, Locking, TypeOK
  <1>3. /\ work'[w].snapshot = work[w].snapshot
        /\ work'[w].seenAt = work[w].seenAt
        /\ work'[w].todo = work[w].todo \ b
        /\ work'[w].batch = b
        /\ work'[w].read = [l \in Lots |-> IF l \in b THEN lot[l].content ELSE NoContent]
    BY <1>1, <1>2 DEF Remembers, Work
  <1>4. pc'[w] = "write" /\ lot' = lot /\ now' = now /\ pc[w] = "read"
    BY <1>1 DEF ReadBatch, Remembers, Goto, IInv, Locking, TypeOK
  <1>5. Moving(w)
    BY <1>1, <1>2 DEF Remembers, Goto, Moving, IInv, Locking, TypeOK
  <1>6. Delivered(w)' = Delivered(w)
    BY <1>3 DEF Delivered
  <1>7. Shape(w) /\ (w \notin overlapped => Progress(w))
    BY DEF IInv, RequestOK
  <1>8. b \subseteq work[w].todo
    BY DEF BatchesOf
  <1>9. Shape(w)'
    BY <1>3, <1>4, <1>6, <1>7, <1>8 DEF Shape
  <1>10. work[w].batch = {}
    BY <1>4, <1>7 DEF Shape
  <1>11. w \notin overlapped => Progress(w)'
    BY <1>3, <1>4, <1>6, <1>7, <1>10 DEF Progress, Landed, Fetched
  <1>12. \A v \in Requests : RequestOK(v)'
    BY <1>4, <1>5, <1>9, <1>11, OthersOK DEF RequestOK, Running, Moving
  <1> QED
    BY <1>3, <1>4, <1>5, <1>12 DEF PastAndAll, Past, IInv, Moving

(* The row of an import that runs alone is what it was when it was read. *)
LEMMA RowLands ==
    ASSUME TypeOK, NEW w \in Requests, NEW l \in Lots, l \in Delivered(w),
           work[w].read[l] = lot[l].content
    PROVE  /\ RowAfter(w, l).active
           /\ RowAfter(w, l).content = work[w].snapshot[l]
           /\ RowAfter(w, l).seen = work[w].seenAt
  <1>1. work[w].snapshot[l] # NoContent
    BY DEF Delivered
  <1>2. CASE work[w].read[l] = NoContent
    BY <1>1, <1>2 DEF RowAfter, Stored
  <1>3. CASE work[w].read[l] # NoContent /\ work[w].read[l] = work[w].snapshot[l]
    BY <1>3 DEF RowAfter
  <1>4. CASE work[w].read[l] # NoContent /\ work[w].read[l] # work[w].snapshot[l]
    BY <1>4 DEF RowAfter
  <1> QED
    BY <1>2, <1>3, <1>4

LEMMA RowAfterPast ==
    ASSUME TypeOK, Past, NEW w \in Requests, NEW l \in Lots
    PROVE  RowAfter(w, l).seen <= now
  <1>1. work[w].seenAt <= now /\ lot[l].seen <= now
    BY DEF Past
  <1>2. RowAfter(w, l).seen \in {lot[l].seen, work[w].seenAt}
    BY DEF RowAfter
  <1> QED
    BY <1>1, <1>2

LEMMA WriteBatchOK ==
    ASSUME IInv, NEW w \in Requests, WriteBatch(w)
    PROVE  PastAndAll'
  <1> DEFINE n == work[w].known + Cardinality({l \in work[w].batch : work[w].read[l] # NoContent})
  <1>1. work[w] \in Work /\ work \in [Requests -> Work] /\ TypeOK /\ Past
    BY DEF IInv, Locking, TypeOK
  <1>2. work' = [work EXCEPT ![w].known = n, ![w].batch = {}, ![w].read = NoRows]
    BY DEF WriteBatch
  <1> HIDE DEF n
  <1>3. work' = [work EXCEPT ![w] = [work[w] EXCEPT !.known = n, !.batch = {}, !.read = NoRows]]
    BY <1>1, <1>2
  <1>4. /\ work'[w].snapshot = work[w].snapshot
        /\ work'[w].seenAt = work[w].seenAt
        /\ work'[w].todo = work[w].todo
        /\ work'[w].batch = {}
    BY <1>1, <1>3 DEF Work
  <1>5. /\ pc'[w] = IF work[w].todo = {} THEN "mark" ELSE "read"
        /\ now' = now /\ pc[w] = "write"
    BY DEF WriteBatch, Goto, IInv, Locking, TypeOK
  <1>6. \A l \in Lots : lot'[l] = IF l \in work[w].batch THEN RowAfter(w, l) ELSE lot[l]
    BY DEF WriteBatch
  <1>7. Moving(w)
    BY <1>1, <1>3 DEF WriteBatch, Goto, Moving, IInv, Locking, TypeOK
  <1>8. Delivered(w)' = Delivered(w)
    BY <1>4 DEF Delivered
  <1>9. Shape(w) /\ (w \notin overlapped => Progress(w))
    BY DEF IInv, RequestOK
  <1>10. Shape(w)'
    BY <1>4, <1>5, <1>8, <1>9 DEF Shape
  <1>11. ASSUME w \notin overlapped, NEW l \in Lots
         PROVE  /\ l \in Delivered(w) /\ l \notin work[w].todo =>
                       /\ lot'[l].active
                       /\ lot'[l].content = work[w].snapshot[l]
                       /\ lot'[l].seen = work[w].seenAt
                /\ l \notin Delivered(w) => lot'[l].seen < work[w].seenAt
    <2>1. /\ l \in Delivered(w) /\ l \notin work[w].todo /\ l \notin work[w].batch => Landed(w, l)
          /\ l \notin Delivered(w) => lot[l].seen < work[w].seenAt
          /\ l \in work[w].batch => work[w].read[l] = lot[l].content
      BY <1>5, <1>9, <1>11 DEF Progress, Fetched
    <2>2. CASE l \in work[w].batch
      <3>1. l \in Delivered(w)
        BY <1>5, <1>9, <2>2 DEF Shape
      <3> QED
        BY <1>1, <1>6, <2>1, <2>2, <3>1, RowLands
    <2>3. CASE l \notin work[w].batch
      BY <1>6, <2>1, <2>3 DEF Landed
    <2> QED
      BY <2>2, <2>3
  <1>12. w \notin overlapped => Progress(w)'
    BY <1>4, <1>5, <1>8, <1>11 DEF Progress, Landed
  <1>13. \A v \in Requests : RequestOK(v)'
    BY <1>5, <1>7, <1>10, <1>12, OthersOK DEF RequestOK, Running, Moving
  <1>14. \A l \in Lots : lot'[l].seen <= now
    BY <1>1, <1>6, RowAfterPast DEF Past
  <1>15. \A v \in Requests : work'[v].seenAt <= now
    BY <1>1, <1>4, <1>7 DEF Past, Moving
  <1> QED
    BY <1>5, <1>13, <1>14, <1>15 DEF PastAndAll, Past

(* What marking leaves of a lot that landed, and of its time. *)
LEMMA MarkedRows ==
    ASSUME TypeOK, NEW w \in Requests, MarkStale(w), NEW l \in Lots
    PROVE  /\ lot'[l].content = lot[l].content
           /\ lot'[l].seen = lot[l].seen
           /\ lot[l].seen = work[w].seenAt => lot'[l].active = lot[l].active
  <1>1. lot[l] \in Lot /\ work[w].seenAt \in Nat
    BY DEF TypeOK, Work
  <1>2. lot'[l] = IF ~Anomaly(w) /\ Missing(w) > 0 /\ l \in Unseen(w)
                  THEN [lot[l] EXCEPT !.active = FALSE] ELSE lot[l]
    BY DEF MarkStale
  <1>3. lot[l].seen = work[w].seenAt => l \notin Unseen(w)
    BY <1>1 DEF Unseen
  <1> QED
    BY <1>1, <1>2, <1>3 DEF Lot

LEMMA MarkStaleOK ==
    ASSUME IInv, NEW w \in Requests, MarkStale(w)
    PROVE  PastAndAll'
  <1>1. TypeOK /\ Past
    BY DEF IInv, Locking
  <1>2. pc'[w] = "close" /\ work' = work /\ now' = now /\ pc[w] = "mark"
    BY <1>1 DEF MarkStale, Goto, TypeOK
  <1>3. Moving(w)
    BY <1>1, <1>2 DEF MarkStale, Goto, Moving, TypeOK
  <1>4. Shape(w) /\ (w \notin overlapped => Progress(w))
    BY DEF IInv, RequestOK
  <1>5. Delivered(w)' = Delivered(w)
    BY <1>2 DEF Delivered
  <1>6. Shape(w)'
    BY <1>2, <1>4, <1>5 DEF Shape
  <1>7. \A l \in Lots : Landed(w, l) => Landed(w, l)'
    BY <1>1, <1>2, MarkedRows DEF Landed
  <1>8. \A l \in Lots : lot'[l].seen = lot[l].seen
    BY <1>1, MarkedRows
  <1>9. w \notin overlapped => Progress(w)'
    BY <1>2, <1>4, <1>5, <1>7, <1>8 DEF Progress, Fetched
  <1>10. \A v \in Requests : RequestOK(v)'
    BY <1>2, <1>3, <1>6, <1>9, OthersOK DEF RequestOK, Running, Moving
  <1> QED
    BY <1>1, <1>2, <1>8, <1>10 DEF PastAndAll, Past

LEMMA StepOK ==
    ASSUME IInv, NEW w \in Requests, Step(w)
    PROVE  PastAndAll'
  <1>1. CASE OpenThrows(w)
    BY <1>1, EndsOK DEF OpenThrows, Running
  <1>2. CASE CloseRun(w)
    BY <1>2, EndsOK DEF CloseRun, Running
  <1>3. CASE Throws(w)
    BY <1>3, EndsOK DEF Throws, Running
  <1>4. CASE RecordFailure(w)
    BY <1>4, EndsOK DEF RecordFailure, Running
  <1>5. CASE Release(w)
    BY <1>5, EndsOK DEF Release, Running
  <1>6. CASE Crash(w)
    BY <1>6, EndsOK DEF Crash
  <1> QED
    BY <1>1, <1>2, <1>3, <1>4, <1>5, <1>6, AcquireOK, RefusedOK, OpenRunOK, FetchOK,
       CountActiveOK, ReadBatchOK, WriteBatchOK, MarkStaleOK DEF Step

LEMMA InitOK == Init => IInv
  <1> SUFFICES ASSUME Init PROVE IInv
    OBVIOUS
  <1>1. \A w \in Requests : pc[w] = "start" /\ work[w] = NoWork
    BY DEF Init
  <1>2. \A w \in Requests : RequestOK(w)
    BY <1>1, IdleOK DEF NoWork
  <1>3. \A w \in Requests : work[w].seenAt = 0
    BY <1>1 DEF NoWork
  <1>4. \A l \in Lots : lot[l].seen = 0
    BY DEF Init
  <1>5. now = 0
    BY DEF Init
  <1> QED
    BY <1>2, <1>3, <1>4, <1>5, InitLocking DEF IInv, Past

LEMMA NextOK == IInv /\ [Next]_vars => IInv'
  <1> SUFFICES ASSUME IInv, [Next]_vars PROVE IInv'
    OBVIOUS
  <1>1. Locking'
    BY NextLocking DEF IInv
  <1>2. ASSUME NEW w \in Requests, Step(w) PROVE PastAndAll'
    BY <1>2, StepOK
  <1>3. ASSUME UNCHANGED <<lot, pc, work, now, overlapped>> PROVE PastAndAll'
    <2>1. \A v \in Requests : RequestOK(v)'
      BY <1>3, StillFrame DEF IInv
    <2> QED
      BY <1>3, <2>1 DEF PastAndAll, Past, IInv
  <1>4. PastAndAll'
    BY <1>2, <1>3 DEF Next, LockAges, vars
  <1> QED
    BY <1>1, <1>4 DEF IInv, PastAndAll

(* An import that runs alone leaves every lot it delivered active, with the  *)
(* content it delivered, when it closes its run.                             *)
THEOREM SnapshotIsStored == Spec => []SnapshotLands
  <1>1. IInv => SnapshotLands
    BY DEF IInv, RequestOK, Shape, Progress, Fetched, Landed, SnapshotLands, Delivered
  <1> QED
    BY <1>1, InitOK, NextOK, PTL DEF Spec

(* Only marking takes a request from "mark" to "close". *)
LEMMA MarkingStep ==
    ASSUME IInv, [Next]_vars, NEW w \in Requests, pc[w] = "mark", pc'[w] = "close"
    PROVE  MarkStale(w)
  <1>1. TypeOK
    BY DEF IInv, Locking
  <1>2. ASSUME NEW v \in Requests, Step(v), v # w PROVE pc'[w] = pc[w]
    BY <1>1, <1>2 DEF Step, TypeOK, Acquire, Refused, OpenRun, OpenThrows, Fetch, CountActive,
       ReadBatch, WriteBatch, MarkStale, CloseRun, Throws, RecordFailure, Release, Crash,
       Remembers, Ends, Goto
  <1>3. ASSUME Step(w), ~MarkStale(w) PROVE pc'[w] # "close"
    BY <1>1, <1>3 DEF Step, TypeOK, Acquire, Refused, OpenRun, OpenThrows, Fetch, CountActive,
       ReadBatch, WriteBatch, CloseRun, Throws, RecordFailure, Release, Crash,
       Remembers, Ends, Goto
  <1>4. CASE LockAges
    BY <1>4 DEF LockAges
  <1>5. CASE UNCHANGED vars
    BY <1>5 DEF vars
  <1> QED
    BY <1>2, <1>3, <1>4, <1>5 DEF Next

LEMMA MarkedExactly ==
    ASSUME IInv, NEW w \in Requests \ overlapped, MarkStale(w), lot' # lot
    PROVE  {l \in Lots : lot'[l].active} = Delivered(w)
  <1>1. TypeOK /\ Shape(w) /\ Progress(w) /\ pc[w] = "mark"
    BY DEF IInv, Locking, RequestOK, MarkStale
  <1>2. work[w].todo = {} /\ work[w].batch = {}
    BY <1>1 DEF Shape
  <1>3. \A l \in Lots : lot'[l] = IF ~Anomaly(w) /\ Missing(w) > 0 /\ l \in Unseen(w)
                                  THEN [lot[l] EXCEPT !.active = FALSE] ELSE lot[l]
    BY DEF MarkStale
  <1>4. lot \in [Lots -> Lot] /\ lot' \in [Lots -> Lot]
    BY <1>1, MarkStaleType DEF TypeOK
  <1>5. ~Anomaly(w) /\ Missing(w) > 0
    BY <1>3, <1>4
  <1>6. ASSUME NEW l \in Lots PROVE lot'[l].active <=> l \in Delivered(w)
    <2>1. CASE l \in Delivered(w)
      <3>1. Landed(w, l)
        BY <1>1, <1>2, <2>1 DEF Progress, Fetched
      <3> QED
        BY <1>1, <2>1, <3>1, MarkedRows DEF Landed
    <2>2. CASE l \notin Delivered(w)
      <3>1. lot[l].seen < work[w].seenAt
        BY <1>1, <2>2 DEF Progress, Fetched
      <3>2. ~lot'[l].active
        BY <1>3, <1>4, <1>5, <3>1 DEF Unseen, ActiveLots, Lot
      <3> QED
        BY <2>2, <3>2
    <2> QED
      BY <2>1, <2>2
  <1>7. Delivered(w) \subseteq Lots
    BY DEF Delivered
  <1> QED
    BY <1>6, <1>7

(* When an import that runs alone marks a lot stale, the active lots are     *)
(* from then on exactly those of its snapshot.                               *)
THEOREM StaleExactly == Spec => StaleMarkingIsExact
  <1>1. ASSUME IInv, IInv', [Next]_vars, NEW w \in Requests \ overlapped,
               pc[w] = "mark", pc'[w] = "close", lot' # lot
        PROVE  {l \in Lots : lot'[l].active} = Delivered(w)
    <2>1. MarkStale(w)
      BY <1>1, MarkingStep
    <2> QED
      BY <1>1, <2>1, MarkedExactly
  <1>2. IInv /\ IInv' /\ [Next]_vars =>
            [\A w \in Requests \ overlapped :
                (pc[w] = "mark" /\ pc'[w] = "close" /\ lot' # lot) =>
                    {l \in Lots : lot'[l].active} = Delivered(w)]_vars
    BY <1>1
  <1> QED
    BY <1>2, InitOK, NextOK, PTL DEF Spec, StaleMarkingIsExact
=============================================================================
