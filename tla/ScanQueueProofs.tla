--------------------------- MODULE ScanQueueProofs ---------------------------
(* Proofs about ScanQueue, for any sets of jobs, scans and replicas and any  *)
(* limits: the types, the limits of each replica, that a wake-up finds its   *)
(* wait, that a page load counts once, and that the queue is a ScanLog.      *)
EXTENDS ScanQueue, FiniteSetTheorems, SequenceTheorems, TLAPS

(* The slot a pump found free before it asked Redis is still free when Redis *)
(* answers: nothing else takes jobs, and nothing resumes the pump meanwhile. *)
SlotKept == \A p \in Replicas : pump[p] = "popping" => Active(p) < Concurrency

Bounded ==
    \A p \in Replicas :
       IsFiniteSet(working[p]) /\ Active(p) <= Concurrency /\ Len(memory[p]) <= MaxQueue

Inv == TypeOK /\ WakeMeansWaiting /\ SlotKept /\ Bounded

-----------------------------------------------------------------------------
(* Waking leaves all but the pump's own variables alone and never touches a  *)
(* pump that is not waiting.                                                 *)
LEMMA WakeSafe ==
    ASSUME TypeOK, WakeMeansWaiting, NEW p \in Replicas, Wake(p)
    PROVE  /\ pump' \in [Replicas -> {"take", "popping", "wait"}]
           /\ wake' \in [Replicas -> BOOLEAN] /\ timer' \in [Replicas -> BOOLEAN]
           /\ oldTimers' \in [Replicas -> Nat]
           /\ WakeMeansWaiting'
           /\ \A q \in Replicas : pump'[q] = "popping" => pump[q] = "popping"
<1>1. CASE wake[p]
  <2>1. /\ wake' = [wake EXCEPT ![p] = FALSE]
        /\ pump' = [pump EXCEPT ![p] = "take"]
        /\ timer' = [timer EXCEPT ![p] = FALSE]
        /\ oldTimers' = [oldTimers EXCEPT ![p] = oldTimers[p] + 1]
    BY <1>1 DEF Wake
  <2>2. /\ pump' \in [Replicas -> {"take", "popping", "wait"}]
        /\ wake' \in [Replicas -> BOOLEAN] /\ timer' \in [Replicas -> BOOLEAN]
    BY <2>1 DEF TypeOK
  <2>3. oldTimers[p] + 1 \in Nat
    BY DEF TypeOK
  <2>4. oldTimers' \in [Replicas -> Nat]
    BY <2>1, <2>3 DEF TypeOK
  <2>5. \A q \in Replicas : pump'[q] = "popping" => pump[q] = "popping"
    BY <2>1 DEF TypeOK
  <2>6. WakeMeansWaiting'
    <3>1. ASSUME NEW q \in Replicas, wake'[q] PROVE pump'[q] = "wait" /\ timer'[q]
      <4>1. q # p /\ wake[q]
        BY <2>1, <3>1, Zenon DEF TypeOK
      <4>2. pump'[q] = pump[q] /\ timer'[q] = timer[q]
        BY <2>1, <4>1 DEF TypeOK
      <4> QED
        BY <4>1, <4>2 DEF WakeMeansWaiting
    <3> QED
      BY <3>1 DEF WakeMeansWaiting
  <2> QED
    BY <2>2, <2>4, <2>5, <2>6
<1>2. CASE ~wake[p]
  BY <1>2 DEF Wake, TypeOK, WakeMeansWaiting
<1> QED
  BY <1>1, <1>2

(* A new wait has a callback and a timer.                                    *)
LEMMA WaitSafe ==
    ASSUME TypeOK, WakeMeansWaiting, NEW p \in Replicas, StartWait(p)
    PROVE  /\ pump' \in [Replicas -> {"take", "popping", "wait"}]
           /\ wake' \in [Replicas -> BOOLEAN] /\ timer' \in [Replicas -> BOOLEAN]
           /\ oldTimers' \in [Replicas -> Nat]
           /\ WakeMeansWaiting'
           /\ \A q \in Replicas : pump'[q] = "popping" => pump[q] = "popping"
BY DEF StartWait, TypeOK, WakeMeansWaiting

(* What no recording and no memory disturbs stays bounded.                   *)
LEMMA BoundsKept ==
    ASSUME SlotKept, Bounded, UNCHANGED <<memory, working>>,
           \A q \in Replicas : pump'[q] = "popping" => pump[q] = "popping"
    PROVE  SlotKept' /\ Bounded'
BY DEF SlotKept, Bounded, Active

(* One replica's new queue and new work are within the limits.               *)
LEMMA BoundsStep ==
    ASSUME TypeOK, Bounded, NEW p \in Replicas, NEW m \in Seq(Copies), NEW w,
           memory' = [memory EXCEPT ![p] = m], working' = [working EXCEPT ![p] = w],
           Len(m) <= MaxQueue, IsFiniteSet(w), Cardinality(w) <= Concurrency
    PROVE  Bounded'
<1>1. ASSUME NEW q \in Replicas
      PROVE  IsFiniteSet(working'[q]) /\ Cardinality(working'[q]) <= Concurrency
             /\ Len(memory'[q]) <= MaxQueue
  <2>1. CASE q = p
    <3>1. memory'[q] = m /\ working'[q] = w
      BY <2>1 DEF TypeOK
    <3> QED
      BY <3>1
  <2>2. CASE q # p
    <3>1. memory'[q] = memory[q] /\ working'[q] = working[q]
      BY <2>2 DEF TypeOK
    <3> QED
      BY <3>1 DEF Bounded, Active
  <2> QED
    BY <2>1, <2>2
<1> QED
  BY <1>1 DEF Bounded, Active

-----------------------------------------------------------------------------
LEMMA TakeMemorySafe ==
    ASSUME Inv, NEW p \in Replicas, TakeMemory(p)
    PROVE  Inv'
<1>1. memory[p] \in Seq(Copies) /\ memory[p] # <<>>
  BY DEF Inv, TypeOK, TakeMemory
<1>2. Head(memory[p]) \in Copies /\ Tail(memory[p]) \in Seq(Copies)
      /\ Len(Tail(memory[p])) = Len(memory[p]) - 1
  BY <1>1, HeadTailProperties
<1>3. TypeOK'
  BY <1>2 DEF Inv, TypeOK, TakeMemory
<1>4. WakeMeansWaiting' /\ SlotKept'
  <2>1. pump[p] # "popping"
    BY DEF TakeMemory, CanTake
  <2> QED
    BY <2>1 DEF Inv, TypeOK, TakeMemory, WakeMeansWaiting, SlotKept, Active
<1>5. IsFiniteSet(working[p]) /\ Active(p) \in Nat /\ Active(p) < Concurrency
  BY FS_CardinalityType DEF Inv, Bounded, TakeMemory, CanTake, Active
<1>6. IsFiniteSet(working[p] \cup {Head(memory[p])})
      /\ Cardinality(working[p] \cup {Head(memory[p])}) <= Active(p) + 1
  BY <1>5, FS_AddElement DEF Active
<1>7. Bounded'
  <2>1. Cardinality(working[p] \cup {Head(memory[p])}) <= Concurrency
    BY <1>5, <1>6, FS_CardinalityType, ScanQueueAssumption
  <2>2. Len(Tail(memory[p])) <= MaxQueue
    BY <1>1, <1>2, LenProperties, ScanQueueAssumption DEF Inv, Bounded
  <2>3. memory' = [memory EXCEPT ![p] = Tail(memory[p])]
        /\ working' = [working EXCEPT ![p] = working[p] \cup {Head(memory[p])}]
    BY DEF TakeMemory
  <2> QED
    BY <1>2, <1>6, <2>1, <2>2, <2>3, BoundsStep DEF Inv
<1> QED
  BY <1>3, <1>4, <1>7 DEF Inv

LEMMA AskRedisSafe ==
    ASSUME Inv, NEW p \in Replicas, AskRedis(p)
    PROVE  Inv'
<1>1. TypeOK'
  BY DEF Inv, TypeOK, AskRedis
<1>2. WakeMeansWaiting'
  BY DEF Inv, TypeOK, AskRedis, CanTake, WakeMeansWaiting
<1>3. SlotKept' /\ Bounded'
  BY DEF Inv, TypeOK, AskRedis, CanTake, SlotKept, Bounded, Active
<1> QED
  BY <1>1, <1>2, <1>3 DEF Inv

LEMMA PopRedisSafe ==
    ASSUME Inv, NEW p \in Replicas, PopRedis(p)
    PROVE  Inv'
<1>1. redis \in Seq(Copies) /\ redis # <<>>
  BY DEF Inv, TypeOK, PopRedis
<1>2. Head(redis) \in Copies /\ Tail(redis) \in Seq(Copies)
  BY <1>1, HeadTailProperties
<1>3. TypeOK'
  BY <1>2 DEF Inv, TypeOK, PopRedis
<1>4. WakeMeansWaiting' /\ SlotKept'
  BY DEF Inv, TypeOK, PopRedis, WakeMeansWaiting, SlotKept, Active
<1>5. IsFiniteSet(working[p]) /\ Active(p) \in Nat /\ Active(p) < Concurrency
  BY FS_CardinalityType DEF Inv, Bounded, SlotKept, PopRedis, Active
<1>6. IsFiniteSet(working[p] \cup {Head(redis)})
      /\ Cardinality(working[p] \cup {Head(redis)}) <= Active(p) + 1
  BY <1>5, FS_AddElement DEF Active
<1>7. Bounded'
  <2>1. Cardinality(working[p] \cup {Head(redis)}) <= Concurrency
    BY <1>5, <1>6, FS_CardinalityType, ScanQueueAssumption
  <2>2. memory' = [memory EXCEPT ![p] = memory[p]]
        /\ working' = [working EXCEPT ![p] = working[p] \cup {Head(redis)}]
    BY DEF PopRedis, Inv, TypeOK
  <2>3. memory[p] \in Seq(Copies) /\ Len(memory[p]) <= MaxQueue
    BY DEF Inv, TypeOK, Bounded
  <2> QED
    BY <1>6, <2>1, <2>2, <2>3, BoundsStep DEF Inv
<1> QED
  BY <1>3, <1>4, <1>7 DEF Inv

(* The pump starts a wait.                                                   *)
LEMMA WaitStepSafe ==
    ASSUME Inv, NEW p \in Replicas, PopNothing(p) \/ PopFails(p) \/ WaitWhenBusy(p)
    PROVE  Inv'
<1>1. StartWait(p) /\ UNCHANGED <<scanId, arrived, pushing, memory, working, rows, stopped>>
  BY DEF PopNothing, PopFails, WaitWhenBusy
<1>2. redis' \in Seq(Copies)
  <2>1. redis' = redis \/ (redis # <<>> /\ redis' = Tail(redis))
    BY DEF PopNothing, PopFails, WaitWhenBusy
  <2>2. redis # <<>> => Tail(redis) \in Seq(Copies)
    BY HeadTailProperties DEF Inv, TypeOK
  <2> QED
    BY <2>1, <2>2 DEF Inv, TypeOK
<1>3. TypeOK'
  BY <1>1, <1>2, WaitSafe DEF Inv, TypeOK
<1>4. WakeMeansWaiting' /\ SlotKept' /\ Bounded'
  BY <1>1, WaitSafe, BoundsKept DEF Inv
<1> QED
  BY <1>3, <1>4 DEF Inv

LEMMA TimersSafe ==
    ASSUME Inv, NEW p \in Replicas, Timers(p)
    PROVE  Inv'
<1>1. CASE TimerFires(p)
  <2>1. TypeOK'
    BY <1>1 DEF Inv, TypeOK, TimerFires
  <2>2. WakeMeansWaiting' /\ \A q \in Replicas : pump'[q] = "popping" => pump[q] = "popping"
    BY <1>1 DEF Inv, TypeOK, TimerFires, WakeMeansWaiting
  <2>3. SlotKept' /\ Bounded'
    BY <1>1, <2>2, BoundsKept DEF Inv, TimerFires
  <2> QED
    BY <2>1, <2>2, <2>3 DEF Inv
<1>2. CASE OldTimerFires(p)
  <2>1. TypeOK'
    BY <1>2 DEF Inv, TypeOK, OldTimerFires
  <2>2. WakeMeansWaiting'
    BY <1>2 DEF Inv, TypeOK, OldTimerFires, WakeMeansWaiting
  <2>3. SlotKept' /\ Bounded'
    BY <1>2, BoundsKept DEF Inv, OldTimerFires
  <2> QED
    BY <2>1, <2>2, <2>3 DEF Inv
<1> QED
  BY <1>1, <1>2 DEF Timers

(* The fallback grows memory up to its limit, and wakes the pump.            *)
LEMMA PushMemorySafe ==
    ASSUME Inv, NEW p \in Replicas, NEW j \in Jobs, PushMemory(p, j),
           UNCHANGED <<scanId, redis, working, rows, stopped>>,
           arrived' \subseteq Jobs, pushing' \in [Replicas -> SUBSET Jobs]
    PROVE  Inv'
<1>1. CASE Len(memory[p]) >= MaxQueue
  <2>1. UNCHANGED <<memory, wake, pump, timer, oldTimers>>
    BY <1>1 DEF PushMemory
  <2>2. TypeOK'
    BY <2>1 DEF Inv, TypeOK
  <2>3. WakeMeansWaiting' /\ SlotKept' /\ Bounded'
    BY <2>1, BoundsKept DEF Inv, WakeMeansWaiting
  <2> QED
    BY <2>2, <2>3 DEF Inv
<1>2. CASE ~(Len(memory[p]) >= MaxQueue)
  <2> DEFINE new == Append(memory[p], <<j, "memory">>)
  <2>1. memory' = [memory EXCEPT ![p] = new] /\ Wake(p)
    BY <1>2 DEF PushMemory
  <2>2. memory[p] \in Seq(Copies) /\ <<j, "memory">> \in Copies
    BY DEF Inv, TypeOK, Copies
  <2>3. new \in Seq(Copies) /\ Len(new) = Len(memory[p]) + 1 /\ Len(memory[p]) \in Nat
    BY <2>2, AppendProperties, LenProperties
  <2>4. TypeOK'
    BY <2>1, <2>3, WakeSafe DEF Inv, TypeOK
  <2>5. WakeMeansWaiting' /\ SlotKept'
    BY <2>1, WakeSafe DEF Inv, SlotKept, Active
  <2>6. Bounded'
    BY <1>2, <2>1, <2>3, ScanQueueAssumption DEF Inv, TypeOK, Bounded, Active
  <2> QED
    BY <2>4, <2>5, <2>6 DEF Inv
<1> QED
  BY <1>1, <1>2

(* A push grows Redis, or goes to memory.                                    *)
LEMMA EnqueueSafe ==
    ASSUME Inv, NEW p \in Replicas, NEW j \in Jobs, Enqueue(p, j)
    PROVE  Inv'
<1>1. arrived' \subseteq Jobs /\ UNCHANGED <<scanId, working, rows, stopped>>
  BY DEF Inv, TypeOK, Enqueue
<1>2. CASE /\ redis' = Append(redis, <<j, "redis">>)
           /\ pushing' = [pushing EXCEPT ![p] = pushing[p] \cup {j}]
           /\ UNCHANGED <<memory, pump, wake, timer, oldTimers>>
  <2>1. <<j, "redis">> \in Copies
    BY DEF Copies
  <2>2. redis' \in Seq(Copies)
    BY <1>2, <2>1, AppendProperties DEF Inv, TypeOK
  <2>3. TypeOK'
    BY <1>1, <1>2, <2>2 DEF Inv, TypeOK
  <2>4. WakeMeansWaiting' /\ SlotKept' /\ Bounded'
    BY <1>1, <1>2, BoundsKept DEF Inv, WakeMeansWaiting
  <2> QED
    BY <2>3, <2>4 DEF Inv
<1>3. CASE PushMemory(p, j) /\ UNCHANGED <<redis, pushing>>
  BY <1>1, <1>3, PushMemorySafe DEF Inv, TypeOK
<1> QED
  BY <1>2, <1>3 DEF Enqueue

(* The answer wakes the pump, or puts the job in memory too.                 *)
LEMMA PushAnsweredSafe ==
    ASSUME Inv, NEW p \in Replicas, NEW j \in Jobs, PushAnswered(p, j)
    PROVE  Inv'
<1>1. /\ pushing' \in [Replicas -> SUBSET Jobs]
      /\ UNCHANGED <<scanId, arrived, redis, working, rows, stopped>>
  BY DEF Inv, TypeOK, PushAnswered
<1>2. CASE Wake(p) /\ UNCHANGED memory
  <2>1. TypeOK'
    BY <1>1, <1>2, WakeSafe DEF Inv, TypeOK
  <2>2. WakeMeansWaiting' /\ SlotKept' /\ Bounded'
    BY <1>1, <1>2, WakeSafe, BoundsKept DEF Inv
  <2> QED
    BY <2>1, <2>2 DEF Inv
<1>3. CASE PushMemory(p, j)
  BY <1>1, <1>3, PushMemorySafe DEF Inv, TypeOK
<1> QED
  BY <1>2, <1>3 DEF PushAnswered

(* A job less, and a woken pump.                                             *)
LEMMA FinishSafe ==
    ASSUME Inv, NEW p \in Replicas, NEW c \in Copies, Finish(p, c),
           rows' \in [Scans \ {NoScan} -> Nat]
    PROVE  Inv'
<1>1. TypeOK'
  BY WakeSafe DEF Inv, TypeOK, Finish
<1>2. WakeMeansWaiting' /\ \A q \in Replicas : pump'[q] = "popping" => pump[q] = "popping"
  BY WakeSafe DEF Inv, Finish
<1>3. IsFiniteSet(working[p] \ {c}) /\ Cardinality(working[p] \ {c}) <= Active(p)
      /\ Cardinality(working[p] \ {c}) \in Nat /\ Active(p) \in Nat
  <2>1. IsFiniteSet(working[p]) /\ c \in working[p]
    BY DEF Inv, Bounded, Finish
  <2>2. Cardinality(working[p]) \in Nat
    BY <2>1, FS_CardinalityType
  <2>3. IsFiniteSet(working[p] \ {c}) /\ Cardinality(working[p] \ {c}) = Cardinality(working[p]) - 1
    BY <2>1, FS_RemoveElement
  <2>4. Cardinality(working[p] \ {c}) \in Nat
    BY <2>3, FS_CardinalityType
  <2> QED
    BY <2>2, <2>3, <2>4 DEF Active
<1>4. SlotKept'
  <2>1. ASSUME NEW q \in Replicas, pump'[q] = "popping" PROVE Cardinality(working'[q]) < Concurrency
    <3>1. Active(q) < Concurrency
      BY <1>2, <2>1 DEF Inv, SlotKept
    <3>2. CASE q = p
      <4>1. working'[q] = working[p] \ {c}
        BY <3>2 DEF Inv, TypeOK, Finish
      <4> QED
        BY <1>3, <3>1, <3>2, <4>1, ScanQueueAssumption
    <3>3. CASE q # p
      <4>1. working'[q] = working[q]
        BY <3>3 DEF Inv, TypeOK, Finish
      <4> QED
        BY <3>1, <4>1 DEF Active
    <3> QED
      BY <3>2, <3>3
  <2> QED
    BY <2>1 DEF SlotKept, Active
<1>5. Bounded'
  <2>1. Cardinality(working[p] \ {c}) <= Concurrency
    BY <1>3, ScanQueueAssumption DEF Inv, Bounded
  <2>2. memory' = [memory EXCEPT ![p] = memory[p]]
        /\ working' = [working EXCEPT ![p] = working[p] \ {c}]
    BY DEF Finish, Inv, TypeOK
  <2>3. memory[p] \in Seq(Copies) /\ Len(memory[p]) <= MaxQueue
    BY DEF Inv, TypeOK, Bounded
  <2> QED
    BY <1>3, <2>1, <2>2, <2>3, BoundsStep DEF Inv
<1> QED
  BY <1>1, <1>2, <1>4, <1>5 DEF Inv

LEMMA StopSafe ==
    ASSUME Inv, NEW p \in Replicas, Stop(p)
    PROVE  Inv'
<1>1. TypeOK'
  BY WakeSafe, EmptySeq DEF Inv, TypeOK, Stop
<1>2. WakeMeansWaiting' /\ SlotKept'
  BY WakeSafe DEF Inv, SlotKept, Stop, Active
<1>3. Bounded'
  BY EmptySeq, ScanQueueAssumption DEF Inv, TypeOK, Bounded, Stop, Active
<1> QED
  BY <1>1, <1>2, <1>3 DEF Inv

(* A scan id that has a row gets no other one.                               *)
LEMMA InsertedTyped ==
    ASSUME TypeOK, NEW scan \in Scans
    PROVE  /\ Inserted(scan) \in [Scans \ {NoScan} -> Nat]
           /\ CountedOnce => \A s \in Scans \ {NoScan} : Inserted(scan)[s] <= 1
BY DEF TypeOK, Inserted, CountedOnce

LEMMA RecordTyped ==
    ASSUME TypeOK, NEW c \in Copies
    PROVE  scanId[c[1]] \in Scans
BY DEF TypeOK, Copies

-----------------------------------------------------------------------------
LEMMA InvInit == Init => Inv
<1> SUFFICES ASSUME Init PROVE Inv
  OBVIOUS
<1>1. TypeOK
  BY EmptySeq DEF Init, TypeOK
<1>2. WakeMeansWaiting /\ SlotKept
  BY DEF Init, WakeMeansWaiting, SlotKept
<1>3. Bounded
  BY FS_EmptySet, ScanQueueAssumption DEF Init, Bounded, Active
<1> QED
  BY <1>1, <1>2, <1>3 DEF Inv

LEMMA InvNext == Inv /\ [Next]_vars => Inv'
<1> SUFFICES ASSUME Inv, [Next]_vars PROVE Inv'
  OBVIOUS
<1>1. CASE UNCHANGED vars
  BY <1>1 DEF Inv, vars, TypeOK, WakeMeansWaiting, SlotKept, Bounded, Active
<1>2. ASSUME NEW p \in Replicas, Pump(p) PROVE Inv'
  BY <1>2, TakeMemorySafe, AskRedisSafe, PopRedisSafe, WaitStepSafe DEF Pump
<1>3. ASSUME NEW p \in Replicas, PopFails(p) PROVE Inv'
  BY <1>3, WaitStepSafe
<1>4. ASSUME NEW p \in Replicas, Timers(p) \/ Stop(p) PROVE Inv'
  BY <1>4, TimersSafe, StopSafe
<1>5. ASSUME NEW p \in Replicas, NEW j \in Jobs, Enqueue(p, j) \/ PushAnswered(p, j) PROVE Inv'
  BY <1>5, EnqueueSafe, PushAnsweredSafe
<1>6. ASSUME NEW p \in Replicas, NEW c \in Copies, Ends(p, c) PROVE Inv'
  <2>1. Finish(p, c) /\ (rows' = Inserted(scanId[c[1]]) \/ rows' = rows)
    BY <1>6 DEF Ends, Record, RecordFails
  <2>2. rows' \in [Scans \ {NoScan} -> Nat]
    BY <2>1, RecordTyped, InsertedTyped DEF Inv, TypeOK
  <2> QED
    BY <2>1, <2>2, FinishSafe
<1> QED
  BY <1>1, <1>2, <1>3, <1>4, <1>5, <1>6 DEF Next

(* Every replica stays within SCAN_QUEUE_CONCURRENCY and SCAN_QUEUE_MAX,     *)
(* whatever Redis does and however calls of the pump, the timers and new     *)
(* scans interleave.                                                         *)
THEOREM AlwaysWithinLimits == Spec => []WithinLimits
<1>1. Inv => WithinLimits
  BY DEF Inv, Bounded, WithinLimits
<1> QED
  BY <1>1, InvInit, InvNext, PTL DEF Spec

(* A wake-up finds its wait: the callback of waitForWork is set only while   *)
(* the pump awaits that promise.                                             *)
THEOREM WakeUpsFindWaiters == Spec => []WakeMeansWaiting
<1>1. Inv => WakeMeansWaiting
  BY DEF Inv
<1> QED
  BY <1>1, InvInit, InvNext, PTL DEF Spec

(* A page load is counted once, however often its job is pushed, popped,     *)
(* retried or recorded, and by however many replicas.                        *)
THEOREM PageLoadsCountOnce == Spec => []CountedOnce
<1>1. Init => CountedOnce
  BY DEF Init, CountedOnce
<1>2. Inv /\ CountedOnce /\ [Next]_vars => CountedOnce'
  <2> SUFFICES ASSUME Inv, CountedOnce, [Next]_vars PROVE CountedOnce'
    OBVIOUS
  <2>1. CASE rows' = rows
    BY <2>1 DEF CountedOnce
  <2>2. ASSUME NEW p \in Replicas, NEW c \in Copies, Record(p, c) PROVE CountedOnce'
    <3>1. rows' = Inserted(scanId[c[1]]) /\ scanId[c[1]] \in Scans /\ TypeOK
      BY <2>2, RecordTyped DEF Record, Inv
    <3>2. rows' \in [Scans \ {NoScan} -> Nat] /\ \A s \in Scans \ {NoScan} : rows'[s] <= 1
      BY <3>1, InsertedTyped
    <3> QED
      BY <3>2 DEF CountedOnce
  <2>3. rows' = rows \/ \E p \in Replicas, c \in Copies : Record(p, c)
    BY DEF Next, vars, Pump, TakeMemory, AskRedis, PopRedis, PopNothing, WaitWhenBusy, PopFails,
           Timers, TimerFires, OldTimerFires, Stop, Enqueue, PushAnswered, Ends, RecordFails
  <2> QED
    BY <2>1, <2>2, <2>3
<1> QED
  BY <1>1, <1>2, InvInit, InvNext, PTL DEF Spec

-----------------------------------------------------------------------------
(* No copy of a job is in two places: a list names it once, no two lists     *)
(* name it, and while one replica records it no list and no other replica    *)
(* has it. New copies are new because a job arrives once; the copy a request *)
(* keeps while its push is not answered has entered no memory yet.           *)
Distinct(list) == \A m, n \in 1..Len(list) : list[m] = list[n] => m = n

ListsApart ==
    /\ Distinct(redis) /\ \A p \in Replicas : Distinct(memory[p])
    /\ \A c \in Range(redis) : c[2] = "redis" /\ c[1] \in arrived
    /\ \A p \in Replicas : \A c \in Range(memory[p]) : c[2] = "memory" /\ c[1] \in arrived
    /\ \A p, q \in Replicas : p # q => Range(memory[p]) \cap Range(memory[q]) = {}

WorkApart ==
    \A p \in Replicas : \A c \in working[p] :
        /\ c[1] \in arrived
        /\ c \notin Range(redis)
        /\ \A q \in Replicas : c \notin Range(memory[q]) /\ (q # p => c \notin working[q])

Held == Range(redis) \cup UNION {Range(memory[p]) \cup working[p] : p \in Replicas}

InMemory(j) == \E p \in Replicas : <<j, "memory">> \in Range(memory[p]) \cup working[p]

KeptApart ==
    \A p \in Replicas : \A j \in pushing[p] :
        j \in arrived /\ ~InMemory(j) /\ \A q \in Replicas \ {p} : j \notin pushing[q]

OnePlace == Inv /\ ListsApart /\ WorkApart /\ KeptApart

(* What waits is held by some list or worker, or kept by a request.          *)
LEMMA WaitingParts ==
    ASSUME NEW c
    PROVE  /\ c \in Waiting <=> c \in Held \/ \E q \in Replicas : c \in Kept(q)
           /\ c \in Waiting' <=> c \in Held' \/ \E q \in Replicas : c \in Kept(q)'
           /\ c \in Held <=> c \in Range(redis) \/ \E q \in Replicas : c \in Range(memory[q]) \cup working[q]
           /\ c \in Held' <=> c \in Range(redis') \/ \E q \in Replicas : c \in Range(memory'[q]) \cup working'[q]
BY DEF Waiting, Held

(* Steps that put no copy into a memory leave the kept ones apart.           *)
LEMMA StillKept ==
    ASSUME KeptApart, UNCHANGED <<arrived, pushing>>,
           \A j \in Jobs : InMemory(j)' => InMemory(j), TypeOK
    PROVE  KeptApart' /\ \A q \in Replicas : Kept(q)' = Kept(q)
<1>1. \A q \in Replicas : pushing'[q] = pushing[q] /\ pushing[q] \subseteq Jobs
  BY DEF TypeOK
<1>2. QED BY <1>1 DEF KeptApart, Kept

LEMMA AppendedList ==
    ASSUME NEW S, NEW list \in Seq(S), NEW x \in S
    PROVE  /\ Range(Append(list, x)) = Range(list) \cup {x}
           /\ Distinct(list) /\ x \notin Range(list) => Distinct(Append(list, x))
<1>1. /\ Append(list, x) \in Seq(S) /\ Len(Append(list, x)) = Len(list) + 1 /\ Len(list) \in Nat
      /\ \A n \in 1..Len(list) : Append(list, x)[n] = list[n]
      /\ Append(list, x)[Len(list) + 1] = x
      /\ DOMAIN list = 1..Len(list) /\ DOMAIN Append(list, x) = 1..Len(list) + 1
  BY AppendProperties, LenProperties
<1>2. ASSUME NEW y PROVE y \in Range(Append(list, x)) <=> y \in Range(list) \cup {x}
  <2>1. y \in Range(Append(list, x)) <=> \E n \in 1..Len(list) + 1 : Append(list, x)[n] = y
    BY <1>1 DEF Range
  <2>2. y \in Range(list) <=> \E n \in 1..Len(list) : list[n] = y
    BY <1>1 DEF Range
  <2>3. \A n : n \in 1..Len(list) + 1 <=> n \in 1..Len(list) \/ n = Len(list) + 1
    BY <1>1
  <2>4. QED BY <1>1, <2>1, <2>2, <2>3
<1>3. ASSUME Distinct(list), x \notin Range(list) PROVE Distinct(Append(list, x))
  <2>1. \A n \in 1..Len(list) : list[n] # x BY <1>1, <1>3 DEF Range
  <2>2. \A n : n \in 1..Len(Append(list, x)) <=> n \in 1..Len(list) \/ n = Len(list) + 1
    BY <1>1
  <2>3. QED BY <1>1, <1>3, <2>1, <2>2 DEF Distinct
<1>4. QED BY <1>2, <1>3

LEMMA TakenList ==
    ASSUME NEW S, NEW list \in Seq(S), list # <<>>, Distinct(list)
    PROVE  /\ Head(list) \in Range(list)
           /\ Range(Tail(list)) = Range(list) \ {Head(list)}
           /\ Distinct(Tail(list))
<1>1. /\ Head(list) = list[1] /\ Tail(list) \in Seq(S)
      /\ Len(list) \in Nat \ {0} /\ Len(Tail(list)) = Len(list) - 1
      /\ \A n \in 1..Len(Tail(list)) : Tail(list)[n] = list[n + 1]
      /\ DOMAIN list = 1..Len(list) /\ DOMAIN Tail(list) = 1..Len(list) - 1
  BY HeadTailProperties, LenProperties, EmptySeq
<1>2. Head(list) \in Range(list)
  <2>1. 1 \in DOMAIN list BY <1>1
  <2>2. QED BY <1>1, <2>1 DEF Range
<1>3. ASSUME NEW y PROVE y \in Range(Tail(list)) <=> y \in Range(list) /\ y # Head(list)
  <2>1. y \in Range(list) <=> \E n \in 1..Len(list) : list[n] = y BY <1>1 DEF Range
  <2>2. y \in Range(Tail(list)) <=> \E n \in 1..Len(list) - 1 : list[n + 1] = y
    BY <1>1 DEF Range
  <2>3. ASSUME NEW n \in 1..Len(list) - 1, list[n + 1] = y
        PROVE  y \in Range(list) /\ y # Head(list)
    <3>1. n + 1 \in 1..Len(list) /\ 1 \in 1..Len(list) /\ n + 1 # 1 BY <1>1
    <3>2. list[n + 1] # list[1] BY <1>1, <3>1 DEF Distinct
    <3>3. QED BY <1>1, <2>1, <2>3, <3>1, <3>2
  <2>4. ASSUME NEW n \in 1..Len(list), list[n] = y, y # Head(list)
        PROVE  \E m \in 1..Len(list) - 1 : list[m + 1] = y
    <3>1. n # 1 BY <1>1, <2>4
    <3>2. n - 1 \in 1..Len(list) - 1 /\ (n - 1) + 1 = n BY <1>1, <3>1
    <3>3. QED BY <2>4, <3>2
  <2>5. QED BY <2>1, <2>2, <2>3, <2>4
<1>4. Distinct(Tail(list))
  <2>1. ASSUME NEW m \in 1..Len(Tail(list)), NEW n \in 1..Len(Tail(list)),
               Tail(list)[m] = Tail(list)[n]
        PROVE  m = n
    <3>1. m + 1 \in 1..Len(list) /\ n + 1 \in 1..Len(list) BY <1>1
    <3>2. list[m + 1] = list[n + 1] BY <1>1, <2>1
    <3>3. m + 1 = n + 1 BY <3>1, <3>2 DEF Distinct
    <3>4. QED BY <1>1, <3>3
  <2>2. QED BY <2>1 DEF Distinct
<1>5. QED BY <1>2, <1>3, <1>4

LEMMA NoList == Range(<<>>) = {} /\ Distinct(<<>>)
BY EmptySeq DEF Range, Distinct

-----------------------------------------------------------------------------
(* How the places of copies change in each step.                             *)
LEMMA TakeMemoryApart ==
    ASSUME OnePlace, NEW p \in Replicas, TakeMemory(p)
    PROVE  ListsApart' /\ WorkApart' /\ KeptApart' /\ Waiting' = Waiting
<1> DEFINE c == Head(memory[p])
<1>1. /\ memory[p] \in Seq(Copies) /\ memory[p] # <<>> /\ Distinct(memory[p])
      /\ memory \in [Replicas -> Seq(Copies)] /\ working \in [Replicas -> SUBSET Copies]
  BY DEF OnePlace, Inv, TypeOK, ListsApart, TakeMemory
<1>2. /\ c \in Range(memory[p]) /\ Range(Tail(memory[p])) = Range(memory[p]) \ {c}
      /\ Distinct(Tail(memory[p]))
  BY <1>1, TakenList
<1>3. /\ memory'[p] = Tail(memory[p]) /\ working'[p] = working[p] \cup {c}
      /\ \A q \in Replicas \ {p} : memory'[q] = memory[q] /\ working'[q] = working[q]
      /\ redis' = redis /\ arrived' = arrived
  BY <1>1 DEF TakeMemory
<1> HIDE DEF c
<1>4. ListsApart' BY <1>2, <1>3 DEF OnePlace, ListsApart
<1>5. /\ c[1] \in arrived /\ c \notin Range(redis)
      /\ \A q \in Replicas : c \notin working[q] /\ (q # p => c \notin Range(memory[q]))
  BY <1>2 DEF OnePlace, ListsApart, WorkApart
<1>6. WorkApart'
  <2>1. ASSUME NEW q \in Replicas, NEW d \in working'[q]
        PROVE  /\ d[1] \in arrived' /\ d \notin Range(redis')
               /\ \A o \in Replicas : d \notin Range(memory'[o]) /\ (o # q => d \notin working'[o])
    <3>1. CASE d = c /\ q = p BY <1>2, <1>3, <1>5, <3>1
    <3>2. CASE d \in working[q] BY <1>2, <1>3, <1>5, <3>2 DEF OnePlace, WorkApart
    <3>3. QED BY <1>3, <2>1, <3>1, <3>2
  <2>2. QED BY <2>1 DEF WorkApart
<1>7. \A q \in Replicas : q = p \/ Range(memory'[q]) \cup working'[q] = Range(memory[q]) \cup working[q]
  BY <1>3
<1>8. Range(memory'[p]) \cup working'[p] = Range(memory[p]) \cup working[p]
  BY <1>2, <1>3
<1>9. Held' = Held BY <1>3, <1>7, <1>8 DEF Held
<1>10. \A j \in Jobs : InMemory(j)' => InMemory(j) BY <1>7, <1>8 DEF InMemory
<1>11. UNCHANGED <<arrived, pushing>> BY DEF TakeMemory
<1>12. KeptApart' /\ \A q \in Replicas : Kept(q)' = Kept(q)
  BY <1>10, <1>11, StillKept DEF OnePlace, Inv
<1>13. QED BY <1>4, <1>6, <1>9, <1>12, WaitingParts

LEMMA PopRedisApart ==
    ASSUME OnePlace, NEW p \in Replicas, PopRedis(p)
    PROVE  ListsApart' /\ WorkApart' /\ KeptApart' /\ Waiting' = Waiting
<1> DEFINE c == Head(redis)
<1>1. /\ redis \in Seq(Copies) /\ redis # <<>> /\ Distinct(redis)
      /\ working \in [Replicas -> SUBSET Copies]
  BY DEF OnePlace, Inv, TypeOK, ListsApart, PopRedis
<1>2. c \in Range(redis) /\ Range(Tail(redis)) = Range(redis) \ {c} /\ Distinct(Tail(redis))
  BY <1>1, TakenList
<1>3. /\ redis' = Tail(redis) /\ working'[p] = working[p] \cup {c}
      /\ \A q \in Replicas \ {p} : working'[q] = working[q]
      /\ memory' = memory /\ arrived' = arrived
  BY <1>1 DEF PopRedis
<1> HIDE DEF c
<1>4. ListsApart' BY <1>2, <1>3 DEF OnePlace, ListsApart
<1>5. /\ c[1] \in arrived
      /\ \A q \in Replicas : c \notin working[q] /\ c \notin Range(memory[q])
  <2>1. c[1] \in arrived /\ c[2] = "redis" BY <1>2 DEF OnePlace, ListsApart
  <2>2. ASSUME NEW q \in Replicas PROVE c \notin Range(memory[q])
    BY <2>1 DEF OnePlace, ListsApart
  <2>3. QED BY <1>2, <2>1, <2>2 DEF OnePlace, WorkApart
<1>6. WorkApart'
  <2>1. ASSUME NEW q \in Replicas, NEW d \in working'[q]
        PROVE  /\ d[1] \in arrived' /\ d \notin Range(redis')
               /\ \A o \in Replicas : d \notin Range(memory'[o]) /\ (o # q => d \notin working'[o])
    <3>1. CASE d = c /\ q = p BY <1>2, <1>3, <1>5, <3>1
    <3>2. CASE d \in working[q] BY <1>2, <1>3, <1>5, <3>2 DEF OnePlace, WorkApart
    <3>3. QED BY <1>3, <2>1, <3>1, <3>2
  <2>2. QED BY <2>1 DEF WorkApart
<1>7. ASSUME NEW d PROVE d \in Held' <=> d \in Held
  <2>1. d \in Held' <=> d \in Range(redis') \/ \E q \in Replicas : d \in Range(memory'[q]) \cup working'[q]
    BY DEF Held
  <2>2. d \in Held <=> d \in Range(redis) \/ \E q \in Replicas : d \in Range(memory[q]) \cup working[q]
    BY DEF Held
  <2>3. QED BY <1>2, <1>3, <2>1, <2>2
<1>8. \A j \in Jobs : InMemory(j)' => InMemory(j)
  <2>1. c[2] = "redis" BY <1>2 DEF OnePlace, ListsApart
  <2>2. ASSUME NEW j \in Jobs PROVE <<j, "memory">> # c BY <2>1
  <2>3. QED BY <1>3, <2>2 DEF InMemory
<1>9. UNCHANGED <<arrived, pushing>> BY DEF PopRedis
<1>10. KeptApart' /\ \A q \in Replicas : Kept(q)' = Kept(q)
  BY <1>8, <1>9, StillKept DEF OnePlace, Inv
<1>11. QED BY <1>4, <1>6, <1>7, <1>10, WaitingParts

(* One more copy on the list, of a job that was nowhere.                     *)
LEMMA ListPushApart ==
    ASSUME OnePlace, NEW j \in Jobs, j \notin arrived, arrived' = arrived \cup {j},
           redis' = Append(redis, <<j, "redis">>), UNCHANGED <<memory, working>>
    PROVE  ListsApart' /\ WorkApart' /\ Held' = Held \cup {<<j, "redis">>}
<1> DEFINE new == <<j, "redis">>
<1>1. redis \in Seq(Copies) /\ Distinct(redis) /\ new \in Copies /\ new[1] = j /\ new[2] = "redis"
  BY DEF OnePlace, Inv, TypeOK, ListsApart, Copies
<1> HIDE DEF new
<1>2. new \notin Range(redis) /\ \A q \in Replicas : new \notin working[q]
  BY <1>1 DEF OnePlace, ListsApart, WorkApart
<1>3. redis' = Append(redis, new) BY DEF new
<1>4. Range(redis') = Range(redis) \cup {new} /\ Distinct(redis')
  BY <1>1, <1>2, <1>3, AppendedList
<1>5. ListsApart' BY <1>1, <1>4 DEF OnePlace, ListsApart
<1>6. WorkApart' BY <1>2, <1>4 DEF OnePlace, WorkApart
<1>7. Held' = Held \cup {new} BY <1>4 DEF Held
<1>8. QED BY <1>5, <1>6, <1>7 DEF new

(* A replica's memory takes a copy that was in no memory, or drops it.       *)
LEMMA MemoryPushApart ==
    ASSUME OnePlace, NEW p \in Replicas, NEW j \in Jobs, ~InMemory(j), PushMemory(p, j),
           arrived' = arrived \cup {j}, UNCHANGED <<redis, working>>
    PROVE  /\ ListsApart' /\ WorkApart'
           /\ \E new \in SUBSET {<<j, "memory">>} : Held' = Held \cup new
           /\ \A k \in Jobs : InMemory(k)' => InMemory(k) \/ k = j
<1> DEFINE copy == <<j, "memory">>
<1>1. /\ memory \in [Replicas -> Seq(Copies)] /\ copy \in Copies
      /\ copy[1] = j /\ copy[2] = "memory"
  BY DEF OnePlace, Inv, TypeOK, Copies
<1>2. memory' = memory \/ memory' = [memory EXCEPT ![p] = Append(memory[p], copy)]
  BY DEF PushMemory
<1>3. \A q \in Replicas : copy \notin Range(memory[q]) /\ copy \notin working[q]
  BY DEF InMemory
<1>4. ASSUME NEW k \in Jobs PROVE <<k, "memory">> = copy => k = j OBVIOUS
<1> HIDE DEF copy
<1>5. PICK new \in {{}, {copy}} :
        /\ Range(memory'[p]) = Range(memory[p]) \cup new /\ Distinct(memory'[p])
        /\ \A q \in Replicas \ {p} : memory'[q] = memory[q]
  <2>1. CASE memory' = memory
    <3>1. Range(memory'[p]) = Range(memory[p]) \cup {} /\ Distinct(memory'[p])
      BY <2>1 DEF OnePlace, ListsApart
    <3>2. QED BY <2>1, <3>1
  <2>2. CASE memory' = [memory EXCEPT ![p] = Append(memory[p], copy)]
    <3>1. memory'[p] = Append(memory[p], copy)
          /\ \A q \in Replicas \ {p} : memory'[q] = memory[q]
      BY <1>1, <2>2
    <3>2. memory[p] \in Seq(Copies) /\ Distinct(memory[p])
      BY <1>1 DEF OnePlace, ListsApart
    <3>3. QED BY <1>1, <1>3, <3>1, <3>2, AppendedList
  <2>3. QED BY <1>2, <2>1, <2>2
<1>6. \A q \in Replicas \ {p} : Range(memory'[q]) = Range(memory[q]) BY <1>5
<1>7. ListsApart'
  <2>1. \A q \in Replicas : Distinct(memory'[q]) BY <1>5 DEF OnePlace, ListsApart
  <2>2. ASSUME NEW q \in Replicas, NEW c \in Range(memory'[q])
        PROVE  c[2] = "memory" /\ c[1] \in arrived'
    <3>1. c \in Range(memory[q]) \/ c = copy BY <1>5, <1>6, <2>2
    <3>2. QED BY <1>1, <3>1 DEF OnePlace, ListsApart
  <2>3. ASSUME NEW q \in Replicas, NEW o \in Replicas, q # o
        PROVE  Range(memory'[q]) \cap Range(memory'[o]) = {}
    <3>1. Range(memory[q]) \cap Range(memory[o]) = {} BY <2>3 DEF OnePlace, ListsApart
    <3>2. CASE q # p /\ o # p BY <1>6, <3>1, <3>2
    <3>3. CASE q = p BY <1>3, <1>5, <1>6, <2>3, <3>1, <3>3
    <3>4. CASE o = p BY <1>3, <1>5, <1>6, <2>3, <3>1, <3>4
    <3>5. QED BY <3>2, <3>3, <3>4
  <2>4. QED BY <2>1, <2>2, <2>3 DEF OnePlace, ListsApart
<1>8. WorkApart'
  <2>1. ASSUME NEW q \in Replicas, NEW c \in working[q]
        PROVE  /\ c[1] \in arrived' /\ c \notin Range(redis)
               /\ \A o \in Replicas : c \notin Range(memory'[o]) /\ (o # q => c \notin working[o])
    <3>1. /\ c[1] \in arrived /\ c \notin Range(redis) /\ c # copy
          /\ \A o \in Replicas : c \notin Range(memory[o]) /\ (o # q => c \notin working[o])
      BY <1>3, <2>1 DEF OnePlace, WorkApart
    <3>2. QED BY <1>5, <1>6, <3>1
  <2>2. QED BY <2>1 DEF WorkApart
<1>9. ASSUME NEW d PROVE d \in Held' <=> d \in Held \cup new
  <2>1. d \in Held' <=> d \in Range(redis) \/ \E q \in Replicas : d \in Range(memory'[q]) \cup working[q]
    BY WaitingParts
  <2>2. d \in Held <=> d \in Range(redis) \/ \E q \in Replicas : d \in Range(memory[q]) \cup working[q]
    BY WaitingParts
  <2>3. QED BY <1>5, <1>6, <2>1, <2>2
<1>10. Held' = Held \cup new BY <1>9
<1>11. ASSUME NEW k \in Jobs, InMemory(k)' PROVE InMemory(k) \/ k = j
  <2>1. PICK q \in Replicas : <<k, "memory">> \in Range(memory'[q]) \cup working[q]
    BY <1>11 DEF InMemory
  <2>2. <<k, "memory">> \in Range(memory[q]) \cup working[q] \/ <<k, "memory">> = copy
    BY <1>5, <1>6, <2>1
  <2>3. QED BY <1>4, <2>2 DEF InMemory
<1>12. new \in SUBSET {copy} BY <1>5
<1>13. QED BY <1>7, <1>8, <1>10, <1>11, <1>12 DEF copy

(* A new job has the copy its request keeps and perhaps one on the list, or  *)
(* at most one in memory.                                                    *)
LEMMA EnqueueApart ==
    ASSUME OnePlace, NEW p \in Replicas, NEW j \in Jobs, Enqueue(p, j)
    PROVE  /\ ListsApart' /\ WorkApart' /\ KeptApart'
           /\ \E copies \in SUBSET Log!CopiesOf(j) : Waiting' = Waiting \cup copies
<1>1. j \notin arrived /\ arrived' = arrived \cup {j} /\ working' = working
      /\ pushing \in [Replicas -> SUBSET Jobs]
  BY DEF Enqueue, OnePlace, Inv, TypeOK
<1>2. ~InMemory(j) /\ \A q \in Replicas : j \notin pushing[q]
  <2>1. ASSUME InMemory(j) PROVE j \in arrived
    <3>1. PICK q \in Replicas : <<j, "memory">> \in Range(memory[q]) \cup working[q]
      BY <2>1 DEF InMemory
    <3>2. <<j, "memory">>[1] \in arrived BY <3>1 DEF OnePlace, ListsApart, WorkApart
    <3>3. QED BY <3>2
  <2>2. QED BY <1>1, <2>1 DEF OnePlace, KeptApart
<1>3. CASE /\ redis' = Append(redis, <<j, "redis">>)
           /\ pushing' = [pushing EXCEPT ![p] = pushing[p] \cup {j}]
           /\ UNCHANGED memory
  <2>1. ListsApart' /\ WorkApart' /\ Held' = Held \cup {<<j, "redis">>}
    BY <1>1, <1>3, ListPushApart
  <2>2. pushing'[p] = pushing[p] \cup {j} /\ \A q \in Replicas \ {p} : pushing'[q] = pushing[q]
    BY <1>1, <1>3
  <2>3. \A k : InMemory(k)' = InMemory(k) BY <1>1, <1>3 DEF InMemory
  <2>4. KeptApart' BY <1>1, <1>2, <2>2, <2>3 DEF OnePlace, KeptApart
  <2>5. Kept(p)' = Kept(p) \cup {<<j, "memory">>} /\ \A q \in Replicas \ {p} : Kept(q)' = Kept(q)
    BY <2>2 DEF Kept
  <2>6. ASSUME NEW d PROVE d \in Waiting' <=> d \in Waiting \cup Log!CopiesOf(j)
    <3>1. d \in Log!CopiesOf(j) <=> d = <<j, "redis">> \/ d = <<j, "memory">>
      BY DEF Log!CopiesOf
    <3>2. QED BY <2>1, <2>5, <3>1, WaitingParts
  <2>7. Waiting' = Waiting \cup Log!CopiesOf(j) BY <2>6
  <2>8. QED BY <2>1, <2>4, <2>7
<1>4. CASE PushMemory(p, j) /\ UNCHANGED <<redis, pushing>>
  <2>1. ListsApart' /\ WorkApart' BY <1>1, <1>2, <1>4, MemoryPushApart
  <2>2. PICK new \in SUBSET {<<j, "memory">>} : Held' = Held \cup new
    BY <1>1, <1>2, <1>4, MemoryPushApart
  <2>3. \A k \in Jobs : InMemory(k)' => InMemory(k) \/ k = j
    BY <1>1, <1>2, <1>4, MemoryPushApart
  <2>4. KeptApart' BY <1>1, <1>2, <1>4, <2>3 DEF OnePlace, KeptApart
  <2>5. \A q \in Replicas : Kept(q)' = Kept(q) BY <1>4 DEF Kept
  <2>6. ASSUME NEW d PROVE d \in Waiting' <=> d \in Waiting \cup new
    BY <2>2, <2>5, WaitingParts
  <2>7. Waiting' = Waiting \cup new BY <2>6
  <2>8. new \in SUBSET Log!CopiesOf(j) BY DEF Log!CopiesOf
  <2>9. QED BY <2>1, <2>4, <2>7, <2>8
<1>5. QED BY <1>3, <1>4 DEF Enqueue

(* The answer drops the copy the request keeps, or puts it into memory.      *)
LEMMA PushAnsweredApart ==
    ASSUME OnePlace, NEW p \in Replicas, NEW j \in Jobs, PushAnswered(p, j)
    PROVE  ListsApart' /\ WorkApart' /\ KeptApart' /\ Waiting' \subseteq Waiting
<1>1. /\ j \in pushing[p] /\ pushing \in [Replicas -> SUBSET Jobs]
      /\ pushing'[p] = pushing[p] \ {j}
      /\ \A q \in Replicas \ {p} : pushing'[q] = pushing[q]
      /\ UNCHANGED <<arrived, redis, working>>
  BY DEF PushAnswered, OnePlace, Inv, TypeOK
<1>2. /\ j \in arrived /\ ~InMemory(j) /\ \A q \in Replicas \ {p} : j \notin pushing[q]
      /\ arrived' = arrived \cup {j}
  BY <1>1 DEF OnePlace, KeptApart
<1>3. PICK new \in SUBSET {<<j, "memory">>} :
        /\ ListsApart' /\ WorkApart' /\ Held' = Held \cup new
        /\ \A k \in Jobs : InMemory(k)' => InMemory(k) \/ k = j
  <2>1. CASE UNCHANGED memory
    <3>1. ListsApart' /\ WorkApart' BY <1>1, <2>1 DEF OnePlace, ListsApart, WorkApart
    <3>2. Held' = Held \cup {} BY <1>1, <2>1 DEF Held
    <3>3. \A k \in Jobs : InMemory(k)' = InMemory(k) BY <1>1, <2>1 DEF InMemory
    <3>4. QED BY <3>1, <3>2, <3>3
  <2>2. CASE PushMemory(p, j) BY <1>1, <1>2, <2>2, MemoryPushApart
  <2>3. QED BY <2>1, <2>2 DEF PushAnswered
<1>4. KeptApart'
  <2>1. ASSUME NEW q \in Replicas, NEW k \in pushing'[q]
        PROVE  k \in arrived /\ ~InMemory(k)' /\ \A o \in Replicas \ {q} : k \notin pushing'[o]
    <3>1. k \in pushing[q] /\ k # j /\ k \in Jobs BY <1>1, <1>2, <2>1
    <3>2. k \in arrived /\ ~InMemory(k) /\ \A o \in Replicas \ {q} : k \notin pushing[o]
      BY <3>1 DEF OnePlace, KeptApart
    <3>3. QED BY <1>1, <1>3, <3>1, <3>2
  <2>2. QED BY <1>1, <2>1 DEF KeptApart
<1>5. ASSUME NEW d \in Waiting' PROVE d \in Waiting
  <2>1. CASE d \in Held' \ new BY <1>3, <2>1, WaitingParts
  <2>2. CASE d \in new
    <3>1. d \in Kept(p) BY <1>1, <2>2 DEF Kept
    <3>2. QED BY <3>1, WaitingParts
  <2>3. ASSUME NEW q \in Replicas, d \in Kept(q)' PROVE d \in Waiting
    <3>1. pushing'[q] \subseteq pushing[q] BY <1>1
    <3>2. d \in Kept(q) BY <2>3, <3>1 DEF Kept
    <3>3. QED BY <3>2, WaitingParts
  <2>4. QED BY <1>5, <2>1, <2>2, <2>3, WaitingParts
<1>6. QED BY <1>3, <1>4, <1>5

(* A copy that is done is nowhere any more.                                  *)
LEMMA FinishApart ==
    ASSUME OnePlace, NEW p \in Replicas, NEW c \in Copies, Finish(p, c)
    PROVE  ListsApart' /\ WorkApart' /\ KeptApart' /\ c \in Waiting /\ Waiting' = Waiting \ {c}
<1>1. /\ working \in [Replicas -> SUBSET Copies] /\ c \in working[p]
      /\ working'[p] = working[p] \ {c}
      /\ \A q \in Replicas \ {p} : working'[q] = working[q]
      /\ redis' = redis /\ memory' = memory /\ arrived' = arrived
  BY DEF OnePlace, Inv, TypeOK, Finish
<1>2. ListsApart' BY <1>1 DEF OnePlace, ListsApart
<1>3. \A q \in Replicas : working'[q] \subseteq working[q] BY <1>1
<1>4. WorkApart' BY <1>1, <1>3 DEF OnePlace, WorkApart
<1>5. c \notin Range(redis) /\ \A q \in Replicas : c \notin Range(memory[q]) /\ (q # p => c \notin working[q])
  BY <1>1 DEF OnePlace, WorkApart
<1>6. ASSUME NEW d
      PROVE  /\ d \in Held' <=> d \in Held /\ d # c
             /\ c \in Held
  <2>1. d \in Held' <=> d \in Range(redis') \/ \E q \in Replicas : d \in Range(memory'[q]) \cup working'[q]
    BY DEF Held
  <2>2. \A x : x \in Held <=> x \in Range(redis) \/ \E q \in Replicas : x \in Range(memory[q]) \cup working[q]
    BY DEF Held
  <2>3. c \in Held BY <1>1, <2>2
  <2>4. QED BY <1>1, <1>5, <2>1, <2>2, <2>3
<1>7. \A j \in Jobs : InMemory(j)' => InMemory(j) BY <1>1, <1>3 DEF InMemory
<1>8. UNCHANGED <<arrived, pushing>> BY DEF Finish
<1>9. KeptApart' /\ \A q \in Replicas : Kept(q)' = Kept(q)
  BY <1>7, <1>8, StillKept DEF OnePlace, Inv
<1>10. ASSUME NEW q \in Replicas PROVE c \notin Kept(q)
  <2>1. ASSUME NEW j \in pushing[q] PROVE c # <<j, "memory">>
    BY <1>1 DEF OnePlace, KeptApart, InMemory
  <2>2. QED BY <2>1 DEF Kept
<1>11. QED BY <1>2, <1>4, <1>6, <1>9, <1>10, WaitingParts

(* What a stopping replica had in memory is lost.                            *)
LEMMA StopApart ==
    ASSUME OnePlace, NEW p \in Replicas, Stop(p)
    PROVE  ListsApart' /\ WorkApart' /\ KeptApart' /\ Waiting' \subseteq Waiting
<1>1. /\ memory \in [Replicas -> Seq(Copies)] /\ memory'[p] = <<>>
      /\ \A q \in Replicas \ {p} : memory'[q] = memory[q]
      /\ redis' = redis /\ working' = working /\ arrived' = arrived
  BY DEF OnePlace, Inv, TypeOK, Stop
<1>2. \A q \in Replicas : Range(memory'[q]) \subseteq Range(memory[q]) /\ Distinct(memory'[q])
  BY <1>1, NoList DEF OnePlace, ListsApart
<1>3. ListsApart' BY <1>1, <1>2 DEF OnePlace, ListsApart
<1>4. WorkApart' BY <1>1, <1>2 DEF OnePlace, WorkApart
<1>5. Held' \subseteq Held BY <1>1, <1>2 DEF Held
<1>6. \A j \in Jobs : InMemory(j)' => InMemory(j) BY <1>1, <1>2 DEF InMemory
<1>7. UNCHANGED <<arrived, pushing>> BY DEF Stop
<1>8. KeptApart' /\ \A q \in Replicas : Kept(q)' = Kept(q)
  BY <1>6, <1>7, StillKept DEF OnePlace, Inv
<1>9. QED BY <1>3, <1>4, <1>5, <1>8, WaitingParts

(* A job Redis took off the list before the pop failed is lost.              *)
LEMMA PopFailsApart ==
    ASSUME OnePlace, NEW p \in Replicas, PopFails(p)
    PROVE  ListsApart' /\ WorkApart' /\ KeptApart' /\ Waiting' \subseteq Waiting
<1>1. /\ redis \in Seq(Copies) /\ redis # <<>> /\ Distinct(redis)
      /\ redis' = redis \/ redis' = Tail(redis)
      /\ UNCHANGED <<arrived, pushing, memory, working>>
  BY DEF OnePlace, Inv, TypeOK, ListsApart, PopFails
<1>2. Range(redis') \subseteq Range(redis) /\ Distinct(redis') BY <1>1, TakenList
<1>3. ListsApart' BY <1>1, <1>2 DEF OnePlace, ListsApart
<1>4. WorkApart' BY <1>1, <1>2 DEF OnePlace, WorkApart
<1>5. Held' \subseteq Held BY <1>1, <1>2 DEF Held
<1>6. \A j \in Jobs : InMemory(j)' => InMemory(j) BY <1>1 DEF InMemory
<1>7. KeptApart' /\ \A q \in Replicas : Kept(q)' = Kept(q)
  BY <1>1, <1>6, StillKept DEF OnePlace, Inv
<1>8. QED BY <1>3, <1>4, <1>5, <1>7, WaitingParts

(* The other steps move no copy.                                             *)
LEMMA StillApart ==
    ASSUME OnePlace, UNCHANGED <<arrived, pushing, redis, memory, working>>
    PROVE  ListsApart' /\ WorkApart' /\ KeptApart' /\ Waiting' = Waiting
<1>1. ListsApart' /\ WorkApart' BY DEF OnePlace, ListsApart, WorkApart
<1>2. KeptApart' BY DEF OnePlace, KeptApart, InMemory
<1>3. QED BY <1>1, <1>2 DEF Waiting, Kept

(* A row more, if the page load has none yet.                                *)
LEMMA RecordCounts ==
    ASSUME TypeOK, NEW c \in Copies, rows' = Inserted(scanId[c[1]])
    PROVE  Counted' = Counted \cup ({scanId[c[1]]} \ {NoScan})
<1>1. PICK scan \in Scans : scan = scanId[c[1]] BY RecordTyped
<1>2. rows \in [Scans \ {NoScan} -> Nat] /\ rows' = Inserted(scan) BY <1>1 DEF TypeOK
<1>3. CASE scan = NoScan \/ rows[scan] > 0
  <2>1. rows' = rows BY <1>2, <1>3 DEF Inserted
  <2>2. Counted' = Counted BY <2>1 DEF Counted
  <2>3. {scan} \ {NoScan} \subseteq Counted
    <3>1. CASE scan = NoScan BY <3>1
    <3>2. CASE scan # NoScan
      <4>1. scan \in DOMAIN rows /\ rows[scan] > 0 BY <1>2, <1>3, <3>2
      <4>2. QED BY <4>1 DEF Counted
    <3>3. QED BY <3>1, <3>2
  <2>4. Counted \cup ({scan} \ {NoScan}) = Counted BY <2>3
  <2>5. QED BY <1>1, <2>2, <2>4
<1>4. CASE scan # NoScan /\ ~(rows[scan] > 0)
  <2>1. scan \in DOMAIN rows /\ rows' = [rows EXCEPT ![scan] = rows[scan] + 1]
    BY <1>2, <1>4 DEF Inserted
  <2>2. rows[scan] + 1 > 0 BY <1>2, <2>1
  <2>3. /\ DOMAIN rows' = DOMAIN rows /\ rows'[scan] > 0
        /\ \A s \in DOMAIN rows \ {scan} : rows'[s] = rows[s]
    BY <2>1, <2>2
  <2>4. Counted' = Counted \cup {scan} BY <2>1, <2>3 DEF Counted
  <2>5. {scan} \ {NoScan} = {scan} BY <1>4
  <2>6. QED BY <1>1, <2>4, <2>5
<1>5. QED BY <1>3, <1>4

-----------------------------------------------------------------------------
LEMMA OnePlaceInit == Init => OnePlace
BY InvInit, NoList DEF Init, OnePlace, ListsApart, WorkApart, KeptApart

(* Each step keeps every copy in one place, and is a step of ScanLog.        *)
LEMMA OnePlaceNext ==
    OnePlace /\ [Next]_vars => (ListsApart /\ WorkApart /\ KeptApart)' /\ [Log!LogNext]_(Log!logVars)
<1> SUFFICES ASSUME OnePlace, [Next]_vars
             PROVE  ListsApart' /\ WorkApart' /\ KeptApart' /\ (Log!LogNext \/ UNCHANGED Log!logVars)
  OBVIOUS
<1>0. Inv /\ TypeOK BY DEF OnePlace, Inv
<1>1. ASSUME UNCHANGED <<scanId, arrived, pushing, redis, memory, working, rows>>
      PROVE  ListsApart' /\ WorkApart' /\ KeptApart' /\ UNCHANGED Log!logVars
  <2>1. ListsApart' /\ WorkApart' /\ KeptApart' /\ Waiting' = Waiting BY <1>1, StillApart
  <2>2. Counted' = Counted BY <1>1 DEF Counted
  <2>3. QED BY <1>1, <2>1, <2>2 DEF Log!logVars
<1>2. ASSUME NEW p \in Replicas, TakeMemory(p) \/ PopRedis(p)
      PROVE  ListsApart' /\ WorkApart' /\ KeptApart' /\ UNCHANGED Log!logVars
  <2>1. ListsApart' /\ WorkApart' /\ KeptApart' /\ Waiting' = Waiting
    BY <1>2, TakeMemoryApart, PopRedisApart
  <2>2. UNCHANGED <<scanId, arrived, rows>> BY <1>2 DEF TakeMemory, PopRedis
  <2>3. Counted' = Counted BY <2>2 DEF Counted
  <2>4. QED BY <2>1, <2>2, <2>3 DEF Log!logVars
<1>3. ASSUME NEW p \in Replicas, NEW j \in Jobs, Enqueue(p, j)
      PROVE  ListsApart' /\ WorkApart' /\ KeptApart' /\ Log!LogNext
  <2>1. /\ ListsApart' /\ WorkApart' /\ KeptApart'
        /\ \E copies \in SUBSET Log!CopiesOf(j) : Waiting' = Waiting \cup copies
    BY <1>3, EnqueueApart
  <2>2. j \notin arrived /\ arrived' = arrived \cup {j} /\ UNCHANGED <<scanId, rows>>
    BY <1>3 DEF Enqueue
  <2>3. Counted' = Counted BY <2>2 DEF Counted
  <2>4. Log!HandIn(j) BY <2>1, <2>2, <2>3 DEF Log!HandIn
  <2>5. QED BY <2>1, <2>4 DEF Log!LogNext
<1>4. ASSUME NEW p \in Replicas, NEW c \in Copies, Ends(p, c)
      PROVE  ListsApart' /\ WorkApart' /\ KeptApart' /\ Log!LogNext
  <2>1. Finish(p, c) /\ UNCHANGED <<scanId, arrived>>
    BY <1>4 DEF Ends, Record, RecordFails, Finish
  <2>2. ListsApart' /\ WorkApart' /\ KeptApart' /\ c \in Waiting /\ Waiting' = Waiting \ {c}
    BY <2>1, FinishApart
  <2>3. CASE Record(p, c)
    <3>1. Counted' = Counted \cup ({scanId[c[1]]} \ {NoScan})
      BY <1>0, <2>3, RecordCounts DEF Record
    <3>2. Log!Count(c) BY <2>1, <2>2, <3>1 DEF Log!Count
    <3>3. QED BY <2>2, <3>2 DEF Log!LogNext
  <2>4. CASE RecordFails(p, c)
    <3>1. Counted' = Counted BY <2>4 DEF RecordFails, Counted
    <3>2. Log!Lose({c}) /\ {c} \subseteq Waiting BY <2>1, <2>2, <3>1 DEF Log!Lose
    <3>3. QED BY <2>2, <3>2 DEF Log!LogNext
  <2>5. QED BY <1>4, <2>3, <2>4 DEF Ends
<1>5. ASSUME NEW p \in Replicas,
             Stop(p) \/ PopFails(p) \/ \E j \in Jobs : PushAnswered(p, j)
      PROVE  ListsApart' /\ WorkApart' /\ KeptApart' /\ Log!LogNext
  <2>1. ListsApart' /\ WorkApart' /\ KeptApart' /\ Waiting' \subseteq Waiting
    BY <1>5, StopApart, PopFailsApart, PushAnsweredApart
  <2>2. UNCHANGED <<scanId, arrived, rows>> BY <1>5 DEF Stop, PopFails, PushAnswered
  <2>3. Counted' = Counted BY <2>2 DEF Counted
  <2>4. PICK gone \in SUBSET Waiting : Waiting' = Waiting \ gone
    <3>1. Waiting' = Waiting \ (Waiting \ Waiting') BY <2>1
    <3>2. Waiting \ Waiting' \in SUBSET Waiting OBVIOUS
    <3>3. QED BY <3>1, <3>2
  <2>5. Log!Lose(gone) BY <2>2, <2>3, <2>4 DEF Log!Lose
  <2>6. QED BY <2>1, <2>5 DEF Log!LogNext
<1>6. CASE UNCHANGED vars BY <1>1, <1>6 DEF vars
<1>7. ASSUME NEW p \in Replicas, Pump(p) \/ Timers(p)
      PROVE  TakeMemory(p) \/ PopRedis(p)
             \/ UNCHANGED <<scanId, arrived, pushing, redis, memory, working, rows>>
  BY <1>7 DEF Pump, AskRedis, PopNothing, WaitWhenBusy, Timers, TimerFires, OldTimerFires
<1>8. QED BY <1>1, <1>2, <1>3, <1>4, <1>5, <1>6, <1>7 DEF Next

(* Whatever the pumps, the failing pushes and the stopping replicas do, the  *)
(* queue is a log that counts or loses each copy of a job once.              *)
THEOREM ScansAreLoggedOnce == Spec => ImplementsLog
<1>1. Init => Log!LogInit
  <2> SUFFICES ASSUME Init PROVE Log!LogInit
    OBVIOUS
  <2>1. Waiting = {} BY NoList DEF Init, Waiting, Kept
  <2>2. Counted = {} BY DEF Init, Counted
  <2>3. QED BY <2>1, <2>2 DEF Init, Log!LogInit
<1>2. OnePlace /\ [Next]_vars => OnePlace' /\ [Log!LogNext]_(Log!logVars)
  BY InvNext, OnePlaceNext DEF OnePlace
<1>3. QED
  BY <1>1, <1>2, OnePlaceInit, PTL DEF Spec, ImplementsLog, Log!LogSpec
=============================================================================
