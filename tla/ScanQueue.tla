------------------------------ MODULE ScanQueue ------------------------------
(***************************************************************************)
(* The scan writer: every API replica accepts scan jobs, keeps them on a   *)
(* list in Redis that all replicas share, or in its own memory when Redis  *)
(* fails, and runs one pump that takes jobs and records them.              *)
(*                                                                         *)
(* JavaScript runs to completion between awaits, so a step is what happens *)
(* between two of them. A wait creates a promise and a 200 ms timer for it;*)
(* the timer of a wait that was woken early keeps running, and whatever    *)
(* "wake" then is, it clears it.                                           *)
(***************************************************************************)
EXTENDS Naturals, Sequences, FiniteSets, Functions

CONSTANTS
    Jobs,          \* the scan jobs of one run
    Scans,         \* the scan ids jobs report, one per page load
    NoScan,        \* if in Scans, stands for a job without a scan id
    Replicas,      \* the API processes
    Concurrency,   \* SCAN_QUEUE_CONCURRENCY
    MaxQueue,      \* SCAN_QUEUE_MAX, the bound on a replica's memory
    Faults    \* may Redis calls fail, and may replicas stop?

ASSUME ScanQueueAssumption ==
    /\ Concurrency \in Nat \ {0}
    /\ MaxQueue \in Nat
    /\ Faults \in BOOLEAN

VARIABLES
    scanId,     \* scanId[j]: the scan a job reports; a retry repeats it
    arrived,    \* the jobs that have been enqueued
    pushing,    \* pushing[p]: the jobs Redis has put on the list, not answered yet
    redis,      \* the shared list, next job first
    memory,     \* memory[p]: the fallback queue of replica p
    working,    \* working[p]: the jobs replica p is recording; "active" is their number
    rows,       \* rows[s]: how many scans rows were inserted for scan id s
    pump,       \* pump[p]: where the pump's loop is
    wake,       \* wake[p]: TRUE while "wake" holds the current wait's callback
    timer,      \* timer[p]: TRUE while the current wait's timer runs
    oldTimers,  \* oldTimers[p]: timers still running for waits that are over
    stopped     \* the replicas that have been told to stop

vars == <<scanId, arrived, pushing, redis, memory, working, rows, pump, wake, timer, oldTimers,
          stopped>>

Active(p) == Cardinality(working[p])

(* A job may be queued twice, once each way; the copies are told apart.     *)
Copies == Jobs \X {"redis", "memory"}

-----------------------------------------------------------------------------
Init ==
    /\ scanId \in [Jobs -> Scans]
    /\ arrived = {}
    /\ pushing = [p \in Replicas |-> {}]
    /\ redis = <<>>
    /\ memory = [p \in Replicas |-> <<>>]
    /\ working = [p \in Replicas |-> {}]
    /\ rows = [s \in Scans \ {NoScan} |-> 0]
    /\ pump = [p \in Replicas |-> "take"]
    /\ wake = [p \in Replicas |-> FALSE]
    /\ timer = [p \in Replicas |-> FALSE]
    /\ oldTimers = [p \in Replicas |-> 0]
    /\ stopped = {}

-----------------------------------------------------------------------------
(* Waiting and waking *)

(* this.wake?.(): resolves the current wait, if "wake" is still set. The    *)
(* timer of that wait is not cancelled.                                     *)
Wake(p) ==
    IF wake[p]
    THEN /\ wake' = [wake EXCEPT ![p] = FALSE]
         /\ pump' = [pump EXCEPT ![p] = "take"]
         /\ timer' = [timer EXCEPT ![p] = FALSE]
         /\ oldTimers' = [oldTimers EXCEPT ![p] = @ + 1]
    ELSE UNCHANGED <<wake, pump, timer, oldTimers>>

(* Broken, for mutation: no idle poll.                                      *)
StartWaitWithoutPoll(p) ==
    /\ pump' = [pump EXCEPT ![p] = "wait"]
    /\ wake' = [wake EXCEPT ![p] = TRUE]
    /\ UNCHANGED <<timer, oldTimers>>

(* waitForWork                                                              *)
StartWait(p) ==
    /\ pump' = [pump EXCEPT ![p] = "wait"]
    /\ wake' = [wake EXCEPT ![p] = TRUE]
    /\ timer' = [timer EXCEPT ![p] = TRUE]
    /\ UNCHANGED oldTimers

(* The idle poll: the timer of the current wait. All delays are equal, so   *)
(* older timers fire first.                                                 *)
TimerFires(p) ==
    /\ timer[p] /\ oldTimers[p] = 0
    /\ timer' = [timer EXCEPT ![p] = FALSE]
    /\ wake' = [wake EXCEPT ![p] = FALSE]
    /\ pump' = [pump EXCEPT ![p] = IF wake[p] THEN "take" ELSE @]
    /\ UNCHANGED <<scanId, arrived, pushing, redis, memory, working, rows, oldTimers, stopped>>

(* A timer whose wait is over clears "wake" all the same, and resolves a    *)
(* promise nobody awaits any more.                                          *)
OldTimerFires(p) ==
    /\ oldTimers[p] > 0
    /\ oldTimers' = [oldTimers EXCEPT ![p] = @ - 1]
    /\ wake' = [wake EXCEPT ![p] = FALSE]
    /\ UNCHANGED <<scanId, arrived, pushing, redis, memory, working, rows, pump, timer, stopped>>

-----------------------------------------------------------------------------
(* Enqueue *)

(* pushMemory: a full queue drops the job.                                  *)
PushMemory(p, j) ==
    IF Len(memory[p]) >= MaxQueue
    THEN UNCHANGED <<memory, wake, pump, timer, oldTimers>>
    ELSE /\ memory' = [memory EXCEPT ![p] = Append(@, <<j, "memory">>)]
         /\ Wake(p)

(* enqueueRedis: LPUSH is applied, or fails before that. Until it fails     *)
(* such a push has no effect, so that the job comes when it fails.          *)
Enqueue(p, j) ==
    /\ j \notin arrived
    /\ arrived' = arrived \cup {j}
    /\ \/ /\ redis' = Append(redis, <<j, "redis">>)
          /\ pushing' = [pushing EXCEPT ![p] = @ \cup {j}]
          /\ UNCHANGED <<memory, pump, wake, timer, oldTimers>>
       \/ Faults /\ PushMemory(p, j) /\ UNCHANGED <<redis, pushing>>
    /\ UNCHANGED <<scanId, working, rows, stopped>>

(* The answer: listPush is false for every error, though Redis applied the  *)
(* LPUSH, and the job then goes to memory too.                              *)
PushAnswered(p, j) ==
    /\ j \in pushing[p]
    /\ pushing' = [pushing EXCEPT ![p] = @ \ {j}]
    /\ \/ Wake(p) /\ UNCHANGED memory
       \/ Faults /\ PushMemory(p, j)
    /\ UNCHANGED <<scanId, arrived, redis, working, rows, stopped>>

-----------------------------------------------------------------------------
(* The pump *)

(* Broken, for mutation: one job too many.                                  *)
CanTakeOneMore(p) == pump[p] = "take" /\ p \notin stopped /\ Active(p) <= Concurrency

CanTake(p) == pump[p] = "take" /\ p \notin stopped /\ Active(p) < Concurrency

TakeMemory(p) ==
    /\ CanTake(p)
    /\ memory[p] # <<>>
    /\ memory' = [memory EXCEPT ![p] = Tail(@)]
    /\ working' = [working EXCEPT ![p] = @ \cup {Head(memory[p])}]
    /\ UNCHANGED <<scanId, arrived, pushing, redis, rows, pump, wake, timer, oldTimers, stopped>>

(* An empty memory sends RPOP; "wake" is null while it is awaited, so what  *)
(* is enqueued meanwhile wakes nobody.                                      *)
AskRedis(p) ==
    /\ CanTake(p)
    /\ memory[p] = <<>>
    /\ pump' = [pump EXCEPT ![p] = "popping"]
    /\ UNCHANGED <<scanId, arrived, pushing, redis, memory, working, rows, wake, timer, oldTimers, stopped>>

(* Broken, for mutation: the job is read and stays in the list.             *)
PopRedisPeeks(p) ==
    /\ pump[p] = "popping"
    /\ redis # <<>>
    /\ working' = [working EXCEPT ![p] = @ \cup {Head(redis)}]
    /\ pump' = [pump EXCEPT ![p] = "take"]
    /\ UNCHANGED <<scanId, arrived, pushing, redis, memory, rows, wake, timer, oldTimers, stopped>>

PopRedis(p) ==
    /\ pump[p] = "popping"
    /\ redis # <<>>
    /\ redis' = Tail(redis)
    /\ working' = [working EXCEPT ![p] = @ \cup {Head(redis)}]
    /\ pump' = [pump EXCEPT ![p] = "take"]
    /\ UNCHANGED <<scanId, arrived, pushing, memory, rows, wake, timer, oldTimers, stopped>>

PopNothing(p) ==
    /\ pump[p] = "popping"
    /\ redis = <<>>
    /\ StartWait(p)
    /\ UNCHANGED <<scanId, arrived, pushing, redis, memory, working, rows, stopped>>

(* listPop answers null for an error, as if the list were empty; a job that *)
(* Redis has taken off by then is gone.                                     *)
PopFails(p) ==
    /\ Faults /\ pump[p] = "popping" /\ redis # <<>>
    /\ redis' \in {redis, Tail(redis)}
    /\ StartWait(p)
    /\ UNCHANGED <<scanId, arrived, pushing, memory, working, rows, stopped>>

WaitWhenBusy(p) ==
    /\ pump[p] = "take" /\ p \notin stopped /\ Active(p) >= Concurrency
    /\ StartWait(p)
    /\ UNCHANGED <<scanId, arrived, pushing, redis, memory, working, rows, stopped>>

(* Broken, for mutation: dedupKey is not unique.                            *)
InsertedAlways(scan) ==
    IF scan = NoScan THEN rows ELSE [rows EXCEPT ![scan] = @ + 1]

(* recordSnapshot inserts a row unless dedupKey exists.                     *)
Inserted(scan) ==
    IF scan = NoScan \/ rows[scan] > 0 THEN rows ELSE [rows EXCEPT ![scan] = @ + 1]

(* Finally, the slot is free and the pump is woken.                         *)
Finish(p, c) ==
    /\ c \in working[p]
    /\ working' = [working EXCEPT ![p] = @ \ {c}]
    /\ Wake(p)
    /\ UNCHANGED <<scanId, arrived, pushing, redis, memory, stopped>>

Record(p, c) == Finish(p, c) /\ rows' = Inserted(scanId[c[1]])

(* Any other database error is logged and swallowed.                        *)
RecordFails(p, c) == Finish(p, c) /\ UNCHANGED rows

(* onModuleDestroy                                                          *)
Stop(p) ==
    /\ Faults /\ p \notin stopped
    /\ stopped' = stopped \cup {p}
    /\ memory' = [memory EXCEPT ![p] = <<>>]
    /\ Wake(p)
    /\ UNCHANGED <<scanId, arrived, pushing, redis, working, rows>>

-----------------------------------------------------------------------------
Pump(p) ==
    TakeMemory(p) \/ AskRedis(p) \/ PopRedis(p) \/ PopNothing(p) \/ WaitWhenBusy(p)

Timers(p) == TimerFires(p) \/ OldTimerFires(p)

Ends(p, c) == Record(p, c) \/ RecordFails(p, c)

Next ==
    \E p \in Replicas :
        \/ Pump(p) \/ PopFails(p) \/ Timers(p) \/ Stop(p)
        \/ \E j \in Jobs : Enqueue(p, j) \/ PushAnswered(p, j)
        \/ \E c \in Copies : Ends(p, c)

Spec == Init /\ [][Next]_vars

(* The event loop runs what is ready, timers fire, the database answers,    *)
(* and Redis is not down at every single RPOP.                              *)
FairSpec ==
    /\ Spec
    /\ \A p \in Replicas :
         /\ WF_vars(Pump(p)) /\ WF_vars(Timers(p)) /\ SF_vars(PopRedis(p))
         /\ \A c \in Copies : WF_vars(Ends(p, c))

-----------------------------------------------------------------------------
(* Properties *)

(* Every variable stays within its type.                                    *)
TypeOK ==
    /\ scanId \in [Jobs -> Scans]
    /\ arrived \subseteq Jobs
    /\ pushing \in [Replicas -> SUBSET Jobs]
    /\ redis \in Seq(Copies)
    /\ memory \in [Replicas -> Seq(Copies)]
    /\ working \in [Replicas -> SUBSET Copies]
    /\ rows \in [Scans \ {NoScan} -> Nat]
    /\ pump \in [Replicas -> {"take", "popping", "wait"}]
    /\ wake \in [Replicas -> BOOLEAN]
    /\ timer \in [Replicas -> BOOLEAN]
    /\ oldTimers \in [Replicas -> Nat]
    /\ stopped \subseteq Replicas

(* A replica never records more jobs at once than SCAN_QUEUE_CONCURRENCY,    *)
(* nor holds more than SCAN_QUEUE_MAX in memory.                             *)
WithinLimits ==
    /\ TypeOK
    /\ \A p \in Replicas : Active(p) <= Concurrency /\ Len(memory[p]) <= MaxQueue

(* One page load counts once, whatever is retried by the browser, pushed     *)
(* twice because Redis failed after applying a push, or recorded by two      *)
(* replicas at a time.                                                       *)
CountedOnce == \A s \in DOMAIN rows : rows[s] <= 1

(* "wake" is set only while the pump waits on it: a wake-up never resolves   *)
(* something else.                                                           *)
WakeMeansWaiting == \A p \in Replicas : wake[p] => pump[p] = "wait" /\ timer[p]

(* The pump waits, and neither a job nor a timer can resume it.              *)
Stalled(p) == pump[p] = "wait" /\ ~wake[p]

Queued(p) == Range(redis) \cup Range(memory[p])

(* While a push is not answered the request keeps a copy, for memory.        *)
Kept(p) == pushing[p] \X {"memory"}

(* The jobs in the list, in some memory, kept, or being recorded; the page   *)
(* loads that have a row.                                                    *)
Waiting ==
    Range(redis) \cup UNION {Range(memory[p]) \cup Kept(p) \cup working[p] : p \in Replicas}
Counted == {s \in DOMAIN rows : rows[s] > 0}

Log == INSTANCE ScanLog WITH handedIn <- arrived, waiting <- Waiting, counted <- Counted

(* However many replicas share the list, no copy of a job is ever in two     *)
(* places: each is recorded or lost once, and nothing is counted that was    *)
(* not handed in.                                                            *)
ImplementsLog == Log!LogSpec

(* A queued job is taken, unless every pump that could take it has stalled   *)
(* or been stopped: those of all replicas for a job on the list.             *)
DrainsUnlessStalled ==
    \A c \in Copies :
        (\E p \in Replicas : c \in Queued(p))
           ~> (\A p \in Replicas : c \in Queued(p) => Stalled(p) \/ p \in stopped)

(* Every job in the shared list is taken by some replica: "Idle poll so      *)
(* Redis jobs enqueued by another replica are still drained".                *)
RedisDrains == \A c \in Copies : c \in Range(redis) ~> c \notin Range(redis)
=============================================================================
