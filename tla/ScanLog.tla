------------------------------- MODULE ScanLog -------------------------------
(***************************************************************************)
(* What the scan writer promises, with no Redis, replicas, pumps or        *)
(* timers: a job that is handed in waits, as the copy the request keeps    *)
(* until its push is answered and perhaps as one on the shared list; a     *)
(* copy that waits is counted or lost, and that once; a page load counts   *)
(* at most once.                                                           *)
(*                                                                         *)
(* ScanQueue.tla is shown to implement this module.                        *)
(***************************************************************************)
EXTENDS Naturals

CONSTANTS
    Jobs,     \* the scan jobs of one run
    Scans,    \* the scan ids jobs report, one per page load
    NoScan    \* if in Scans, stands for a job without a scan id

VARIABLES
    scanId,    \* scanId[j]: the scan a job reports
    handedIn,  \* the jobs that have been enqueued
    waiting,   \* the copies that wait to be recorded or are being recorded
    counted    \* the page loads that have a scans row

logVars == <<scanId, handedIn, waiting, counted>>

CopiesOf(j) == {j} \X {"redis", "memory"}

LogInit ==
    /\ scanId \in [Jobs -> Scans]
    /\ handedIn = {} /\ waiting = {} /\ counted = {}

HandIn(j) ==
    /\ j \notin handedIn
    /\ handedIn' = handedIn \cup {j}
    /\ \E copies \in SUBSET CopiesOf(j) : waiting' = waiting \cup copies
    /\ UNCHANGED <<scanId, counted>>

(* A job without a scan id leaves no trace here.                            *)
Count(c) ==
    /\ c \in waiting
    /\ waiting' = waiting \ {c}
    /\ counted' = counted \cup ({scanId[c[1]]} \ {NoScan})
    /\ UNCHANGED <<scanId, handedIn>>

(* The database or Redis fails, a replica stops with jobs in its memory, a  *)
(* full memory drops a job; or a push is answered.                          *)
Lose(copies) ==
    /\ waiting' = waiting \ copies
    /\ UNCHANGED <<scanId, handedIn, counted>>

LogNext ==
    \/ \E j \in Jobs : HandIn(j)
    \/ \E c \in waiting : Count(c)
    \/ \E copies \in SUBSET waiting : Lose(copies)

LogSpec == LogInit /\ [][LogNext]_logVars
=============================================================================
