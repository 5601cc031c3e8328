----------------------------- MODULE PublicCache -----------------------------
(***************************************************************************)
(* The public read path: GET /passport/:uuid served by several API         *)
(* replicas through CacheService, while publish, unpublish and a change of *)
(* the brand's profile commit in the database and then invalidate.         *)
(*                                                                         *)
(* The database side is the register of PassportRegister, which            *)
(* Publication is shown to implement; one passport is one cache key. A     *)
(* cached copy carries what it was built from, so a stale copy is one that *)
(* differs from what the database would answer now.                        *)
(***************************************************************************)
EXTENDS PassportRegister

CONSTANTS
    Requests,   \* the HTTP requests of one run
    Jobs,       \* which requests they may be
    Replicas,   \* the API processes; Redis is shared by all of them
    None,       \* no cached copy, no answer yet
    NotFound,   \* a 404
    Shared,     \* the name of Redis as a place where copies are
    Faults      \* may Redis calls fail and replicas restart?

AllJobs == {"read", "publish", "unpublish", "rebrand"}

ASSUME PublicCacheAssumption ==
    /\ Jobs \subseteq AllJobs
    /\ Shared \notin Replicas
    /\ Faults \in BOOLEAN

VARIABLES
    brand,    \* how often the live-joined brand profile has changed
    redis,    \* the copy in Redis, or None
    memory,   \* memory[p]: the copy in the memory of replica p, or None
    loader,   \* loader[p]: the load in flight on replica p
    job,      \* job[r]: what request r is
    home,     \* home[r]: the replica that serves request r
    pc,       \* pc[r]: how far request r is
    answer,   \* answer[r]: what a read was answered
    excused   \* ghost: the places whose copy may be stale for a reason given below

cacheVars == <<brand, redis, memory, loader, job, home, pc, answer, excused>>
vars      == <<registerVars, cacheVars>>

Payload  == [version: Nat, publishedAt: Nat, brand: Nat]
Idle     == [step |-> "idle", published |-> 0, brand |-> 0, copy |-> None, late |-> FALSE]
Fetching == [Idle EXCEPT !.step = "passport"]

WriterSteps == {"invalidateMemory", "invalidateRedis"}
Ended       == {"done", "failed", "crashed"}
Steps       == {"start", "local", "waiting"} \cup WriterSteps \cup Ended

(* What the database answers now. A publication is identified with its      *)
(* version number, so publishedAt is that number too.                       *)
View ==
    IF live THEN [version |-> Len(versions), publishedAt |-> Len(versions), brand |-> brand]
            ELSE NotFound

(* Ghost: a load is late once a write commits after its first query. Its    *)
(* copy, a copy in the memory of a replica other than the writer's, one in  *)
(* Redis that could not be deleted, and whatever a write leaves in place    *)
(* that fails after its commit may be stale until they are replaced.        *)
Overtaken(p) == loader[p].step \in {"version", "store"}
Excuse(place, really) == IF really THEN excused \cup {place} ELSE excused \ {place}

Goto(r, step) == pc' = [pc EXCEPT ![r] = step]
Answer(r, value) == Goto(r, "done") /\ answer' = [answer EXCEPT ![r] = value]

-----------------------------------------------------------------------------
Init ==
    /\ \E c \in Content :
         /\ c.ok
         /\ draft = [row |-> c, kids |-> c, archived |-> FALSE]
         /\ versions \in {<<>>, <<SnapshotOf(draft)>>}
    /\ live \in {FALSE, versions # <<>>}
    /\ qr \in IF versions = <<>> THEN {NoKey} ELSE Keys
    /\ brand = 0
    /\ redis = None
    /\ memory = [p \in Replicas |-> None]
    /\ loader = [p \in Replicas |-> Idle]
    /\ job \in [Requests -> Jobs]
    /\ home \in [Requests -> Replicas]
    /\ pc = [r \in Requests |-> "start"]
    /\ answer = [r \in Requests |-> None]
    /\ excused = {}

-----------------------------------------------------------------------------
(* Reads: getOrSet *)

(* The shared copy first. A miss, or an error, falls through to the local   *)
(* one.                                                                     *)
ReadRedis(r) ==
    /\ job[r] = "read" /\ pc[r] = "start"
    /\ \/ redis # None /\ Answer(r, redis)
       \/ (redis = None \/ Faults) /\ Goto(r, "local") /\ UNCHANGED answer
    /\ UNCHANGED <<registerVars, brand, redis, memory, loader, job, home, excused>>

(* A local hit is answered; a miss joins the load in flight or starts one.  *)
ReadMemory(r) ==
    LET p == home[r] IN
    /\ pc[r] = "local"
    /\ IF memory[p] # None
       THEN Answer(r, memory[p]) /\ UNCHANGED loader
       ELSE /\ Goto(r, "waiting")
            /\ loader' = IF loader[p].step = "idle" THEN [loader EXCEPT ![p] = Fetching] ELSE loader
            /\ UNCHANGED answer
    /\ UNCHANGED <<registerVars, brand, redis, memory, job, home, excused>>

(* The load settles: everyone who waits for it gets its outcome, and the    *)
(* in-flight entry is removed.                                              *)
Settle(p, value) ==
    LET waiting == {r \in Requests : home[r] = p /\ pc[r] = "waiting"} IN
    /\ pc' = [r \in Requests |-> IF r \in waiting THEN "done" ELSE pc[r]]
    /\ answer' = [r \in Requests |-> IF r \in waiting THEN value ELSE answer[r]]
    /\ loader' = [loader EXCEPT ![p] = Idle]

(* Broken, for mutation: a failed load is swallowed.                        *)
LoadPassportSwallowing404(p) ==
    /\ loader[p].step = "passport"
    /\ loader' = IF live THEN [loader EXCEPT ![p].step = "version", ![p].published = Len(versions),
                                             ![p].brand = brand]
                 ELSE [loader EXCEPT ![p] = Idle]
    /\ UNCHANGED <<registerVars, brand, redis, memory, job, home, pc, answer, excused>>

(* First query: the passport with its organisation's live brand fields. A   *)
(* 404 is thrown, and never cached.                                         *)
LoadPassport(p) ==
    /\ loader[p].step = "passport"
    /\ IF live
       THEN /\ loader' = [loader EXCEPT ![p].step = "version", ![p].published = Len(versions),
                                        ![p].brand = brand]
            /\ UNCHANGED <<pc, answer>>
       ELSE Settle(p, NotFound)
    /\ UNCHANGED <<registerVars, brand, redis, memory, job, home, excused>>

(* Second query: the latest version. The result goes to local memory at     *)
(* once.                                                                    *)
LoadVersion(p) ==
    LET copy == [version |-> Len(versions), publishedAt |-> loader[p].published,
                 brand |-> loader[p].brand]
    IN
    /\ loader[p].step = "version"
    /\ memory' = [memory EXCEPT ![p] = copy]
    /\ loader' = [loader EXCEPT ![p].step = "store", ![p].copy = copy]
    /\ excused' = Excuse(p, loader[p].late)
    /\ UNCHANGED <<registerVars, brand, redis, job, home, pc, answer>>

(* Then to Redis, whatever happened to the passport meanwhile.              *)
LoadStore(p) ==
    /\ loader[p].step = "store"
    /\ \/ redis' = loader[p].copy /\ excused' = Excuse(Shared, loader[p].late)
       \/ Faults /\ UNCHANGED <<redis, excused>>
    /\ Settle(p, loader[p].copy)
    /\ UNCHANGED <<registerVars, brand, memory, job, home>>

-----------------------------------------------------------------------------
(* Writes: commit, then invalidate the writer's own memory, then Redis *)

Write(r) ==
    \/ job[r] = "publish" /\ PublishDraft /\ UNCHANGED brand
    \/ job[r] = "unpublish" /\ versions # <<>> /\ WithdrawPassport /\ UNCHANGED brand
    \/ job[r] = "rebrand" /\ brand' = brand + 1 /\ UNCHANGED registerVars

WriteCommit(r) ==
    /\ pc[r] = "start"
    /\ Write(r)
    /\ loader' = [p \in Replicas |-> IF Overtaken(p) THEN [loader[p] EXCEPT !.late = TRUE] ELSE loader[p]]
    /\ excused' = excused \cup {p \in Replicas \ {home[r]} : memory[p] # None}
    /\ Goto(r, "invalidateMemory")
    /\ UNCHANGED <<redis, memory, job, home, answer>>

InvalidateMemory(r) ==
    /\ pc[r] = "invalidateMemory"
    /\ memory' = [memory EXCEPT ![home[r]] = None]
    /\ excused' = excused \ {home[r]}
    /\ Goto(r, "invalidateRedis")
    /\ UNCHANGED <<registerVars, brand, redis, loader, job, home, answer>>

(* The write has taken effect but its request learns of an error, while its *)
(* replica lives on: the answer to COMMIT is lost, or the query for the     *)
(* brand's passports fails. Nothing is invalidated.                         *)
SkipInvalidation(r) ==
    /\ Faults /\ pc[r] = "invalidateMemory"
    /\ excused' = excused \cup {p \in {home[r]} : memory[p] # None} \cup {s \in {Shared} : redis # None}
    /\ Goto(r, "failed")
    /\ UNCHANGED <<registerVars, brand, redis, memory, loader, job, home, answer>>

(* Broken, for mutation: another key is deleted.                            *)
InvalidateRedisElsewhere(r) ==
    /\ pc[r] = "invalidateRedis"
    /\ Goto(r, "done")
    /\ UNCHANGED <<registerVars, brand, redis, memory, loader, job, home, answer, excused>>

(* "Redis failure must never break domain mutations": an error is ignored.  *)
InvalidateRedis(r) ==
    /\ pc[r] = "invalidateRedis"
    /\ \/ redis' = None /\ excused' = excused \ {Shared}
       \/ Faults /\ UNCHANGED redis /\ excused' = excused \cup {Shared}
    /\ Goto(r, "done")
    /\ UNCHANGED <<registerVars, brand, memory, loader, job, home, answer>>

-----------------------------------------------------------------------------
(* Time and failures *)

ExpireMemory(p) ==
    /\ memory[p] # None
    /\ memory' = [memory EXCEPT ![p] = None]
    /\ excused' = excused \ {p}
    /\ UNCHANGED <<registerVars, brand, redis, loader, job, home, pc, answer>>

(* Broken, for mutation: the copy is set without an expiry.                 *)
ExpireRedisNever == FALSE /\ UNCHANGED vars

ExpireRedis ==
    /\ redis # None
    /\ redis' = None
    /\ excused' = excused \ {Shared}
    /\ UNCHANGED <<registerVars, brand, memory, loader, job, home, pc, answer>>

(* A replica dies and comes back empty: its requests, its load and its      *)
(* memory are gone, a pending invalidation included.                        *)
Restart(p) ==
    /\ Faults
    /\ memory' = [memory EXCEPT ![p] = None]
    /\ loader' = [loader EXCEPT ![p] = Idle]
    /\ pc' = [r \in Requests |-> IF home[r] = p /\ pc[r] \notin {"start"} \cup Ended
                                 THEN "crashed" ELSE pc[r]]
    /\ excused' = (excused \ {p})
         \cup {Shared : r \in {q \in Requests : home[q] = p /\ pc[q] \in WriterSteps}}
    /\ UNCHANGED <<registerVars, brand, redis, job, home, answer>>

-----------------------------------------------------------------------------
ReadStep(r)  == ReadRedis(r) \/ ReadMemory(r)
WriteStep(r) == InvalidateMemory(r) \/ SkipInvalidation(r) \/ InvalidateRedis(r)
LoadStep(p)  == LoadPassport(p) \/ LoadVersion(p) \/ LoadStore(p)

Next ==
    \/ \E r \in Requests : ReadStep(r) \/ WriteCommit(r) \/ WriteStep(r)
    \/ \E p \in Replicas : LoadStep(p) \/ ExpireMemory(p) \/ Restart(p)
    \/ ExpireRedis

Spec == Init /\ [][Next]_vars

(* Once started a request goes on, a query is answered, and an entry's time *)
(* to live (300 s) runs out.                                                *)
FairSpec ==
    /\ Spec
    /\ \A r \in Requests : WF_vars(ReadStep(r)) /\ WF_vars(WriteStep(r))
    /\ \A p \in Replicas : WF_vars(LoadStep(p)) /\ WF_vars(ExpireMemory(p))
    /\ WF_vars(ExpireRedis)

-----------------------------------------------------------------------------
(* Properties *)

(* Every variable stays within its type.                                    *)
TypeOK ==
    /\ draft \in Draft
    /\ versions \in Seq(Snapshot)
    /\ live \in BOOLEAN
    /\ qr \in Keys \cup {NoKey}
    /\ brand \in Nat
    /\ redis \in Payload \cup {None}
    /\ memory \in [Replicas -> Payload \cup {None}]
    /\ loader \in [Replicas -> [step: {"idle", "passport", "version", "store"}, published: Nat,
                                brand: Nat, copy: Payload \cup {None}, late: BOOLEAN]]
    /\ job \in [Requests -> Jobs]
    /\ home \in [Requests -> Replicas]
    /\ pc \in [Requests -> Steps]
    /\ answer \in [Requests -> Payload \cup {None, NotFound}]
    /\ excused \subseteq Replicas \cup {Shared}

Invalidating == \E r \in Requests : pc[r] \in WriterSteps
Copies       == ({redis} \cup {memory[p] : p \in Replicas}) \ {None}

(* Invalidation works: a copy that is not what the database would answer is   *)
(* about to be invalidated, or has an excuse: a write overtook its load, the   *)
(* writer was another replica, Redis could not be reached, or the writer       *)
(* crashed or met an error between its commit and the invalidation.            *)
StaleHasExcuse ==
    /\ TypeOK
    /\ \A p \in Replicas :
         memory[p] \in {None, View} \/ p \in excused
            \/ \E r \in Requests : home[r] = p /\ pc[r] = "invalidateMemory"
    /\ redis \in {None, View} \/ Shared \in excused \/ Invalidating

(* Staleness ends: once the last write is over, copies of anything older     *)
(* disappear for good, after races, lost invalidations and restarts too.     *)
EventuallyFresh == <>[](Copies \subseteq {View})

(* Everyone who waits for a load in flight hears of its outcome, a 404       *)
(* included, or dies with its replica.                                       *)
EveryReadAnswered == \A r \in Requests : pc[r] = "waiting" ~> pc[r] \in Ended
=============================================================================
