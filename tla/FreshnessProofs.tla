----------------------------- MODULE FreshnessProofs -----------------------------
(***************************************************************************)
(* Proofs about what readers are shown.                                    *)
(*                                                                         *)
(* PublicCache, for any replicas, requests and failures: a stale copy is   *)
(* about to be invalidated or has an excuse.                               *)
(*                                                                         *)
(* Dashboard, for any number of rows, loads, writes and controls: a page   *)
(* at rest shows what its controls ask for, and the activity page each     *)
(* entry once.                                                             *)
(***************************************************************************)
EXTENDS PublicCache, Dashboard, SequenceTheorems, FiniteSetTheorems, WellFoundedInduction, TLAPS

(* What a load in flight has read is what the database would answer, as      *)
(* long as no write overtook it.                                             *)
LoadExact(p) ==
    /\ loader[p].step = "version" /\ ~loader[p].late =>
         live /\ loader[p].published = Len(versions) /\ loader[p].brand = brand
    /\ loader[p].step = "store" /\ ~loader[p].late => loader[p].copy = View

MemoryExcused(p) ==
    \/ memory[p] \in {None, View}
    \/ p \in excused
    \/ \E r \in Requests : home[r] = p /\ pc[r] = "invalidateMemory"

RedisExcused == redis \in {None, View} \/ Shared \in excused \/ Invalidating

Inv ==
    /\ TypeOK
    /\ \A p \in Replicas : LoadExact(p) /\ MemoryExcused(p)
    /\ RedisExcused

LoaderState == [step: {"idle", "passport", "version", "store"}, published: Nat,
                brand: Nat, copy: Payload \cup {None}, late: BOOLEAN]

-----------------------------------------------------------------------------
(* What a load that has not begun looks like.                                *)
LEMMA IdleTyped == Idle \in LoaderState /\ Fetching \in LoaderState
BY DEF Idle, Fetching, LoaderState

LEMMA InitInv == Init => Inv
<1> SUFFICES ASSUME Init PROVE Inv
  OBVIOUS
<1>1. PICK c \in Content : /\ draft = [row |-> c, kids |-> c, archived |-> FALSE]
                           /\ versions \in {<<>>, <<SnapshotOf(draft)>>}
  BY DEF Init
<1>2. draft \in Draft /\ SnapshotOf(draft) \in Snapshot
  BY <1>1 DEF Draft, SnapshotOf, Snapshot
<1>3. versions \in Seq(Snapshot)
  <2>1. CASE versions = <<>> BY <2>1, EmptySeq
  <2>2. CASE versions = <<SnapshotOf(draft)>> BY <1>2, <2>2
  <2>3. QED BY <1>1, <2>1, <2>2
<1>4. /\ live \in BOOLEAN
      /\ qr \in Keys \cup {NoKey}
      /\ brand \in Nat
  BY DEF Init
<1>5. loader \in [Replicas -> LoaderState]
  BY IdleTyped DEF Init
<1>6. TypeOK
  BY <1>2, <1>3, <1>4, <1>5 DEF Init, TypeOK, Steps, LoaderState
<1>7. QED
  BY <1>6 DEF Init, Inv, LoadExact, MemoryExcused, RedisExcused, Idle

-----------------------------------------------------------------------------
(* The steps that leave the register and the brand alone, and so what the    *)
(* database would answer.                                                    *)
LEMMA ViewKept ==
    ASSUME UNCHANGED <<versions, live, brand>>
    PROVE  View' = View
BY DEF View

(* A load that settles: those who waited for it are done and nothing else    *)
(* moves on.                                                                 *)
LEMMA SettleTyped ==
    ASSUME TypeOK, NEW p \in Replicas, NEW value \in Payload \cup {None, NotFound}, Settle(p, value)
    PROVE  /\ pc' \in [Requests -> Steps]
           /\ answer' \in [Requests -> Payload \cup {None, NotFound}]
           /\ loader' \in [Replicas -> LoaderState]
           /\ loader'[p] = Idle
           /\ \A q \in Replicas \ {p} : loader'[q] = loader[q]
           /\ \A r \in Requests : \A step \in WriterSteps : pc[r] = step => pc'[r] = step
<1>1. loader \in [Replicas -> LoaderState] /\ Idle \in LoaderState
  BY IdleTyped DEF TypeOK, LoaderState
<1>2. /\ loader' \in [Replicas -> LoaderState]
      /\ loader'[p] = Idle
      /\ \A q \in Replicas \ {p} : loader'[q] = loader[q]
  BY <1>1 DEF Settle
<1>3. pc' \in [Requests -> Steps] /\ answer' \in [Requests -> Payload \cup {None, NotFound}]
  BY DEF Settle, TypeOK, Steps, Ended
<1>4. \A r \in Requests : \A step \in WriterSteps : pc[r] = step => pc'[r] = step
  BY DEF Settle, TypeOK, WriterSteps
<1>5. QED BY <1>2, <1>3, <1>4

(* Reads change no copy and no load but to start one.                        *)
LEMMA ReadInv ==
    ASSUME Inv, NEW r \in Requests, ReadStep(r)
    PROVE  Inv'
<1>0. /\ TypeOK /\ loader \in [Replicas -> LoaderState]
      /\ \A p \in Replicas : LoadExact(p) /\ MemoryExcused(p)
      /\ RedisExcused
  BY DEF Inv, TypeOK, LoaderState
<1>1. /\ UNCHANGED <<registerVars, brand, redis, memory, job, home, excused>>
      /\ pc[r] \in {"start", "local"}
      /\ pc' \in [Requests -> Steps]
      /\ \A s \in Requests \ {r} : pc'[s] = pc[s]
      /\ answer' \in [Requests -> Payload \cup {None, NotFound}]
      /\ loader' \in [Replicas -> LoaderState]
      /\ \A p \in Replicas : loader'[p] = loader[p] \/ loader'[p] = Fetching
  <2>1. CASE ReadRedis(r)
    BY <1>0, <2>1 DEF ReadRedis, Answer, Goto, TypeOK, Steps, Ended
  <2>2. CASE ReadMemory(r)
    <3>1. home[r] \in Replicas BY <1>0 DEF TypeOK
    <3>2. CASE memory[home[r]] # None
      BY <1>0, <2>2, <3>1, <3>2 DEF ReadMemory, Answer, Goto, TypeOK, Steps, Ended
    <3>3. CASE memory[home[r]] = None
      BY <1>0, <2>2, <3>1, <3>3, IdleTyped DEF ReadMemory, Goto, TypeOK, Steps
    <3>4. QED BY <3>2, <3>3
  <2>3. QED BY <2>1, <2>2 DEF ReadStep
<1>2. TypeOK'
  BY <1>0, <1>1 DEF TypeOK, LoaderState, registerVars
<1>3. View' = View
  BY <1>1, ViewKept DEF registerVars
<1>4. ASSUME NEW p \in Replicas PROVE LoadExact(p)'
  BY <1>0, <1>1, <1>3 DEF LoadExact, Fetching, Idle, registerVars
<1>5. ASSUME NEW s \in Requests, pc[s] \in WriterSteps PROVE pc'[s] = pc[s]
  BY <1>1, <1>5 DEF WriterSteps
<1>6. ASSUME NEW p \in Replicas PROVE MemoryExcused(p)'
  BY <1>0, <1>1, <1>3, <1>5 DEF MemoryExcused, WriterSteps
<1>7. RedisExcused'
  BY <1>0, <1>1, <1>3, <1>5 DEF RedisExcused, Invalidating
<1>8. QED BY <1>2, <1>4, <1>6, <1>7 DEF Inv

(* A load reads, copies to memory and to Redis.                              *)
LEMMA LoadInv ==
    ASSUME Inv, NEW p \in Replicas, LoadStep(p)
    PROVE  Inv'
<1>0. /\ TypeOK /\ loader \in [Replicas -> LoaderState]
      /\ memory \in [Replicas -> Payload \cup {None}]
      /\ \A q \in Replicas : LoadExact(q) /\ MemoryExcused(q)
      /\ RedisExcused /\ p # Shared
      /\ Len(versions) \in Nat /\ brand \in Nat
  BY PublicCacheAssumption, LenProperties DEF Inv, TypeOK, LoaderState
<1>1. CASE LoadPassport(p)
  <2>1. UNCHANGED <<registerVars, brand, redis, memory, job, home, excused>> /\ View' = View
    BY <1>1, ViewKept DEF LoadPassport, registerVars
  <2>2. CASE live
    <3>1. /\ loader' = [loader EXCEPT ![p].step = "version", ![p].published = Len(versions),
                                      ![p].brand = brand]
          /\ UNCHANGED <<pc, answer>>
      BY <1>1, <2>2 DEF LoadPassport
    <3>2. /\ loader' \in [Replicas -> LoaderState]
          /\ loader'[p].step = "version" /\ loader'[p].published = Len(versions)
          /\ loader'[p].brand = brand
          /\ \A q \in Replicas \ {p} : loader'[q] = loader[q]
      BY <1>0, <3>1 DEF LoaderState
    <3>3. TypeOK'
      BY <1>0, <2>1, <3>1, <3>2 DEF TypeOK, LoaderState, registerVars
    <3>4. \A q \in Replicas : LoadExact(q)'
      BY <1>0, <2>1, <2>2, <3>2 DEF LoadExact, registerVars
    <3>5. QED BY <1>0, <2>1, <3>1, <3>3, <3>4 DEF Inv, MemoryExcused, RedisExcused, Invalidating
  <2>3. CASE ~live
    <3>1. Settle(p, NotFound) BY <1>1, <2>3 DEF LoadPassport
    <3>2. /\ pc' \in [Requests -> Steps]
          /\ answer' \in [Requests -> Payload \cup {None, NotFound}]
          /\ loader' \in [Replicas -> LoaderState]
          /\ loader'[p] = Idle
          /\ \A q \in Replicas \ {p} : loader'[q] = loader[q]
          /\ \A r \in Requests : \A step \in WriterSteps : pc[r] = step => pc'[r] = step
      BY <1>0, <3>1, SettleTyped
    <3>3. TypeOK' BY <1>0, <2>1, <3>2 DEF TypeOK, LoaderState, registerVars
    <3>4. \A q \in Replicas : LoadExact(q)'
      BY <1>0, <2>1, <3>2 DEF LoadExact, Idle, registerVars
    <3>5. \A q \in Replicas : MemoryExcused(q)'
      BY <1>0, <2>1, <3>2 DEF MemoryExcused, WriterSteps
    <3>6. RedisExcused'
      BY <1>0, <2>1, <3>2 DEF RedisExcused, Invalidating
    <3>7. QED BY <3>3, <3>4, <3>5, <3>6 DEF Inv
  <2>4. QED BY <2>2, <2>3
<1>2. CASE LoadVersion(p)
  <2> DEFINE copy == [version |-> Len(versions), publishedAt |-> loader[p].published,
                      brand |-> loader[p].brand]
  <2>1. /\ UNCHANGED <<registerVars, brand, redis, job, home, pc, answer>> /\ View' = View
        /\ memory' = [memory EXCEPT ![p] = copy]
        /\ loader' = [loader EXCEPT ![p].step = "store", ![p].copy = copy]
        /\ excused' = Excuse(p, loader[p].late)
        /\ loader[p].step = "version"
    BY <1>2, ViewKept DEF LoadVersion, registerVars
  <2>2. copy \in Payload
    BY <1>0 DEF Payload, LoaderState
  <2>3. ~loader[p].late => copy = View
    BY <1>0, <2>1 DEF LoadExact, View
  <2> HIDE DEF copy
  <2>4. /\ loader' \in [Replicas -> LoaderState]
        /\ loader'[p].step = "store" /\ loader'[p].copy = copy /\ loader'[p].late = loader[p].late
        /\ \A q \in Replicas \ {p} : loader'[q] = loader[q]
    BY <1>0, <2>1, <2>2 DEF LoaderState
  <2>5. /\ memory' \in [Replicas -> Payload \cup {None}] /\ memory'[p] = copy
        /\ \A q \in Replicas \ {p} : memory'[q] = memory[q]
    BY <1>0, <2>1, <2>2
  <2>6. /\ excused' \subseteq Replicas \cup {Shared}
        /\ loader[p].late => p \in excused'
        /\ \A place \in excused \ {p} : place \in excused'
    BY <1>0, <2>1 DEF Excuse, TypeOK
  <2>7. TypeOK' BY <1>0, <2>1, <2>4, <2>5, <2>6 DEF TypeOK, LoaderState, registerVars
  <2>8. ASSUME NEW q \in Replicas PROVE LoadExact(q)' /\ MemoryExcused(q)'
    <3>1. CASE q = p
      BY <2>1, <2>3, <2>4, <2>5, <2>6, <3>1 DEF LoadExact, MemoryExcused
    <3>2. CASE q # p
      BY <1>0, <2>1, <2>4, <2>5, <2>6, <3>2 DEF LoadExact, MemoryExcused, registerVars
    <3>3. QED BY <3>1, <3>2
  <2>9. RedisExcused' BY <1>0, <2>1, <2>6 DEF RedisExcused, Invalidating
  <2>10. QED BY <2>7, <2>8, <2>9 DEF Inv
<1>3. CASE LoadStore(p)
  <2>1. /\ UNCHANGED <<registerVars, brand, memory, job, home>> /\ View' = View
        /\ Settle(p, loader[p].copy)
        /\ loader[p].step = "store" /\ loader[p].copy \in Payload \cup {None}
    BY <1>0, <1>3, ViewKept DEF LoadStore, registerVars, LoaderState
  <2>2. /\ pc' \in [Requests -> Steps]
        /\ answer' \in [Requests -> Payload \cup {None, NotFound}]
        /\ loader' \in [Replicas -> LoaderState]
        /\ loader'[p] = Idle
        /\ \A q \in Replicas \ {p} : loader'[q] = loader[q]
        /\ \A r \in Requests : \A step \in WriterSteps : pc[r] = step => pc'[r] = step
    BY <1>0, <2>1, SettleTyped
  <2>3. /\ redis' \in Payload \cup {None}
        /\ excused' \subseteq Replicas \cup {Shared}
        /\ \A place \in excused \ {Shared} : place \in excused'
    BY <1>0, <1>3, <2>1 DEF LoadStore, Excuse, TypeOK
  <2>4. TypeOK' BY <1>0, <2>1, <2>2, <2>3 DEF TypeOK, LoaderState, registerVars
  <2>5. \A q \in Replicas : LoadExact(q)'
    BY <1>0, <2>1, <2>2 DEF LoadExact, Idle, registerVars
  <2>6. \A q \in Replicas : MemoryExcused(q)'
    BY <1>0, <2>1, <2>2, <2>3, PublicCacheAssumption DEF MemoryExcused, WriterSteps
  <2>7. RedisExcused'
    <3>1. CASE redis' = loader[p].copy /\ excused' = Excuse(Shared, loader[p].late)
      BY <1>0, <2>1, <3>1 DEF RedisExcused, LoadExact, Excuse, LoaderState
    <3>2. CASE UNCHANGED <<redis, excused>>
      BY <1>0, <2>1, <2>2, <3>2 DEF RedisExcused, Invalidating
    <3>3. QED BY <1>3, <3>1, <3>2 DEF LoadStore
  <2>8. QED BY <2>4, <2>5, <2>6, <2>7 DEF Inv
<1>4. QED BY <1>1, <1>2, <1>3 DEF LoadStep

(* A commit makes copies stale; it excuses those it will not invalidate, and *)
(* marks the loads it overtakes.                                             *)
LEMMA CommitInv ==
    ASSUME Inv, NEW r \in Requests, WriteCommit(r)
    PROVE  Inv'
<1>0. /\ TypeOK /\ loader \in [Replicas -> LoaderState]
      /\ memory \in [Replicas -> Payload \cup {None}]
      /\ \A q \in Replicas : LoadExact(q) /\ MemoryExcused(q)
      /\ home[r] \in Replicas
  BY DEF Inv, TypeOK, LoaderState
<1>1. /\ loader' = [p \in Replicas |-> IF Overtaken(p) THEN [loader[p] EXCEPT !.late = TRUE] ELSE loader[p]]
      /\ excused' = excused \cup {p \in Replicas \ {home[r]} : memory[p] # None}
      /\ pc' = [pc EXCEPT ![r] = "invalidateMemory"]
      /\ UNCHANGED <<redis, memory, job, home, answer>>
      /\ Write(r)
  BY DEF WriteCommit, Goto
<1>2. /\ draft' \in Draft /\ versions' \in Seq(Snapshot) /\ live' \in BOOLEAN
      /\ qr' \in Keys \cup {NoKey} /\ brand' \in Nat
  <2>1. CASE PublishDraft /\ UNCHANGED brand
    <3>1. SnapshotOf(draft) \in Snapshot
      BY <1>0 DEF TypeOK, Draft, Snapshot, SnapshotOf
    <3>2. versions' \in Seq(Snapshot)
      BY <1>0, <2>1, <3>1, AppendProperties DEF PublishDraft, TypeOK
    <3>3. QED BY <1>0, <2>1, <3>2 DEF PublishDraft, TypeOK
  <2>2. CASE WithdrawPassport /\ UNCHANGED brand
    BY <1>0, <2>2 DEF WithdrawPassport, TypeOK
  <2>3. CASE brand' = brand + 1 /\ UNCHANGED registerVars
    BY <1>0, <2>3 DEF TypeOK, registerVars
  <2>4. QED BY <1>1, <2>1, <2>2, <2>3 DEF Write
<1>3. loader' \in [Replicas -> LoaderState]
  BY <1>0, <1>1 DEF LoaderState
<1>4. pc' \in [Requests -> Steps] /\ pc'[r] = "invalidateMemory"
  BY <1>0, <1>1 DEF TypeOK, Steps, WriterSteps
<1>5. TypeOK'
  BY <1>0, <1>1, <1>2, <1>3, <1>4 DEF TypeOK, LoaderState
<1>6. ASSUME NEW p \in Replicas PROVE LoadExact(p)'
  BY <1>0, <1>1 DEF LoadExact, Overtaken, LoaderState
<1>7. ASSUME NEW p \in Replicas PROVE MemoryExcused(p)'
  BY <1>0, <1>1, <1>4 DEF MemoryExcused
<1>8. RedisExcused'
  BY <1>4 DEF RedisExcused, Invalidating, WriterSteps
<1>9. QED BY <1>5, <1>6, <1>7, <1>8 DEF Inv

(* Steps that change no load but end some, and no copy but remove some:      *)
(* where a copy is removed nothing needs an excuse, and where an             *)
(* invalidation ends or is given up the copy is gone or is excused.          *)
LEMMA RemoveInv ==
    ASSUME Inv, UNCHANGED <<registerVars, brand, job, home>>,
           redis' \in {None, redis},
           memory' \in [Replicas -> Payload \cup {None}],
           \A p \in Replicas : memory'[p] \in {None, memory[p]},
           loader' \in [Replicas -> LoaderState],
           \A p \in Replicas : loader'[p] \in {Idle, loader[p]},
           pc' \in [Requests -> Steps],
           answer' \in [Requests -> Payload \cup {None, NotFound}],
           excused' \subseteq Replicas \cup {Shared},
           \A p \in Replicas : p \in excused /\ p \notin excused' => memory'[p] = None,
           \A r \in Requests : pc[r] = "invalidateMemory" /\ pc'[r] # "invalidateMemory" =>
                                 memory'[home[r]] = None \/ home[r] \in excused',
           Shared \in excused /\ Shared \notin excused' => redis' = None,
           \A r \in Requests : pc[r] \in WriterSteps /\ pc'[r] \notin WriterSteps =>
                                 redis' = None \/ Shared \in excused'
    PROVE  Inv'
<1>0. /\ TypeOK /\ \A p \in Replicas : LoadExact(p) /\ MemoryExcused(p)
      /\ RedisExcused
  BY DEF Inv
<1>1. TypeOK'
  BY <1>0 DEF TypeOK, LoaderState, registerVars
<1>2. View' = View
  BY ViewKept DEF registerVars
<1>3. ASSUME NEW p \in Replicas PROVE LoadExact(p)'
  BY <1>0, <1>2 DEF LoadExact, Idle, registerVars
<1>4. ASSUME NEW p \in Replicas PROVE MemoryExcused(p)'
  BY <1>0, <1>2 DEF MemoryExcused
<1>5. RedisExcused'
  BY <1>0, <1>2 DEF RedisExcused, Invalidating
<1>6. QED BY <1>1, <1>3, <1>4, <1>5 DEF Inv

LEMMA InvalidateInv ==
    ASSUME Inv, NEW r \in Requests, WriteStep(r)
    PROVE  Inv'
<1>0. TypeOK /\ loader \in [Replicas -> LoaderState] /\ home[r] \in Replicas /\ Shared \notin Replicas
  BY PublicCacheAssumption DEF Inv, TypeOK, LoaderState
<1>1. CASE InvalidateMemory(r)
  <2>1. /\ pc[r] = "invalidateMemory" /\ pc'[r] = "invalidateRedis"
        /\ pc' \in [Requests -> Steps] /\ \A s \in Requests \ {r} : pc'[s] = pc[s]
    BY <1>0, <1>1 DEF InvalidateMemory, Goto, TypeOK, Steps, WriterSteps
  <2>2. /\ memory' \in [Replicas -> Payload \cup {None}] /\ memory'[home[r]] = None
        /\ \A p \in Replicas \ {home[r]} : memory'[p] = memory[p]
    BY <1>0, <1>1 DEF InvalidateMemory, TypeOK
  <2>3. /\ excused' = excused \ {home[r]} /\ excused \subseteq Replicas \cup {Shared}
        /\ UNCHANGED <<registerVars, brand, redis, loader, job, home, answer>>
        /\ answer \in [Requests -> Payload \cup {None, NotFound}]
    BY <1>0, <1>1 DEF InvalidateMemory, TypeOK
  <2>4. QED BY <1>0, <2>1, <2>2, <2>3, RemoveInv DEF WriterSteps
<1>2. CASE InvalidateRedis(r)
  <2>1. /\ pc[r] = "invalidateRedis" /\ pc'[r] = "done"
        /\ pc' \in [Requests -> Steps] /\ \A s \in Requests \ {r} : pc'[s] = pc[s]
    BY <1>0, <1>2 DEF InvalidateRedis, Goto, TypeOK, Steps, Ended
  <2>2. /\ \/ redis' = None /\ excused' = excused \ {Shared}
           \/ redis' = redis /\ excused' = excused \cup {Shared}
        /\ UNCHANGED <<registerVars, brand, memory, loader, job, home, answer>>
        /\ excused \subseteq Replicas \cup {Shared}
        /\ memory \in [Replicas -> Payload \cup {None}]
        /\ answer \in [Requests -> Payload \cup {None, NotFound}]
    BY <1>0, <1>2 DEF InvalidateRedis, TypeOK
  <2>3. \A s \in Requests : pc[s] = "invalidateMemory" => pc'[s] = "invalidateMemory"
    BY <2>1
  <2>4. \A s \in Requests : pc[s] \in WriterSteps /\ pc'[s] \notin WriterSteps =>
                              redis' = None \/ Shared \in excused'
    BY <2>1, <2>2
  <2>5. QED BY <1>0, <2>1, <2>2, <2>3, <2>4, RemoveInv
<1>3. CASE SkipInvalidation(r)
  <2>1. /\ pc[r] = "invalidateMemory" /\ pc'[r] = "failed"
        /\ pc' \in [Requests -> Steps] /\ \A s \in Requests \ {r} : pc'[s] = pc[s]
    BY <1>0, <1>3 DEF SkipInvalidation, Goto, TypeOK, Steps, Ended
  <2>2. /\ UNCHANGED <<registerVars, brand, redis, memory, loader, job, home, answer>>
        /\ excused \subseteq excused' /\ excused' \subseteq Replicas \cup {Shared}
        /\ memory[home[r]] = None \/ home[r] \in excused'
        /\ redis = None \/ Shared \in excused'
    BY <1>0, <1>3 DEF SkipInvalidation, TypeOK
  <2>3. /\ memory \in [Replicas -> Payload \cup {None}]
        /\ answer \in [Requests -> Payload \cup {None, NotFound}]
    BY <1>0 DEF TypeOK
  <2>4. \A s \in Requests : pc[s] = "invalidateMemory" /\ pc'[s] # "invalidateMemory" =>
                              memory'[home[s]] = None \/ home[s] \in excused'
    BY <2>1, <2>2
  <2>5. \A s \in Requests : pc[s] \in WriterSteps /\ pc'[s] \notin WriterSteps =>
                              redis' = None \/ Shared \in excused'
    BY <2>1, <2>2
  <2>6. QED BY <1>0, <2>1, <2>2, <2>3, <2>4, <2>5, RemoveInv
<1>4. QED BY <1>1, <1>2, <1>3 DEF WriteStep

LEMMA ExpireInv ==
    ASSUME Inv, ExpireRedis \/ \E p \in Replicas : ExpireMemory(p)
    PROVE  Inv'
<1>0. /\ TypeOK /\ loader \in [Replicas -> LoaderState] /\ Shared \notin Replicas
      /\ memory \in [Replicas -> Payload \cup {None}]
      /\ excused \subseteq Replicas \cup {Shared}
      /\ pc \in [Requests -> Steps]
      /\ answer \in [Requests -> Payload \cup {None, NotFound}]
  BY PublicCacheAssumption DEF Inv, TypeOK, LoaderState
<1>1. CASE ExpireRedis
  BY <1>0, <1>1, RemoveInv DEF ExpireRedis
<1>2. ASSUME NEW p \in Replicas, ExpireMemory(p) PROVE Inv'
  <2>1. /\ memory' \in [Replicas -> Payload \cup {None}] /\ memory'[p] = None
        /\ \A q \in Replicas \ {p} : memory'[q] = memory[q]
    BY <1>0, <1>2 DEF ExpireMemory
  <2>2. QED BY <1>0, <1>2, <2>1, RemoveInv DEF ExpireMemory
<1>3. QED BY <1>1, <1>2

LEMMA RestartInv ==
    ASSUME Inv, NEW p \in Replicas, Restart(p)
    PROVE  Inv'
<1>0. /\ TypeOK /\ loader \in [Replicas -> LoaderState] /\ Shared \notin Replicas
      /\ memory \in [Replicas -> Payload \cup {None}]
      /\ excused \subseteq Replicas \cup {Shared}
      /\ answer \in [Requests -> Payload \cup {None, NotFound}]
  BY PublicCacheAssumption DEF Inv, TypeOK, LoaderState
<1>1. /\ memory' \in [Replicas -> Payload \cup {None}] /\ memory'[p] = None
      /\ \A q \in Replicas \ {p} : memory'[q] = memory[q]
  BY <1>0 DEF Restart
<1>2. loader' \in [Replicas -> LoaderState] /\ \A q \in Replicas : loader'[q] \in {Idle, loader[q]}
  BY <1>0, IdleTyped DEF Restart
<1>3. /\ pc' \in [Requests -> Steps]
      /\ \A r \in Requests : pc'[r] = pc[r] \/ (home[r] = p /\ pc'[r] = "crashed")
  BY <1>0 DEF Restart, TypeOK, Steps, Ended
<1>4. /\ excused' \subseteq Replicas \cup {Shared}
      /\ \A place \in excused \ {p} : place \in excused'
      /\ \A r \in Requests : home[r] = p /\ pc[r] \in WriterSteps => Shared \in excused'
  BY <1>0 DEF Restart
<1>5. UNCHANGED <<registerVars, brand, redis, job, home, answer>>
  BY DEF Restart
<1>6. QED BY <1>0, <1>1, <1>2, <1>3, <1>4, <1>5, RemoveInv

-----------------------------------------------------------------------------
LEMMA NextInv == Inv /\ [Next]_vars => Inv'
<1> SUFFICES ASSUME Inv, [Next]_vars PROVE Inv'
  OBVIOUS
<1>1. CASE UNCHANGED vars
  BY <1>1 DEF vars, cacheVars, registerVars, Inv, TypeOK, LoadExact, MemoryExcused,
              RedisExcused, Invalidating, View
<1>2. CASE \E r \in Requests : ReadStep(r) \/ WriteCommit(r) \/ WriteStep(r)
  BY <1>2, ReadInv, CommitInv, InvalidateInv
<1>3. CASE \E p \in Replicas : LoadStep(p) \/ ExpireMemory(p) \/ Restart(p)
  BY <1>3, LoadInv, ExpireInv, RestartInv
<1>4. CASE ExpireRedis
  BY <1>4, ExpireInv
<1>5. QED BY <1>1, <1>2, <1>3, <1>4 DEF Next

(* Invalidation works: a copy that is not what the database would answer is  *)
(* about to be invalidated, or a write overtook its load, the writer was     *)
(* another replica, Redis could not be reached, or the writer crashed or met *)
(* an error between its commit and the invalidation.                         *)
THEOREM StaleCopiesHaveExcuses == Spec => []StaleHasExcuse
<1>1. Inv => StaleHasExcuse
  BY DEF Inv, StaleHasExcuse, MemoryExcused, RedisExcused
<1>2. QED BY <1>1, InitInv, NextInv, PTL DEF Spec

-----------------------------------------------------------------------------
(* Numbers of rows and pages.                                               *)
LEMMA LeastExists ==
    ASSUME NEW T, T \subseteq Nat, T # {}, IsFiniteSet(T)
    PROVE  \E x \in T : \A y \in T : x <= y
<1> DEFINE Below(x) == {y \in T : y < x}
           F == {Below(x) : x \in T}
<1>1. F \subseteq FiniteSubsetsOf(T)
  <2>1. \A x \in T : Below(x) \in SUBSET T
    OBVIOUS
  <2>2. QED BY <2>1, FS_FiniteSubsetsOfFinite
<1>2. F # {}
  OBVIOUS
<1>3. \E B \in F : \A C \in F : ~ (<<C, B>> \in StrictSubsetOrdering(T))
  <2> HIDE DEF F
  <2> QED BY <1>1, <1>2, FS_StrictSubsetOrderingWellFounded, WFMin
<1>4. PICK x \in T : \A y \in T : ~ (<<Below(y), Below(x)>> \in StrictSubsetOrdering(T))
  BY <1>3
<1>5. ASSUME NEW y \in T, y < x PROVE FALSE
  <2>1. x \in Nat /\ y \in Nat
    OBVIOUS
  <2>2. ASSUME NEW z \in Below(y) PROVE z \in Below(x)
    <3>1. z \in T /\ z \in Nat /\ z < y
      BY <2>2
    <3>2. QED BY <1>5, <2>1, <3>1
  <2>3. y \in Below(x) /\ y \notin Below(y)
    BY <1>5, <2>1
  <2>4. <<Below(y), Below(x)>> \in StrictSubsetOrdering(T)
    BY <2>2, <2>3 DEF StrictSubsetOrdering
  <2>5. QED BY <1>4, <2>4
<1>6. QED
  <2>1. SUFFICES ASSUME NEW y \in T PROVE x <= y
    OBVIOUS
  <2>2. x \in Nat /\ y \in Nat
    OBVIOUS
  <2>3. QED BY <1>5, <2>2

LEMMA GreatestExists ==
    ASSUME NEW T, T \subseteq Nat, T # {}, IsFiniteSet(T)
    PROVE  \E x \in T : \A y \in T : y <= x
<1> DEFINE Above(x) == {y \in T : y > x}
           F == {Above(x) : x \in T}
<1>1. F \subseteq FiniteSubsetsOf(T)
  <2>1. \A x \in T : Above(x) \in SUBSET T
    OBVIOUS
  <2>2. QED BY <2>1, FS_FiniteSubsetsOfFinite
<1>2. F # {}
  OBVIOUS
<1>3. \E B \in F : \A C \in F : ~ (<<C, B>> \in StrictSubsetOrdering(T))
  <2> HIDE DEF F
  <2> QED BY <1>1, <1>2, FS_StrictSubsetOrderingWellFounded, WFMin
<1>4. PICK x \in T : \A y \in T : ~ (<<Above(y), Above(x)>> \in StrictSubsetOrdering(T))
  BY <1>3
<1>5. ASSUME NEW y \in T, y > x PROVE FALSE
  <2>1. x \in Nat /\ y \in Nat
    OBVIOUS
  <2>2. ASSUME NEW z \in Above(y) PROVE z \in Above(x)
    <3>1. z \in T /\ z \in Nat /\ z > y
      BY <2>2
    <3>2. QED BY <1>5, <2>1, <3>1
  <2>3. y \in Above(x) /\ y \notin Above(y)
    BY <1>5, <2>1
  <2>4. <<Above(y), Above(x)>> \in StrictSubsetOrdering(T)
    BY <2>2, <2>3 DEF StrictSubsetOrdering
  <2>5. QED BY <1>4, <2>4
<1>6. QED
  <2>1. SUFFICES ASSUME NEW y \in T PROVE y <= x
    OBVIOUS
  <2>2. x \in Nat /\ y \in Nat
    OBVIOUS
  <2>3. QED BY <1>5, <2>2

LEMMA MoreRowsMorePages ==
    ASSUME NEW a \in Nat, NEW b \in Nat, a <= b
    PROVE  /\ NumPages(a) \in Nat /\ NumPages(b) \in Nat
           /\ NumPages(a) <= NumPages(b)
           /\ a >= 1 => NumPages(a) >= 1
<1>0. PageSize \in Nat /\ PageSize >= 1
  BY DashboardAssumption
<1> DEFINE A == a + PageSize - 1
           B == b + PageSize - 1
           x == A \div PageSize
           y == B \div PageSize
<1>1. A \in Nat /\ B \in Nat /\ A <= B /\ (a >= 1 => A >= PageSize)
  BY <1>0
<1> HIDE DEF A, B
<1>2. /\ x \in Int /\ PageSize * x <= A /\ A < PageSize * x + PageSize
      /\ y \in Int /\ PageSize * y <= B /\ B < PageSize * y + PageSize
  BY <1>0, <1>1
<1> HIDE DEF x, y
<1>3. ASSUME x < 0 PROVE FALSE
  <2>1. PageSize * x + PageSize <= 0
    BY <1>0, <1>2, <1>3
  <2>2. QED BY <1>0, <1>1, <1>2, <2>1
<1>4. ASSUME y < x PROVE FALSE
  <2>1. PageSize * (y + 1) <= PageSize * x
    BY <1>0, <1>2, <1>4
  <2>2. QED BY <1>0, <1>1, <1>2, <2>1
<1>5. ASSUME a >= 1, x < 1 PROVE FALSE
  <2>1. PageSize * x + PageSize <= PageSize
    BY <1>0, <1>2, <1>5
  <2>2. QED BY <1>0, <1>1, <1>2, <1>5, <2>1
<1>6. QED BY <1>2, <1>3, <1>4, <1>5 DEF NumPages, x, y, A, B

(* A page that exists still exists when there are more rows.                *)
Fits(q, total) == q.page = 1 \/ ~Beyond(q, total)

LEMMA FitsMore ==
    ASSUME NEW q \in Queries, NEW a \in Nat, NEW b \in Nat, a <= b, Fits(q, a)
    PROVE  Fits(q, b)
BY MoreRowsMorePages DEF Fits, Beyond, Queries

LEMMA SliceFacts ==
    ASSUME NEW S, IsFiniteSet(S), S \subseteq Nat, NEW n \in Nat \ {0}
    PROVE  /\ Slice(S, n) \subseteq S
           /\ \A r \in Slice(S, 1), s \in S : r <= s => s \in Slice(S, 1)
           /\ Cardinality(S) \in Nat
           /\ Cardinality(S) > 0 => Slice(S, 1) # {}
<1>0. PageSize \in Nat /\ PageSize >= 1
  BY DashboardAssumption
<1> DEFINE Over(r) == {s \in S : s >= r}
<1>1. ASSUME NEW r \in S
      PROVE  /\ IsFiniteSet(Over(r)) /\ Cardinality(Over(r)) \in Nat
             /\ Cardinality(Over(r)) >= 1
  <2>1. IsFiniteSet(Over(r))
    BY FS_Subset
  <2>2. Cardinality(Over(r)) \in Nat
    BY <2>1, FS_CardinalityType
  <2>3. r \in Over(r)
    BY <1>1
  <2>4. Cardinality(Over(r)) # 0
    <3> HIDE DEF Over
    <3> QED BY <2>1, <2>3, FS_EmptySet
  <2>5. QED BY <2>1, <2>2, <2>4
<1>2. Slice(S, 1) = {r \in S : Cardinality(Over(r)) <= PageSize}
  <2>1. (1 - 1) * PageSize + 1 = 1 /\ 1 * PageSize = PageSize
    BY <1>0
  <2>2. ASSUME NEW r \in S
        PROVE  Cardinality(Over(r)) \in 1..PageSize <=> Cardinality(Over(r)) <= PageSize
    BY <1>0, <1>1
  <2>3. Slice(S, 1) = {r \in S : Cardinality(Over(r)) \in 1..PageSize}
    BY <2>1 DEF Slice
  <2>4. QED BY <2>2, <2>3
<1>3. ASSUME NEW r \in Slice(S, 1), NEW s \in S, r <= s PROVE s \in Slice(S, 1)
  <2>1. r \in S /\ Cardinality(Over(r)) <= PageSize
    BY <1>2
  <2>2. Over(s) \subseteq Over(r)
    <3>1. SUFFICES ASSUME NEW z \in S, z >= s PROVE z >= r
      OBVIOUS
    <3>2. z \in Nat /\ r \in Nat /\ s \in Nat
      BY <2>1
    <3>3. QED BY <1>3, <3>1, <3>2
  <2>3. Cardinality(Over(s)) <= Cardinality(Over(r))
    <3> HIDE DEF Over
    <3> QED BY <1>1, <2>1, <2>2, FS_Subset
  <2>4. Cardinality(Over(s)) <= PageSize
    <3> HIDE DEF Over
    <3> QED BY <1>0, <1>1, <2>1, <2>3
  <2>5. QED BY <1>2, <2>4
<1>4. ASSUME Cardinality(S) > 0 PROVE Slice(S, 1) # {}
  <2>1. S # {}
    BY <1>4, FS_EmptySet
  <2>2. PICK m \in S : \A s \in S : s <= m
    BY <2>1, GreatestExists
  <2>3. Over(m) = {m}
    <3>1. ASSUME NEW s \in S PROVE s >= m <=> s = m
      <4>1. s \in Nat /\ m \in Nat /\ s <= m
        BY <2>2
      <4>2. QED BY <4>1
    <3>2. QED BY <3>1
  <2>4. Cardinality(Over(m)) = 1
    BY <2>3, FS_Singleton
  <2>5. m \in Slice(S, 1)
    <3> HIDE DEF Over
    <3> QED BY <1>0, <1>2, <2>4
  <2>6. QED BY <2>5
<1>5. Cardinality(S) \in Nat
  BY FS_CardinalityType
<1>6. Slice(S, n) \subseteq S
  BY DEF Slice
<1>7. QED BY <1>3, <1>4, <1>5, <1>6

-----------------------------------------------------------------------------
(* Loads under way. What matters of a list is the load that was asked for   *)
(* last, unless a later one has been applied: the answer the list waits for. *)
IsLast(s, l, i) == s[i].list = l /\ ~s[i].old /\ \A j \in DOMAIN s : j > i => s[j].list # l

AwaitedIn(s, l)  == {s[i] : i \in {k \in DOMAIN s : IsLast(s, l, k)}}
UnderWayIn(s, l) == \E i \in DOMAIN s : s[i].list = l
Awaited(l)       == AwaitedIn(loads, l)

Got(x)     == x.reply \notin {Nothing, Failed}
MarkOld(x) == [x EXCEPT !.old = TRUE]

(* Nothing happens to list l.                                               *)
Quiet(s, t, l) ==
    /\ \A x \in AwaitedIn(t, l) : x \in AwaitedIn(s, l)
    /\ UnderWayIn(s, l) <=> UnderWayIn(t, l)

LEMMA MarkedLoad ==
    ASSUME NEW x \in Loads
    PROVE  /\ MarkOld(x) \in Loads
           /\ MarkOld(x).list = x.list /\ MarkOld(x).query = x.query
           /\ MarkOld(x).reply = x.reply /\ MarkOld(x).old
           /\ MarkOld(MarkOld(x)) = MarkOld(x)
BY DEF MarkOld, Loads

LEMMA NewLoad ==
    ASSUME NEW l \in Lists, NEW q \in Queries
    PROVE  /\ Load(l, q) \in Loads
           /\ Load(l, q).list = l /\ Load(l, q).query = q /\ Load(l, q).reply = Nothing
           /\ ~Load(l, q).old /\ ~Got(Load(l, q))
BY DEF Load, Loads, Got

(* A request is sent, and some of those before become old.                  *)
Joined(s, m, new, t) ==
    /\ t \in Seq(Loads) /\ Len(t) = Len(s) + 1
    /\ AwaitedIn(t, new.list) = {new} /\ UnderWayIn(t, new.list)
    /\ \A l : l # new.list => Quiet(s, t, l)
    /\ \A k \in DOMAIN t :
          \/ k = Len(s) + 1 /\ t[k] = new
          \/ k \in DOMAIN s /\ (t[k] = s[k] \/ t[k] = MarkOld(s[k])) /\ t[k] = m[k]

LEMMA LoadSent ==
    ASSUME NEW s \in Seq(Loads), NEW m \in Seq(Loads), Len(m) = Len(s),
           \A j \in DOMAIN s : m[j] = s[j] \/ m[j] = MarkOld(s[j]),
           NEW new \in Loads, ~new.old
    PROVE  Joined(s, m, new, Append(m, new))
<1> DEFINE t == Append(m, new)
<1>1. /\ t \in Seq(Loads) /\ Len(t) = Len(s) + 1 /\ Len(s) \in Nat
      /\ DOMAIN s = 1..Len(s) /\ DOMAIN m = 1..Len(s) /\ DOMAIN t = 1..(Len(s) + 1)
      /\ \A k \in 1..Len(s) : t[k] = m[k]
      /\ t[Len(s) + 1] = new
  BY AppendProperties, LenProperties
<1>2. /\ \A k \in 1..Len(s) : s[k] \in Loads /\ m[k] \in Loads
      /\ \A k \in 1..Len(s) : m[k] = s[k] \/ m[k] = MarkOld(s[k])
  BY <1>1, ElementOfSeq
<1>3. \A k \in 1..Len(s) : t[k].list = s[k].list /\ (~t[k].old => t[k] = s[k])
  <2>1. SUFFICES ASSUME NEW k \in 1..Len(s)
                 PROVE  t[k].list = s[k].list /\ (~t[k].old => t[k] = s[k])
    OBVIOUS
  <2>2. s[k] \in Loads /\ t[k] = m[k] /\ (m[k] = s[k] \/ m[k] = MarkOld(s[k]))
    BY <1>1, <1>2
  <2>3. QED BY <2>2, MarkedLoad
<1>4. \A k \in DOMAIN t : \/ k = Len(s) + 1 /\ t[k] = new
                          \/ k \in DOMAIN s /\ (t[k] = s[k] \/ t[k] = MarkOld(s[k])) /\ t[k] = m[k]
  <2>1. SUFFICES ASSUME NEW k \in 1..(Len(s) + 1), k # Len(s) + 1
                 PROVE  k \in 1..Len(s)
    BY <1>1, <1>2
  <2>2. QED BY <1>1, <2>1
<1>5. AwaitedIn(t, new.list) = {new} /\ UnderWayIn(t, new.list)
  <2>1. Len(s) + 1 \in DOMAIN t
    BY <1>1
  <2>2. UnderWayIn(t, new.list)
    BY <1>1, <2>1 DEF UnderWayIn
  <2>3. IsLast(t, new.list, Len(s) + 1)
    <3>1. \A j \in DOMAIN t : ~(j > Len(s) + 1)
      BY <1>1
    <3>2. QED BY <1>1, <3>1 DEF IsLast
  <2>4. ASSUME NEW k \in DOMAIN t, IsLast(t, new.list, k) PROVE t[k] = new
    <3>1. CASE k = Len(s) + 1 BY <1>1, <3>1
    <3>2. CASE k # Len(s) + 1
      <4>1. Len(s) + 1 > k
        BY <1>1, <3>2
      <4>2. QED BY <1>1, <2>1, <2>4, <4>1 DEF IsLast
    <3>3. QED BY <3>1, <3>2
  <2>5. new \in AwaitedIn(t, new.list)
    BY <1>1, <2>1, <2>3 DEF AwaitedIn
  <2>6. QED BY <2>2, <2>4, <2>5 DEF AwaitedIn
<1>6. ASSUME NEW l, l # new.list PROVE Quiet(s, t, l)
  <2>1. ASSUME NEW x \in AwaitedIn(t, l) PROVE x \in AwaitedIn(s, l)
    <3>1. PICK k \in DOMAIN t : IsLast(t, l, k) /\ x = t[k]
      BY <2>1 DEF AwaitedIn
    <3>2. k \in 1..Len(s)
      BY <1>1, <1>4, <1>6, <3>1 DEF IsLast
    <3>3. x = s[k] /\ s[k].list = l /\ ~s[k].old
      BY <1>3, <3>1, <3>2 DEF IsLast
    <3>4. ASSUME NEW j \in DOMAIN s, j > k PROVE s[j].list # l
      <4>1. j \in DOMAIN t /\ t[j].list = s[j].list
        BY <1>1, <1>3, <3>4
      <4>2. QED BY <3>1, <3>4, <4>1 DEF IsLast
    <3>5. IsLast(s, l, k) /\ k \in DOMAIN s
      BY <1>1, <3>2, <3>3, <3>4 DEF IsLast
    <3>6. QED BY <3>3, <3>5 DEF AwaitedIn
  <2>2. ASSUME UnderWayIn(s, l) PROVE UnderWayIn(t, l)
    <3>1. PICK k \in 1..Len(s) : s[k].list = l
      BY <1>1, <2>2 DEF UnderWayIn
    <3>2. k \in DOMAIN t /\ t[k].list = l
      BY <1>1, <1>3, <3>1
    <3>3. QED BY <3>2 DEF UnderWayIn
  <2>3. ASSUME UnderWayIn(t, l) PROVE UnderWayIn(s, l)
    <3>1. PICK k \in DOMAIN t : t[k].list = l
      BY <2>3 DEF UnderWayIn
    <3>2. k \in 1..Len(s)
      BY <1>1, <1>4, <1>6, <3>1
    <3>3. k \in DOMAIN s /\ s[k].list = l
      BY <1>1, <1>3, <3>1, <3>2
    <3>4. QED BY <3>3 DEF UnderWayIn
  <2>4. QED BY <2>1, <2>2, <2>3 DEF Quiet
<1>7. QED BY <1>1, <1>4, <1>5, <1>6 DEF Joined

(* A request is served, or fails.                                           *)
Answered(s, i, r, t) ==
    /\ t \in Seq(Loads) /\ Len(t) = Len(s) /\ DOMAIN t = DOMAIN s
    /\ \A j \in DOMAIN s : j # i => t[j] = s[j]
    /\ t[i] = [s[i] EXCEPT !.reply = r] /\ t[i] \in Loads
    /\ t[i].list = s[i].list /\ t[i].query = s[i].query /\ t[i].old = s[i].old
    /\ t[i].reply = r
    /\ \A l : UnderWayIn(s, l) <=> UnderWayIn(t, l)
    /\ \A l : \A x \in AwaitedIn(t, l) :
          x \in AwaitedIn(s, l) \/ (x = t[i] /\ s[i] \in AwaitedIn(s, l))

LEMMA LoadServed ==
    ASSUME NEW s \in Seq(Loads), NEW i \in DOMAIN s, NEW r \in Replies \cup {Failed}
    PROVE  Answered(s, i, r, [s EXCEPT ![i].reply = r])
<1> DEFINE t == [s EXCEPT ![i].reply = r]
<1>1. s[i] \in Loads /\ DOMAIN s = 1..Len(s) /\ Len(s) \in Nat
  BY ElementOfSeq, LenProperties
<1>2. /\ [s[i] EXCEPT !.reply = r] \in Loads
      /\ [s[i] EXCEPT !.reply = r].list = s[i].list
      /\ [s[i] EXCEPT !.reply = r].query = s[i].query
      /\ [s[i] EXCEPT !.reply = r].old = s[i].old
      /\ [s[i] EXCEPT !.reply = r].reply = r
  BY <1>1 DEF Loads
<1>3. /\ t \in Seq(Loads) /\ Len(t) = Len(s) /\ DOMAIN t = DOMAIN s
      /\ \A j \in DOMAIN s : j # i => t[j] = s[j]
      /\ t[i] = [s[i] EXCEPT !.reply = r]
  <2>1. t = [s EXCEPT ![i] = [s[i] EXCEPT !.reply = r]]
    OBVIOUS
  <2>2. QED BY <1>1, <1>2, <2>1, ExceptSeq, LenProperties
<1>4. \A j \in DOMAIN s : t[j].list = s[j].list /\ t[j].old = s[j].old
  BY <1>2, <1>3
<1>5. ASSUME NEW l, NEW x \in AwaitedIn(t, l)
      PROVE  x \in AwaitedIn(s, l) \/ (x = t[i] /\ s[i] \in AwaitedIn(s, l))
  <2>1. PICK k \in DOMAIN t : IsLast(t, l, k) /\ x = t[k]
    BY <1>5 DEF AwaitedIn
  <2>2. IsLast(s, l, k)
    BY <1>3, <1>4, <2>1 DEF IsLast
  <2>3. s[k] \in AwaitedIn(s, l)
    BY <1>3, <2>1, <2>2 DEF AwaitedIn
  <2>4. QED BY <1>3, <2>1, <2>3
<1>6. \A l : UnderWayIn(s, l) <=> UnderWayIn(t, l)
  BY <1>3, <1>4 DEF UnderWayIn
<1>7. QED BY <1>2, <1>3, <1>5, <1>6 DEF Answered

(* An answer is applied, or an error.                                       *)
Passed(s, i, j) == IF j < i /\ s[j].list = s[i].list THEN MarkOld(s[j]) ELSE s[j]

Applied(s, t, i) ==
    /\ t \in Seq(Loads) /\ Len(t) = Len(s) - 1
    /\ \A k \in 1..(Len(s) - 1) : t[k] = Passed(s, i, IF k < i THEN k ELSE k + 1)

LEMMA LoadRemains ==
    ASSUME loads \in Seq(Loads), NEW i \in DOMAIN loads
    PROVE  Applied(loads, Remaining(i), i)
<1>1. /\ Len(loads) \in Nat /\ DOMAIN loads = 1..Len(loads) /\ i \in 1..Len(loads)
      /\ \A j \in 1..Len(loads) : loads[j] \in Loads
  BY ElementOfSeq, LenProperties
<1> DEFINE m == [j \in DOMAIN loads |->
                   IF j < i /\ loads[j].list = loads[i].list
                   THEN [loads[j] EXCEPT !.old = TRUE] ELSE loads[j]]
           n == Len(loads)
<1>2. \A j \in 1..n : m[j] = Passed(loads, i, j) /\ m[j] \in Loads
  BY <1>1, MarkedLoad DEF Passed, MarkOld
<1>3. m \in Seq(Loads) /\ Len(m) = n
  <2>1. m \in [1..n -> Loads]
    BY <1>1, <1>2
  <2>2. QED
    <3> HIDE DEF m
    <3> QED BY <1>1, <2>1, IsASeq, LenProperties
<1>4. Remaining(i) = SubSeq(m, 1, i - 1) \o SubSeq(m, i + 1, n)
  <2>1. Remaining(i) = RemoveAt(m, i)
    BY DEF Remaining
  <2>2. QED BY <1>3, <2>1 DEF RemoveAt
<1> HIDE DEF m
<1> DEFINE a == SubSeq(m, 1, i - 1)
           b == SubSeq(m, i + 1, n)
<1>5. /\ a \in Seq(Loads) /\ Len(a) = i - 1
      /\ \A k \in 1..(i - 1) : a[k] = m[k]
  <2>1. 1 \in 1..(n + 1) /\ i - 1 \in 0..n /\ \A k \in 1..(i - 1) : 1 + k - 1 = k
    BY <1>1
  <2>2. QED BY <1>1, <1>3, <2>1, SubSeqProperties
<1>6. /\ b \in Seq(Loads) /\ Len(b) = n - i
      /\ \A k \in 1..(n - i) : b[k] = m[i + k]
  <2>1. i + 1 \in 1..(n + 1) /\ n \in 0..n
    BY <1>1
  <2>2. b \in Seq(Loads) /\ Len(b) = (IF i + 1 <= n THEN n - (i + 1) + 1 ELSE 0)
        /\ \A k \in 1..(n - (i + 1) + 1) : b[k] = m[i + 1 + k - 1]
    BY <1>1, <1>3, <2>1, SubSeqProperties
  <2>3. \A k \in 1..(n - i) : i + 1 + k - 1 = i + k
    BY <1>1
  <2>4. QED BY <1>1, <2>2, <2>3
<1> HIDE DEF a, b
<1>7. /\ a \o b \in Seq(Loads) /\ Len(a \o b) = n - 1
      /\ \A k \in 1..(n - 1) : (a \o b)[k] = (IF k <= i - 1 THEN a[k] ELSE b[k - (i - 1)])
  <2>1. /\ a \o b \in Seq(Loads) /\ Len(a \o b) = Len(a) + Len(b)
        /\ \A k \in 1..(Len(a) + Len(b)) :
              (a \o b)[k] = (IF k <= Len(a) THEN a[k] ELSE b[k - Len(a)])
    BY <1>5, <1>6, ConcatProperties
  <2>2. Len(a) + Len(b) = n - 1
    BY <1>1, <1>5, <1>6
  <2>3. QED BY <1>5, <2>1, <2>2
<1>8. ASSUME NEW k \in 1..(n - 1)
      PROVE  (a \o b)[k] = Passed(loads, i, IF k < i THEN k ELSE k + 1)
  <2>1. CASE k < i
    <3>1. k \in 1..(i - 1) /\ k \in 1..n /\ k <= i - 1
      BY <1>1, <2>1
    <3>2. (a \o b)[k] = a[k]
      BY <1>7, <3>1
    <3>3. (IF k < i THEN k ELSE k + 1) = k
      BY <2>1
    <3>4. QED BY <1>2, <1>5, <3>1, <3>2, <3>3
  <2>2. CASE ~(k < i)
    <3>1. /\ ~(k <= i - 1) /\ k - (i - 1) \in 1..(n - i) /\ i + (k - (i - 1)) = k + 1
          /\ k + 1 \in 1..n
      BY <1>1, <2>2
    <3>2. (a \o b)[k] = b[k - (i - 1)]
      BY <1>7, <3>1
    <3>3. b[k - (i - 1)] = m[i + (k - (i - 1))]
      BY <1>6, <3>1
    <3>4. m[i + (k - (i - 1))] = m[k + 1]
      BY <3>1
    <3>5. (IF k < i THEN k ELSE k + 1) = k + 1
      BY <2>2
    <3>6. QED BY <1>2, <3>1, <3>2, <3>3, <3>4, <3>5
  <2>3. QED BY <2>1, <2>2
<1>9. Remaining(i) = a \o b
  BY <1>4 DEF a, b
<1>10. QED BY <1>7, <1>8, <1>9 DEF Applied

Alone(s, i) == \A j \in DOMAIN s : j # i => s[j].list # s[i].list

OneLeft(s) == \A j, k \in DOMAIN s : ~s[j].old /\ ~s[k].old => j = k

Overtook(s, i, t) ==
    /\ t \in Seq(Loads) /\ Len(t) < Len(s)
    /\ \A k \in DOMAIN t : \E j \in DOMAIN s \ {i} : t[k] = s[j] \/ t[k] = MarkOld(s[j])
    /\ \A l : \A x \in AwaitedIn(t, l) : x \in AwaitedIn(s, l)
    /\ \A l : l # s[i].list => Quiet(s, t, l)
    /\ ~UnderWayIn(t, s[i].list) =>
          Alone(s, i) /\ (~s[i].old => s[i] \in AwaitedIn(s, s[i].list))
    /\ Alone(s, i) => ~UnderWayIn(t, s[i].list)
    /\ OneLeft(s) => /\ OneLeft(t)
                     /\ ~s[i].old => \A k \in DOMAIN t : t[k].old

LEMMA LoadApplied ==
    ASSUME NEW s \in Seq(Loads), NEW i \in DOMAIN s, NEW t, Applied(s, t, i)
    PROVE  Overtook(s, i, t)
<1> DEFINE n == Len(s)
           from(k) == IF k < i THEN k ELSE k + 1
<1>1. /\ n \in Nat /\ DOMAIN s = 1..n /\ i \in 1..n
      /\ \A j \in 1..n : s[j] \in Loads
      /\ t \in Seq(Loads) /\ Len(t) = n - 1 /\ DOMAIN t = 1..(n - 1)
      /\ \A k \in 1..(n - 1) : t[k] = Passed(s, i, from(k))
  BY ElementOfSeq, LenProperties DEF Applied
<1>2. ASSUME NEW k \in 1..(n - 1)
      PROVE  /\ from(k) \in 1..n /\ from(k) # i
             /\ t[k].list = s[from(k)].list
             /\ t[k] = s[from(k)] \/ t[k] = MarkOld(s[from(k)])
             /\ ~t[k].old => /\ t[k] = s[from(k)]
                             /\ from(k) > i \/ s[from(k)].list # s[i].list
  <2>1. from(k) \in 1..n /\ from(k) # i
    BY <1>1
  <2> HIDE DEF from
  <2>2. t[k] = Passed(s, i, from(k)) /\ s[from(k)] \in Loads
    BY <1>1, <2>1
  <2>3. CASE from(k) < i /\ s[from(k)].list = s[i].list
    BY <2>1, <2>2, <2>3, MarkedLoad DEF Passed
  <2>4. CASE ~(from(k) < i /\ s[from(k)].list = s[i].list)
    <3>1. t[k] = s[from(k)]
      BY <2>2, <2>4 DEF Passed
    <3>2. from(k) > i \/ s[from(k)].list # s[i].list
      BY <1>1, <2>1, <2>4
    <3>3. QED BY <2>1, <3>1, <3>2
  <2>5. QED BY <2>3, <2>4
<1>3. \A j, k \in 1..(n - 1) : j > k => from(j) > from(k)
  BY <1>1
<1>4. ASSUME NEW j \in 1..n, j # i PROVE \E k \in 1..(n - 1) : from(k) = j
  <2>1. CASE j < i
    <3>1. j \in 1..(n - 1) /\ from(j) = j
      BY <1>1, <2>1
    <3>2. QED BY <3>1
  <2>2. CASE j > i
    <3>1. j - 1 \in 1..(n - 1) /\ ~(j - 1 < i) /\ j - 1 + 1 = j
      BY <1>1, <2>2
    <3>2. from(j - 1) = j
      BY <3>1
    <3>3. QED BY <3>1, <3>2
  <2>3. QED BY <1>1, <1>4, <2>1, <2>2
<1> HIDE DEF from
<1>5. ASSUME NEW l, NEW x \in AwaitedIn(t, l) PROVE x \in AwaitedIn(s, l)
  <2>1. PICK k \in 1..(n - 1) : IsLast(t, l, k) /\ x = t[k]
    BY <1>1, <1>5 DEF AwaitedIn
  <2>2. /\ from(k) \in DOMAIN s /\ x = s[from(k)] /\ s[from(k)].list = l /\ ~s[from(k)].old
        /\ from(k) > i \/ s[from(k)].list # s[i].list
    BY <1>1, <1>2, <2>1 DEF IsLast
  <2>3. ASSUME NEW j \in DOMAIN s, j > from(k) PROVE s[j].list # l
    <3>1. CASE j = i
      BY <1>1, <2>2, <2>3, <3>1
    <3>2. CASE j # i
      <4>1. PICK m \in 1..(n - 1) : from(m) = j
        BY <1>1, <1>4, <3>2
      <4>2. m > k
        <5>1. m = k \/ m > k \/ k > m
          BY <1>1
        <5>2. j \in Nat /\ from(k) \in Nat
          BY <1>1, <2>2
        <5>3. QED BY <1>3, <2>3, <4>1, <5>1, <5>2
      <4>3. t[m].list = s[j].list
        BY <1>2, <4>1
      <4>4. QED BY <1>1, <2>1, <4>2, <4>3 DEF IsLast
    <3>3. QED BY <3>1, <3>2
  <2>4. IsLast(s, l, from(k))
    BY <2>2, <2>3 DEF IsLast
  <2>5. QED BY <2>2, <2>4 DEF AwaitedIn
<1>6. \A l : UnderWayIn(t, l) => UnderWayIn(s, l)
  BY <1>1, <1>2 DEF UnderWayIn
<1>7. ASSUME NEW l, UnderWayIn(s, l), ~UnderWayIn(t, l)
      PROVE  l = s[i].list /\ \A j \in DOMAIN s : j # i => s[j].list # l
  <2>1. \A j \in DOMAIN s : j # i => s[j].list # l
    <3>1. SUFFICES ASSUME NEW j \in 1..n, j # i, s[j].list = l PROVE FALSE
      BY <1>1
    <3>2. PICK k \in 1..(n - 1) : from(k) = j
      BY <1>4, <3>1
    <3>3. t[k].list = l
      BY <1>2, <3>1, <3>2
    <3>4. QED BY <1>1, <1>7, <3>3 DEF UnderWayIn
  <2>2. QED BY <1>7, <2>1 DEF UnderWayIn
<1>8. ASSUME ~UnderWayIn(t, s[i].list)
      PROVE  Alone(s, i) /\ (~s[i].old => s[i] \in AwaitedIn(s, s[i].list))
  <2>1. UnderWayIn(s, s[i].list)
    BY DEF UnderWayIn
  <2>2. Alone(s, i)
    BY <1>7, <1>8, <2>1 DEF Alone
  <2>3. ASSUME ~s[i].old PROVE s[i] \in AwaitedIn(s, s[i].list)
    <3>1. \A j \in DOMAIN s : j > i => s[j].list # s[i].list
      <4>1. SUFFICES ASSUME NEW j \in DOMAIN s, j > i PROVE j # i
        BY <2>2 DEF Alone
      <4>2. QED BY <1>1, <4>1
    <3>2. IsLast(s, s[i].list, i)
      BY <2>3, <3>1 DEF IsLast
    <3>3. QED BY <3>2 DEF AwaitedIn
  <2>4. QED BY <2>2, <2>3
<1>9. ASSUME Alone(s, i) PROVE ~UnderWayIn(t, s[i].list)
  BY <1>1, <1>2, <1>9 DEF Alone, UnderWayIn
<1>10. ASSUME OneLeft(s)
       PROVE  /\ OneLeft(t)
              /\ ~s[i].old => \A k \in DOMAIN t : t[k].old
  <2>1. ASSUME NEW j \in 1..(n - 1), NEW k \in 1..(n - 1), ~t[j].old, ~t[k].old
        PROVE  j = k
    <3>1. from(j) = from(k)
      BY <1>1, <1>2, <1>10, <2>1 DEF OneLeft
    <3>2. from(j) \in 1..n /\ from(k) \in 1..n
      BY <1>2
    <3>3. j = k \/ j > k \/ k > j
      BY <1>1
    <3>4. QED BY <1>1, <1>3, <3>1, <3>2, <3>3
  <2>2. ASSUME ~s[i].old, NEW k \in 1..(n - 1) PROVE t[k].old
    BY <1>1, <1>2, <1>10, <2>2 DEF OneLeft
  <2>3. QED BY <1>1, <2>1, <2>2 DEF OneLeft
<1>11. \A k \in DOMAIN t : \E j \in DOMAIN s \ {i} : t[k] = s[j] \/ t[k] = MarkOld(s[j])
  BY <1>1, <1>2
<1>12. \A l : l # s[i].list => Quiet(s, t, l)
  BY <1>5, <1>6, <1>7 DEF Quiet
<1>13. t \in Seq(Loads) /\ Len(t) < Len(s)
  BY <1>1
<1>14. QED BY <1>5, <1>8, <1>9, <1>10, <1>11, <1>12, <1>13 DEF Overtook

-----------------------------------------------------------------------------
(* Which lists a page has, and what only some pages have.                   *)
ListsOf(p) ==
    CASE p = "none"      -> {}
      [] p = "passports" -> {"passports", "history"}
      [] p = "admin"     -> Sections \cup {"detail"}
      [] OTHER           -> {p}

OwnLists ==
    /\ \A i \in DOMAIN loads : loads[i].list \in ListsOf(at)
    /\ \A l \in Lists : shown[l] # Nothing => l \in ListsOf(at)
    /\ timer => at \in {"products", "admin"}
    /\ task # Nothing => at \in {"products", "passports", "users", "admin"}
    /\ dialog # 0 => at \in {"passports", "admin"}
    /\ entries # Nothing => at = "activity"
    /\ cursor # 0 => entries # Nothing
    /\ at \notin {"products", "admin"} => ~want.term

Has(kind, l) == <<kind, l>> \in excuses
Excusable == {"overtaken", "failed", "closure", "early", "shrunk"}

LEMMA ListsKnown ==
    /\ \A p \in AllPages \cup {"none"} : ListsOf(p) \subseteq Lists
    /\ \A p \in AllPages : Main(p) \in ListsOf(p)
    /\ Pages \subseteq AllPages
<1>1. \A p \in AllPages \cup {"none"} : ListsOf(p) \subseteq Lists
  BY DEF AllPages, ListsOf, Lists, Sections
<1>2. \A p \in AllPages : Main(p) \in ListsOf(p)
  BY DEF AllPages, ListsOf, Main, Sections
<1>3. QED BY <1>1, <1>2, DashboardAssumption

Hit(q) == Cardinality(Hits(q))

LEMMA StampsFinite ==
    Stamps \subseteq Nat /\ IsFiniteSet(Stamps) /\ 1..FirstRows \subseteq Stamps
<1>1. FirstRows \in Nat /\ MaxWrites \in Nat
  BY DashboardAssumption
<1>2. IsFiniteSet(Stamps)
  <2>1. 1 \in Int /\ FirstRows + MaxWrites \in Int
    BY <1>1
  <2>2. QED BY <2>1, FS_Interval DEF Stamps
<1>3. QED BY <1>1, <1>2 DEF Stamps

LEMMA HitsFinite ==
    ASSUME DashboardTypeOK
    PROVE  /\ IsFiniteSet(rows) /\ rows \subseteq Nat
           /\ \A q : Hits(q) \subseteq rows /\ IsFiniteSet(Hits(q)) /\ Hit(q) \in Nat
<1>3. IsFiniteSet(rows) /\ rows \subseteq Nat
  <2>1. rows \subseteq Stamps
    BY DEF DashboardTypeOK
  <2>2. QED BY <2>1, StampsFinite, FS_Subset
<1>4. \A q : Hits(q) \subseteq rows
  BY DEF Hits
<1>5. ASSUME NEW q PROVE IsFiniteSet(Hits(q)) /\ Hit(q) \in Nat
  <2>1. IsFiniteSet(Hits(q))
    BY <1>3, <1>4, FS_Subset
  <2>2. QED BY <2>1, FS_CardinalityType DEF Hit
<1>6. QED BY <1>3, <1>4, <1>5

Paged == {"products", "audit"}

LEMMA AnswerFacts ==
    ASSUME DashboardTypeOK, NEW l \in Lists, NEW q \in Queries
    PROVE  /\ AnswerTo(l, q) \in Replies
           /\ AnswerTo(l, q).asOf = writes
           /\ l \in Paged => AnswerTo(l, q).total = Hit(q)
           /\ l = "passports" /\ q = Plain =>
                 AnswerTo(l, q).ids = rows /\ AnswerTo(l, q).off = off
           /\ l = "activity" =>
                 /\ AnswerTo(l, q).ids = Slice(Older(Hits(q), q.row), 1)
                 /\ AnswerTo(l, q).total = Cardinality(Older(Hits(q), q.row))
<1>1. /\ IsFiniteSet(Hits(q)) /\ Hits(q) \subseteq Nat /\ Hit(q) \in Nat
      /\ writes \in Nat /\ off \subseteq Nat
      /\ q.row \in Nat /\ q.page \in Nat \ {0}
  <2>1. IsFiniteSet(Hits(q)) /\ Hits(q) \subseteq Nat /\ Hit(q) \in Nat
    BY HitsFinite
  <2>2. writes \in Nat /\ off \subseteq Nat
    BY DashboardAssumption DEF DashboardTypeOK
  <2>3. q.row \in Nat /\ q.page \in Nat \ {0}
    BY DEF Queries
  <2>4. QED BY <2>1, <2>2, <2>3
<1>2. \A ids \in SUBSET Nat, n \in Nat :
        /\ Reply(ids, n) \in Replies /\ Reply(ids, n).asOf = writes
        /\ Reply(ids, n).ids = ids /\ Reply(ids, n).total = n /\ Reply(ids, n).off = off
  BY <1>1 DEF Reply, Replies
<1>3. CASE l \in {"products", "audit"}
  <2>1. AnswerTo(l, q) = Reply(Slice(Hits(q), q.page), Hit(q))
    BY <1>3 DEF AnswerTo, Hit
  <2>2. Slice(Hits(q), q.page) \in SUBSET Nat
    BY <1>1, SliceFacts
  <2>3. QED BY <1>1, <1>2, <1>3, <2>1, <2>2
<1>4. CASE l = "activity"
  <2> DEFINE S == Older(Hits(q), q.row)
  <2>1. S \subseteq Hits(q)
    BY DEF Older
  <2>2. IsFiniteSet(S) /\ S \subseteq Nat
    <3> HIDE DEF S
    <3> QED BY <1>1, <2>1, FS_Subset
  <2>3. AnswerTo(l, q) = Reply(Slice(S, 1), Cardinality(S))
    BY <1>4 DEF AnswerTo
  <2>4. Slice(S, 1) \in SUBSET Nat /\ Cardinality(S) \in Nat
    <3> HIDE DEF S
    <3>1. Slice(S, 1) \subseteq S /\ Cardinality(S) \in Nat
      <4>1. 1 \in Nat \ {0}
        OBVIOUS
      <4>2. QED BY <2>2, <4>1, SliceFacts
    <3>2. QED BY <2>2, <3>1
  <2>5. QED BY <1>2, <1>4, <2>3, <2>4 DEF Paged
<1>5. CASE l \in {"history", "detail"}
  <2>1. AnswerTo(l, q) = Reply({q.row}, 1)
    BY <1>5 DEF AnswerTo
  <2>2. {q.row} \in SUBSET Nat
    BY <1>1
  <2>3. QED BY <1>2, <1>5, <2>1, <2>2 DEF Paged
<1>6. CASE l \notin {"products", "audit", "activity", "history", "detail"}
  <2>1. AnswerTo(l, q) = Reply(Hits(q), Hit(q))
    BY <1>6 DEF AnswerTo, Hit
  <2>2. q = Plain => Hits(q) = rows
    BY DEF Plain, Hits
  <2>3. QED BY <1>1, <1>2, <1>6, <2>1, <2>2 DEF Paged
<1>7. QED BY <1>3, <1>4, <1>5, <1>6

-----------------------------------------------------------------------------
(* The controls of a page ask for nothing, or send a request for a list.    *)
Driven == {"products", "audit", "analytics"}

Untouched == UNCHANGED <<data, shown, entries, cursor, dialog, task>>

KeepsLoads ==
    /\ Untouched /\ UNCHANGED <<loads, asked, errors, busy, excuses>>
    /\ search' \in BOOLEAN /\ timer' \in BOOLEAN
    /\ timer' => at \in {"products", "admin"}
    /\ section' \in {section, "brands"}
    /\ \/ want' = want
       \/ /\ at = "admin" /\ section # "audit" /\ section' = section
          /\ want' \in Queries /\ want'.page = 1 /\ want'.row = 0

(* The page that is asked for exists according to the answer on the screen. *)
Turns(l) ==
    \/ want' = want /\ excuses' = excuses
    \/ want'.page = 1 /\ excuses' = excuses
    \/ /\ shown[l] # Nothing
       /\ want' = [want EXCEPT !.page = want'.page]
       /\ want'.page <= NumPages(shown[l].total) \/ want'.page <= want.page
       /\ excuses' = IF shown[l].query = want THEN excuses ELSE excuses \cup {<<"early", l>>}

AsksFor(l) ==
    /\ Untouched
    /\ l \in ListsOf(at) \ {"history"}
    /\ Len(loads) < MaxLoads /\ asked' \in Nat
    /\ \E q \in Queries : /\ loads' = Append(loads, Load(l, q))
                          /\ l \in Driven => q = want'
                          /\ l = "passports" => q = Plain
                          /\ l = "activity" => q = [want EXCEPT !.row = cursor]
    /\ errors' = errors \ {l}
    /\ want' \in Queries /\ want'.row = 0
    /\ l \notin Driven => want' = want
    /\ want'.term => at \in {"products", "admin"}
    /\ section' \in Sections
    /\ IF l = "audit" THEN section' = "audit" ELSE section' = section \/ section' # "audit"
    /\ IF l \in Paged THEN Turns(l) ELSE excuses' = excuses
    /\ l = "activity" => cursor # 0 /\ ~busy /\ busy'
    /\ search' \in BOOLEAN /\ timer' \in BOOLEAN /\ busy' \in BOOLEAN
    /\ timer' => at \in {"products", "admin"}

LEMMA PlainQuery ==
    /\ Plain \in Queries /\ Plain.row = 0 /\ Plain.page = 1 /\ ~Plain.term /\ ~Plain.filter
    /\ \A r \in Nat : [Plain EXCEPT !.row = r] \in Queries /\ [Plain EXCEPT !.row = r].row = r
<1>1. Plain \in Queries /\ Plain.row = 0 /\ Plain.page = 1 /\ ~Plain.term /\ ~Plain.filter
  BY DEF Plain, Queries
<1>2. ASSUME NEW r \in Nat
      PROVE  [Plain EXCEPT !.row = r] \in Queries /\ [Plain EXCEPT !.row = r].row = r
  BY <1>1 DEF Queries
<1>3. QED BY <1>1, <1>2

LEMMA FirstPage ==
    ASSUME NEW q \in Queries, NEW x \in BOOLEAN
    PROVE  /\ [q EXCEPT !.term = x, !.page = 1] \in Queries
           /\ [q EXCEPT !.term = x, !.page = 1].row = q.row
           /\ [q EXCEPT !.term = x, !.page = 1].page = 1
           /\ [q EXCEPT !.filter = x, !.page = 1] \in Queries
           /\ [q EXCEPT !.filter = x, !.page = 1].row = q.row
           /\ [q EXCEPT !.filter = x, !.page = 1].page = 1
<1>1. 1 \in Nat \ {0}
  OBVIOUS
<1>2. /\ [q EXCEPT !.term = x] \in Queries /\ [q EXCEPT !.term = x].row = q.row
      /\ [q EXCEPT !.filter = x] \in Queries /\ [q EXCEPT !.filter = x].row = q.row
  BY DEF Queries
<1>3. \A p \in Queries : /\ [p EXCEPT !.page = 1] \in Queries
                         /\ [p EXCEPT !.page = 1].row = p.row /\ [p EXCEPT !.page = 1].page = 1
  BY <1>1 DEF Queries
<1>4. QED BY <1>2, <1>3

LEMMA WantStep ==
    ASSUME DashboardTypeOK, NEW w \in Queries, w.row = 0, Want(w),
           UNCHANGED controls, search' \in BOOLEAN, timer' \in BOOLEAN,
           at \in {"products", "analytics", "admin"},
           timer' => at \in {"products", "admin"},
           w.term => at \in {"products", "admin"},
           at # "analytics" => w.page = 1
    PROVE  KeepsLoads \/ \E l \in Lists : AsksFor(l)
<1>1. /\ Untouched /\ section' = section /\ want' = w /\ excuses' = excuses
      /\ section \in Sections /\ busy \in BOOLEAN
  BY DEF controls, Untouched, data, Want, DashboardTypeOK
<1>2. CASE w = want \/ List \in {"brands", "oversight"}
  <2>1. UNCHANGED <<loads, asked, errors, busy>>
    BY <1>2 DEF Want
  <2>2. w = want \/ (at = "admin" /\ section # "audit" /\ w.page = 1)
    BY <1>2 DEF List
  <2>3. KeepsLoads
    BY <1>1, <2>1, <2>2 DEF KeepsLoads
  <2>4. QED BY <2>3
<1>3. CASE ~(w = want \/ List \in {"brands", "oversight"})
  <2>1. Ask(List, w) /\ busy' = (busy \/ List = "audit")
    BY <1>3 DEF Want
  <2>2. /\ loads' = Append(loads, Load(List, w)) /\ errors' = errors \ {List}
        /\ Len(loads) < MaxLoads /\ asked' = asked + 1
    BY <2>1 DEF Ask, Bounded
  <2>3. /\ List \in ListsOf(at) \ {"history"} /\ List \in Driven /\ List \in Lists
        /\ List = "audit" => section = "audit"
        /\ List \in Paged => w.page = 1
    <3>1. CASE at = "admin"
      BY <1>1, <1>3, <3>1 DEF List, Sections, ListsOf, Driven, Lists
    <3>2. CASE at \in {"products", "analytics"}
      BY <3>2 DEF List, ListsOf, Driven, Lists, AllPages, Paged
    <3>3. QED BY <3>1, <3>2
  <2>4. asked' \in Nat
    BY <2>2 DEF DashboardTypeOK
  <2>5. List \in Paged => Turns(List)
    BY <1>1, <2>3 DEF Turns
  <2>6. List # "passports" /\ List # "activity"
    BY <2>3 DEF Driven
  <2>7. busy' \in BOOLEAN
    BY <1>1, <2>1
  <2> DEFINE m == List
  <2> HIDE DEF m
  <2>8. AsksFor(List)
    BY <1>1, <2>2, <2>3, <2>4, <2>5, <2>6, <2>7 DEF AsksFor
  <2>9. QED BY <2>3, <2>8
<1>4. QED BY <1>2, <1>3

Controls == Type \/ Debounced \/ ChooseFilter \/ ClearFilters \/ ResetFilters \/ GoToPage
            \/ ChooseDays \/ Retry \/ ShowOlder \/ OpenSection \/ Submit \/ Inspect

LEMMA ControlsAsk ==
    ASSUME DashboardTypeOK, OwnLists, Controls
    PROVE  KeepsLoads \/ \E l \in Lists : AsksFor(l)
<1>0. /\ want \in Queries /\ want.row = 0 /\ search \in BOOLEAN /\ timer \in BOOLEAN
      /\ busy \in BOOLEAN /\ section \in Sections /\ asked \in Nat
      /\ shown \in [Lists -> Screens \cup {Nothing}]
      /\ at \in AllPages \cup {"none"}
      /\ timer => at \in {"products", "admin"}
      /\ want.term => at \in {"products", "admin"}
  BY ListsKnown DEF DashboardTypeOK, OwnLists
<1>1. CASE Type
  <2>1. Searching /\ search' = ~search /\ timer' = (at = "products" \/ search' # want.term)
        /\ UNCHANGED <<controls, want, loads, asked, errors, busy, excuses>>
    BY <1>1 DEF Type
  <2>2. at \in {"products", "admin"}
    BY <2>1 DEF Searching, On
  <2>3. search' \in BOOLEAN /\ timer' \in BOOLEAN
    BY <2>1
  <2>4. KeepsLoads
    BY <2>1, <2>2, <2>3 DEF KeepsLoads, Untouched, data, controls
  <2>5. QED BY <2>4
<1>2. CASE Debounced
  <2> DEFINE w == [want EXCEPT !.term = search, !.page = 1]
  <2>1. /\ w \in Queries /\ w.row = 0 /\ w.page = 1
    BY <1>0, FirstPage
  <2>2. Want(w) /\ timer' = FALSE /\ UNCHANGED <<controls, search>>
        /\ at \in {"products", "admin"}
    BY <1>0, <1>2 DEF Debounced
  <2> HIDE DEF w
  <2>3. UNCHANGED controls /\ search' \in BOOLEAN /\ timer' \in BOOLEAN
    BY <1>0, <2>2
  <2>4. QED BY <2>1, <2>2, <2>3, WantStep
<1>3. CASE ChooseFilter
  <2> DEFINE w == [want EXCEPT !.filter = ~@, !.page = 1]
  <2>1. /\ w \in Queries /\ w.row = 0 /\ w.page = 1
    BY <1>0, FirstPage
  <2>2. Want(w) /\ UNCHANGED <<controls, search, timer>> /\ at \in {"products", "admin"}
    BY <1>3 DEF ChooseFilter, Searching, On
  <2> HIDE DEF w
  <2>3. UNCHANGED controls /\ search' \in BOOLEAN /\ timer' \in BOOLEAN
    BY <1>0, <2>2
  <2>4. QED BY <2>1, <2>2, <2>3, WantStep
<1>4. CASE ClearFilters
  <2> DEFINE w == [want EXCEPT !.filter = FALSE, !.page = 1]
  <2>1. /\ w \in Queries /\ w.row = 0 /\ w.page = 1
    BY <1>0, FirstPage
  <2>2. Want(w) /\ search' = FALSE /\ timer' = (timer \/ search) /\ UNCHANGED controls
        /\ at = "products"
    BY <1>4 DEF ClearFilters, On
  <2> HIDE DEF w
  <2>3. UNCHANGED controls /\ search' \in BOOLEAN /\ timer' \in BOOLEAN
    BY <1>0, <2>2
  <2>4. QED BY <2>1, <2>2, <2>3, WantStep
<1>5. CASE ResetFilters
  <2>1. Want(Plain) /\ search' = FALSE /\ timer' = FALSE /\ UNCHANGED controls
        /\ at = "admin"
    BY <1>5 DEF ResetFilters
  <2>2. UNCHANGED controls /\ search' \in BOOLEAN /\ timer' \in BOOLEAN
    BY <2>1
  <2>3. QED BY <2>1, <2>2, PlainQuery, WantStep
<1>6. CASE GoToPage
  <2>1. Searching /\ shown[List] # Nothing /\ UNCHANGED <<controls, search, timer>>
    BY <1>6 DEF GoToPage
  <2>2. PICK n \in 1..(want.page + 1) \cup 1..NumPages(shown[List].total) :
          /\ IF at = "products"
             THEN n <= NumPages(shown[List].total) /\ shown[List].total > PageSize
             ELSE /\ ~busy /\ n \in {want.page - 1, want.page + 1}
                  /\ n > want.page => want.page < NumPages(shown[List].total)
          /\ Ask(List, [want EXCEPT !.page = n])
          /\ want' = [want EXCEPT !.page = n]
          /\ busy' = (List = "audit")
          /\ excuses' = IF shown[List].query = want THEN excuses
                        ELSE excuses \cup {<<"early", List>>}
    BY <1>6 DEF GoToPage
  <2>3. /\ List \in Paged /\ List \in Lists /\ List \in Driven /\ List \in ListsOf(at) \ {"history"}
        /\ List = "audit" => section = "audit"
        /\ List # "passports" /\ List # "activity"
        /\ at \in {"products", "admin"}
    BY <2>1 DEF Searching, On, List, Paged, Lists, Driven, ListsOf, Sections, AllPages
  <2>4. shown[List].total \in Nat
    BY <1>0, <2>1, <2>3 DEF Screens
  <2>5. NumPages(shown[List].total) \in Nat
    BY <2>4, MoreRowsMorePages
  <2>6. want.page \in Nat \ {0}
    BY <1>0 DEF Queries
  <2>7. n \in Nat \ {0} /\ (n <= NumPages(shown[List].total) \/ n <= want.page)
    <3>1. n \in Nat \ {0}
      BY <2>2, <2>5, <2>6
    <3>2. CASE at = "products"
      BY <2>2, <3>1, <3>2
    <3>3. CASE at # "products"
      BY <2>2, <2>5, <2>6, <3>1, <3>3
    <3>4. QED BY <3>1, <3>2, <3>3
  <2>8. /\ want' \in Queries /\ want'.row = 0 /\ want'.page = n
        /\ want' = [want EXCEPT !.page = want'.page] /\ want'.term = want.term
    BY <1>0, <2>2, <2>7 DEF Queries
  <2>9. Turns(List)
    BY <2>1, <2>2, <2>7, <2>8 DEF Turns
  <2>10. /\ loads' = Append(loads, Load(List, want')) /\ errors' = errors \ {List}
         /\ Len(loads) < MaxLoads /\ asked' \in Nat
    BY <1>0, <2>2 DEF Ask, Bounded
  <2>11. Untouched /\ section' = section /\ search' \in BOOLEAN /\ timer' \in BOOLEAN
         /\ (timer' => at \in {"products", "admin"}) /\ busy' \in BOOLEAN
    BY <1>0, <2>1, <2>2 DEF controls, Untouched, data
  <2>12. AsksFor(List)
    BY <1>0, <2>3, <2>8, <2>9, <2>10, <2>11 DEF AsksFor
  <2>13. QED BY <2>3, <2>12
<1>7. CASE ChooseDays
  <2> DEFINE w == [want EXCEPT !.filter = ~@]
  <2>1. /\ w \in Queries /\ w.row = 0 /\ w.term = want.term
    BY <1>0 DEF Queries
  <2>2. Want(w) /\ UNCHANGED <<controls, search, timer>> /\ at = "analytics"
    BY <1>7 DEF ChooseDays, On
  <2> HIDE DEF w
  <2>3. UNCHANGED controls /\ search' \in BOOLEAN /\ timer' \in BOOLEAN
        /\ (timer' => at \in {"products", "admin"})
    BY <1>0, <2>2
  <2>4. w.term => at \in {"products", "admin"}
    BY <1>0, <2>1
  <2>5. QED BY <2>1, <2>2, <2>3, <2>4, WantStep
<1>8. CASE Retry
  <2> DEFINE q == IF at \in {"products", "analytics"} THEN want ELSE Plain
  <2>1. /\ at \in {"overview", "products", "passports", "analytics", "users"}
        /\ loads' = Append(loads, Load(at, q)) /\ errors' = errors \ {at}
        /\ Len(loads) < MaxLoads /\ asked' = asked + 1
        /\ busy' = (at = "overview") /\ UNCHANGED <<controls, search, timer, want, excuses>>
    BY <1>8 DEF Retry, Ask, Bounded
  <2>2. q \in Queries /\ (at \in Driven => q = want) /\ (at = "passports" => q = Plain)
    BY <1>0, <2>1, PlainQuery DEF Driven
  <2>3. /\ at \in Lists /\ at \in ListsOf(at) \ {"history"} /\ at # "audit" /\ at # "activity"
    BY <2>1 DEF Lists, AllPages, ListsOf
  <2> HIDE DEF q
  <2>4. AsksFor(at)
    <3>1. Untouched /\ UNCHANGED <<want, excuses, search, timer, section>>
      BY <2>1 DEF controls, Untouched, data
    <3>2. at \in Paged => Turns(at)
      BY <3>1 DEF Turns
    <3>3. asked' \in Nat /\ busy' \in BOOLEAN
      BY <1>0, <2>1
    <3>4. \E x \in Queries : /\ loads' = Append(loads, Load(at, x))
                             /\ at \in Driven => x = want'
                             /\ at = "passports" => x = Plain
                             /\ at = "activity" => x = [want EXCEPT !.row = cursor]
      BY <2>1, <2>2, <2>3, <3>1
    <3>5. QED BY <1>0, <2>1, <2>3, <3>1, <3>2, <3>3, <3>4 DEF AsksFor
  <2>5. QED BY <2>3, <2>4
<1>9. CASE ShowOlder
  <2> DEFINE q == [want EXCEPT !.row = cursor]
  <2>1. /\ at = "activity" /\ cursor # 0 /\ ~busy
        /\ loads' = Append(loads, Load("activity", q)) /\ errors' = errors \ {"activity"}
        /\ Len(loads) < MaxLoads /\ asked' = asked + 1
        /\ busy' = TRUE /\ UNCHANGED <<controls, search, timer, want, excuses>>
    BY <1>9 DEF ShowOlder, On, Ask, Bounded
  <2>2. q \in Queries
    BY <1>0 DEF Queries, DashboardTypeOK
  <2>3. "activity" \in Lists /\ "activity" \in ListsOf(at) \ {"history"}
    BY <2>1 DEF Lists, AllPages, ListsOf
  <2> HIDE DEF q
  <2>4. AsksFor("activity")
    <3>1. Untouched /\ UNCHANGED <<want, excuses, search, timer, section>>
      BY <2>1 DEF controls, Untouched, data
    <3>2. asked' \in Nat /\ busy' \in BOOLEAN /\ busy'
      BY <1>0, <2>1
    <3>3. \E x \in Queries : /\ loads' = Append(loads, Load("activity", x))
                             /\ x = [want EXCEPT !.row = cursor]
      BY <2>1, <2>2 DEF q
    <3>4. QED BY <1>0, <2>1, <2>3, <3>1, <3>2, <3>3 DEF AsksFor, Driven, Paged
  <2>5. QED BY <2>3, <2>4
<1>10. CASE OpenSection
  <2>1. PICK s \in Sections :
          /\ section' = s
          /\ IF s = "brands" \/ s = section THEN UNCHANGED <<loads, asked, errors, busy>>
             ELSE /\ Ask(s, IF s = "audit" THEN want ELSE Plain)
                  /\ busy' = (busy \/ s = "audit")
    BY <1>10 DEF OpenSection
  <2>2. /\ at = "admin" /\ Untouched /\ UNCHANGED <<search, timer, want, excuses>>
    BY <1>10 DEF OpenSection, On, data, Untouched
  <2>3. CASE s = "brands" \/ s = section
    <3>1. KeepsLoads
      BY <1>0, <2>1, <2>2, <2>3 DEF KeepsLoads
    <3>2. QED BY <3>1
  <2>4. CASE ~(s = "brands" \/ s = section)
    <3> DEFINE q == IF s = "audit" THEN want ELSE Plain
    <3>1. /\ loads' = Append(loads, Load(s, q)) /\ errors' = errors \ {s}
          /\ Len(loads) < MaxLoads /\ asked' = asked + 1 /\ busy' = (busy \/ s = "audit")
      BY <2>1, <2>4 DEF Ask, Bounded
    <3>2. s \in Lists /\ s \in ListsOf(at) \ {"history"} /\ s # "passports" /\ s # "activity"
          /\ (s \in Driven => s = "audit")
      BY <2>2 DEF Lists, ListsOf, Sections, Driven
    <3>3. q \in Queries /\ (s \in Driven => q = want')
      BY <1>0, <2>2, <3>2, PlainQuery
    <3> HIDE DEF q
    <3>4. \E x \in Queries : /\ loads' = Append(loads, Load(s, x))
                             /\ s \in Driven => x = want'
                             /\ s = "passports" => x = Plain
                             /\ s = "activity" => x = [want EXCEPT !.row = cursor]
      BY <3>1, <3>2, <3>3
    <3>5. IF s \in Paged THEN Turns(s) ELSE excuses' = excuses
      BY <2>2 DEF Turns
    <3>6. asked' \in Nat /\ busy' \in BOOLEAN
      BY <1>0, <3>1
    <3>7. AsksFor(s)
      BY <1>0, <2>1, <2>2, <3>1, <3>2, <3>4, <3>5, <3>6 DEF AsksFor
    <3>8. QED BY <3>2, <3>7
  <2>5. QED BY <2>3, <2>4
<1>11. CASE Submit
  <2>1. /\ at = "admin" /\ section \in {"brands", "oversight"}
        /\ loads' = Append(loads, Load(section, Plain)) /\ errors' = errors \ {section}
        /\ Len(loads) < MaxLoads /\ asked' = asked + 1
        /\ UNCHANGED <<controls, search, timer, want, busy, excuses>>
    BY <1>11 DEF Submit, On, Ask, Bounded
  <2>2. section \in Lists /\ section \in ListsOf(at) \ {"history"}
        /\ section \notin Driven /\ section \notin Paged
    BY <2>1 DEF Lists, ListsOf, Sections, Driven, Paged
  <2>3. AsksFor(section)
    <3>1. Untouched /\ UNCHANGED <<want, excuses, search, timer, section, busy>>
      BY <2>1 DEF controls, Untouched, data
    <3>2. asked' \in Nat
      BY <1>0, <2>1
    <3>3. \E x \in Queries : loads' = Append(loads, Load(section, x)) /\ x = Plain
      BY <2>1, PlainQuery
    <3>4. section # "passports" /\ section # "activity" /\ section # "audit"
      BY <2>1
    <3>5. QED BY <1>0, <2>1, <2>2, <3>1, <3>2, <3>3, <3>4 DEF AsksFor
  <2>4. QED BY <2>2, <2>3
<1>12. CASE Inspect
  <2>1. PICK r \in shown["brands"].ids : Ask("detail", [Plain EXCEPT !.row = r])
    BY <1>12 DEF Inspect
  <2>2. /\ at = "admin" /\ AdminBody = "rows"
        /\ UNCHANGED <<controls, search, timer, want, busy, excuses>>
    BY <1>12 DEF Inspect, On
  <2>3. r \in Nat
    <3>1. shown["brands"] \in Screens
      BY <1>0, <2>2 DEF AdminBody, Lists, Sections
    <3>2. QED BY <3>1 DEF Screens
  <2>4. AsksFor("detail")
    <3>1. Untouched /\ UNCHANGED <<want, excuses, search, timer, section, busy>>
      BY <2>2 DEF controls, Untouched, data
    <3>2. /\ loads' = Append(loads, Load("detail", [Plain EXCEPT !.row = r]))
          /\ errors' = errors \ {"detail"}
          /\ Len(loads) < MaxLoads /\ asked' \in Nat
      BY <1>0, <2>1 DEF Ask, Bounded
    <3>3. \E x \in Queries : loads' = Append(loads, Load("detail", x))
      BY <2>3, <3>2, PlainQuery
    <3>4. "detail" \in ListsOf(at) \ {"history"}
      BY <2>2 DEF ListsOf
    <3>5. QED BY <1>0, <2>2, <3>1, <3>2, <3>3, <3>4 DEF AsksFor, Driven, Paged
  <2>5. "detail" \in Lists
    BY DEF Lists
  <2>6. QED BY <2>4, <2>5
<1>13. QED
  BY <1>1, <1>2, <1>3, <1>4, <1>5, <1>6, <1>7, <1>8, <1>9, <1>10, <1>11, <1>12 DEF Controls

-----------------------------------------------------------------------------
(* What a step that is none of the network's does to a list of the page.    *)
MainLists == {"products", "passports", "users", "brands"}

Served == task # Nothing /\ task.step = "served"

Kept(l) ==
    /\ Quiet(loads, loads', l) /\ shown'[l] = shown[l]
    /\ l \in errors => l \in errors'
    /\ \A k \in Excusable : <<k, l>> \in excuses =>
          <<k, l>> \in excuses' \/ (l = "passports" /\ k \in {"early", "shrunk"})
    /\ l \in Driven \cap ListsOf(at) =>
          \/ want' = want /\ (l = "audit" => section' = section)
          \/ l = "audit" /\ section' # "audit" /\ (want' = want \/ want'.page = 1)
    /\ l = "history" => dialog' \in {0, dialog}

Sent(l, q) ==
    /\ AwaitedIn(loads', l) \subseteq {Load(l, q)} /\ UnderWayIn(loads', l)
    /\ q \in Queries
    /\ l \in Driven => q = want' \/ <<"closure", l>> \in excuses'
    /\ l = "history" => q.row = dialog'
    /\ l = "passports" => q = Plain \/ (task # Nothing /\ q = task.query)
    /\ l \in Paged => \/ q = want' /\ Turns(l)
                      \/ q # want' /\ want' = want /\ <<"closure", l>> \in excuses'
    /\ l # "history" => shown'[l] = shown[l]
    /\ excuses \subseteq excuses'

(* Every load is one of before, or has no answer yet.                       *)
NoNewAnswers ==
    \A k \in DOMAIN loads' :
       \/ loads'[k].reply = Nothing
       \/ \E j \in DOMAIN loads : loads'[k] = loads[j] \/ loads'[k] = MarkOld(loads[j])

(* One more write: it adds a row, or excuses the list it takes one from.    *)
Writes ==
    /\ writes' = writes + 1
    /\ UNCHANGED <<loads, shown, want>>
    /\ \/ rows \subseteq rows' /\ off' = off /\ excuses' = excuses
       \/ excuses' = excuses \cup {<<"shrunk", Main(at)>>} /\ (at = "admin" => rows' = rows /\ off' = off)

UsualStep ==
    /\ at' = at
    /\ \A l \in ListsOf(at) : Kept(l) \/ \E q \in Queries : Sent(l, q)
    /\ NoNewAnswers
    /\ UNCHANGED <<rows, off, writes>> \/ Writes
    /\ Served => Served' \/ /\ \A k \in DOMAIN loads' : loads'[k].list = "detail" => loads'[k].old
                            /\ \E q \in Queries : Sent(Main(at), q)
                            /\ at = "admin" => dialog' = 0
    /\ ~Served /\ ~Served' => since' = since
    /\ at = "admin" => dialog' \in {0, dialog}
    /\ at = "passports" => FilterPassports \/ (want' = want /\ excuses \subseteq excuses')
    /\ task' # Nothing => task'.query = IF task = Nothing THEN Reload ELSE task.query

LEMMA NothingSent ==
    ASSUME loads' = loads, shown' = shown, errors \subseteq errors',
           excuses \ {<<"early", "passports">>, <<"shrunk", "passports">>} \subseteq excuses',
           want' = want \/ Driven \cap ListsOf(at) = {}, section' = section,
           dialog' \in {0, dialog}
    PROVE  NoNewAnswers /\ \A l \in ListsOf(at) : Kept(l)
<1>1. NoNewAnswers
  BY DEF NoNewAnswers
<1>2. ASSUME NEW l \in ListsOf(at) PROVE Kept(l)
  <2>1. Quiet(loads, loads', l) /\ shown'[l] = shown[l] /\ (l \in errors => l \in errors')
    BY DEF Quiet
  <2>2. \A k \in Excusable : <<k, l>> \in excuses =>
          <<k, l>> \in excuses' \/ (l = "passports" /\ k \in {"early", "shrunk"})
    OBVIOUS
  <2>3. QED BY <1>2, <2>1, <2>2 DEF Kept
<1>3. QED BY <1>1, <1>2

LEMMA KeepsLoadsIsUsual ==
    ASSUME DashboardTypeOK, OwnLists, KeepsLoads
    PROVE  UsualStep /\ DashboardTypeOK' /\ OwnLists'
<1>1. DashboardTypeOK'
  <2>1. want' \in Queries /\ want'.row = 0 /\ section' \in Sections
    BY DEF KeepsLoads, DashboardTypeOK, Sections
  <2>2. QED BY <2>1 DEF KeepsLoads, Untouched, data, DashboardTypeOK
<1>2. OwnLists'
  <2>1. at \notin {"products", "admin"} => ~want'.term
    BY DEF KeepsLoads, OwnLists
  <2>2. QED BY <2>1 DEF KeepsLoads, Untouched, data, OwnLists
<1>3. UsualStep
  <2>1. NoNewAnswers
    BY DEF KeepsLoads, NoNewAnswers
  <2>2. ASSUME NEW l \in ListsOf(at) PROVE Kept(l)
    <3>1. /\ Quiet(loads, loads', l) /\ shown'[l] = shown[l] /\ dialog' = dialog
          /\ errors' = errors /\ excuses' = excuses
      BY DEF KeepsLoads, Untouched, Quiet
    <3>2. ASSUME l \in Driven
          PROVE  \/ want' = want /\ (l = "audit" => section' = section)
                 \/ l = "audit" /\ section' # "audit" /\ (want' = want \/ want'.page = 1)
      <4>1. CASE want' = want
        BY <4>1 DEF KeepsLoads
      <4>2. CASE want' # want
        <5>1. at = "admin" /\ section # "audit" /\ section' = section /\ want'.page = 1
          BY <4>2 DEF KeepsLoads
        <5>2. l = "audit"
          BY <2>2, <3>2, <5>1 DEF ListsOf, Sections, Driven
        <5>3. QED BY <5>1, <5>2
      <4>3. QED BY <4>1, <4>2
    <3>3. QED BY <3>1, <3>2 DEF Kept
  <2>3. at = "passports" => want' = want /\ excuses \subseteq excuses'
    BY DEF KeepsLoads
  <2>4. QED BY <2>1, <2>2, <2>3 DEF KeepsLoads, Untouched, data, UsualStep, Served
<1>4. QED BY <1>1, <1>2, <1>3

Appended(s, l, q, t) ==
    /\ t \in Seq(Loads) /\ Len(t) = Len(s) + 1
    /\ AwaitedIn(t, l) = {Load(l, q)} /\ UnderWayIn(t, l)
    /\ \A m : m # l => Quiet(s, t, m)
    /\ \A k \in DOMAIN t : t[k] = Load(l, q) \/ (k \in DOMAIN s /\ t[k] = s[k])

LEMMA LoadAppended ==
    ASSUME NEW s \in Seq(Loads), NEW l \in Lists, NEW q \in Queries
    PROVE  Appended(s, l, q, Append(s, Load(l, q)))
<1>1. /\ Load(l, q) \in Loads /\ Load(l, q).list = l /\ ~Load(l, q).old
  BY NewLoad
<1> DEFINE x == Load(l, q)
<1> HIDE DEF x
<1>2. x \in Loads /\ x.list = l /\ ~x.old
  BY <1>1 DEF x
<1>3. \A j \in DOMAIN s : s[j] = s[j] \/ s[j] = MarkOld(s[j])
  OBVIOUS
<1>4. Joined(s, s, x, Append(s, x))
  BY <1>2, <1>3, LoadSent
<1>5. QED BY <1>2, <1>4 DEF Joined, Appended, x

LEMMA AsksForIsUsual ==
    ASSUME DashboardTypeOK, OwnLists, NEW l \in Lists, AsksFor(l)
    PROVE  UsualStep /\ DashboardTypeOK' /\ OwnLists'
<1>1. PICK q \in Queries : /\ loads' = Append(loads, Load(l, q))
                           /\ l \in Driven => q = want'
                           /\ l = "passports" => q = Plain
  BY DEF AsksFor
<1>2. loads \in Seq(Loads) /\ Len(loads) \in Nat /\ MaxLoads \in Nat /\ Len(loads) < MaxLoads
  BY DashboardAssumption, LenProperties DEF DashboardTypeOK, AsksFor
<1>3. /\ loads' \in Seq(Loads) /\ Len(loads') = Len(loads) + 1
      /\ AwaitedIn(loads', l) = {Load(l, q)} /\ UnderWayIn(loads', l)
      /\ \A m : m # l => Quiet(loads, loads', m)
      /\ \A k \in DOMAIN loads' :
            \/ loads'[k] = Load(l, q)
            \/ k \in DOMAIN loads /\ loads'[k] = loads[k]
  <2>1. Appended(loads, l, q, loads')
    BY <1>1, <1>2, LoadAppended
  <2>2. QED BY <2>1 DEF Appended
<1>4. excuses' \subseteq excuses \cup {<<"early", l>>} /\ excuses \subseteq excuses'
  BY DEF AsksFor, Turns
<1>5. DashboardTypeOK'
  <2>1. excuses' \subseteq Excusable \X Lists
    BY <1>4 DEF DashboardTypeOK, Excusable
  <2>2. Len(loads') <= MaxLoads
    BY <1>2, <1>3
  <2>3. errors' \subseteq Lists
    BY DEF AsksFor, DashboardTypeOK
  <2>4. QED BY <1>3, <2>1, <2>2, <2>3 DEF AsksFor, Untouched, data, DashboardTypeOK, Excusable
<1>6. OwnLists'
  <2>1. \A i \in DOMAIN loads' : loads'[i].list \in ListsOf(at)
    <3>1. l \in ListsOf(at) /\ Load(l, q).list = l
      BY NewLoad DEF AsksFor
    <3>2. QED BY <1>3, <3>1 DEF OwnLists
  <2>2. QED BY <2>1 DEF AsksFor, Untouched, data, OwnLists
<1>7. UsualStep
  <2>1. NoNewAnswers
    <3>1. Load(l, q).reply = Nothing
      BY NewLoad
    <3>2. QED BY <1>3, <3>1 DEF NoNewAnswers
  <2>2. Sent(l, q)
    <3>1. l \in Paged => l \in Driven /\ Turns(l)
      BY DEF AsksFor, Paged, Driven
    <3>2. QED BY <1>1, <1>3, <1>4, <3>1 DEF Sent, AsksFor, Untouched
  <2>3. ASSUME NEW m \in ListsOf(at), m # l PROVE Kept(m)
    <3>1. /\ Quiet(loads, loads', m) /\ shown'[m] = shown[m] /\ (m \in errors => m \in errors')
          /\ dialog' = dialog
      BY <1>3, <2>3 DEF AsksFor, Untouched
    <3>2. ASSUME m \in Driven
          PROVE  \/ want' = want /\ (m = "audit" => section' = section)
                 \/ m = "audit" /\ section' # "audit" /\ (want' = want \/ want'.page = 1)
      <4>1. l \in ListsOf(at) /\ l # "history"
        BY DEF AsksFor
      <4>2. l \notin Driven
        BY <2>3, <3>2, <4>1 DEF ListsOf, Driven, Sections
      <4>3. want' = want /\ (section' = section \/ section' # "audit")
        BY <4>2 DEF AsksFor, Driven
      <4>4. QED BY <3>2, <4>3 DEF Driven
    <3>3. QED BY <1>4, <3>1, <3>2 DEF Kept
  <2>4. at = "passports" => want' = want /\ excuses \subseteq excuses'
    BY <1>4 DEF AsksFor, ListsOf, Driven
  <2>5. QED BY <2>1, <2>2, <2>3, <2>4 DEF AsksFor, Untouched, data, UsualStep, Served
<1>8. QED BY <1>5, <1>6, <1>7

LEMMA RefreshIsUsual ==
    ASSUME DashboardTypeOK, OwnLists, Refresh
    PROVE  UsualStep /\ DashboardTypeOK' /\ OwnLists'
<1> DEFINE q == IF section = "audit" THEN want ELSE Plain
           mid == Append(loads, Load("brands", Plain))
<1>1. /\ at = "admin" /\ section \in {"oversight", "audit"}
      /\ loads' = loads \o <<Load("brands", Plain), Load(section, q)>>
      /\ asked' = asked + 2 /\ Len(loads') <= MaxLoads
      /\ errors' = errors \ {"brands"} /\ busy' = (busy \/ section = "audit")
      /\ UNCHANGED <<controls, search, timer, want, excuses>>
  BY DEF Refresh, On, DashboardTypeOK, Sections
<1>2. /\ "brands" \in Lists /\ section \in Lists /\ "brands" \in ListsOf(at)
      /\ section \in ListsOf(at) /\ section # "brands" /\ section # "history"
      /\ q \in Queries /\ (section \in Driven => section = "audit" /\ q = want)
      /\ loads \in Seq(Loads) /\ want \in Queries
  BY <1>1, PlainQuery DEF Lists, ListsOf, Sections, Driven, DashboardTypeOK
<1> HIDE DEF q
<1>3. /\ mid \in Seq(Loads) /\ AwaitedIn(mid, "brands") = {Load("brands", Plain)}
      /\ UnderWayIn(mid, "brands")
      /\ \A m : m # "brands" => Quiet(loads, mid, m)
      /\ \A k \in DOMAIN mid : mid[k] = Load("brands", Plain) \/ (k \in DOMAIN loads /\ mid[k] = loads[k])
  <2>1. Appended(loads, "brands", Plain, mid)
    BY <1>2, PlainQuery, LoadAppended
  <2>2. QED
    <3> HIDE DEF mid
    <3> QED BY <2>1 DEF Appended
<1>4. loads' = Append(mid, Load(section, q))
  <2>1. Load("brands", Plain) \in Loads /\ Load(section, q) \in Loads
    BY <1>2, PlainQuery, NewLoad
  <2> DEFINE x == Load("brands", Plain)
             y == Load(section, q)
  <2> HIDE DEF x, y
  <2>2. x \in Loads /\ y \in Loads /\ loads' = loads \o <<x, y>>
    BY <1>1, <2>1 DEF x, y
  <2>3. loads \o <<x, y>> = Append(Append(loads, x), y)
    BY <1>2, <2>2
  <2>4. QED BY <2>2, <2>3 DEF x, y
<1> HIDE DEF mid
<1>5. /\ loads' \in Seq(Loads) /\ AwaitedIn(loads', section) = {Load(section, q)}
      /\ UnderWayIn(loads', section)
      /\ \A m : m # section => Quiet(mid, loads', m)
      /\ \A k \in DOMAIN loads' : loads'[k] = Load(section, q) \/ (k \in DOMAIN mid /\ loads'[k] = mid[k])
  <2>1. Appended(mid, section, q, loads')
    BY <1>2, <1>3, <1>4, LoadAppended
  <2>2. QED BY <2>1 DEF Appended
<1>6. /\ AwaitedIn(loads', "brands") \subseteq {Load("brands", Plain)}
      /\ UnderWayIn(loads', "brands")
      /\ \A m : m # section /\ m # "brands" => Quiet(loads, loads', m)
      /\ \A k \in DOMAIN loads' :
            \/ loads'[k] = Load(section, q) \/ loads'[k] = Load("brands", Plain)
            \/ k \in DOMAIN loads /\ loads'[k] = loads[k]
  BY <1>2, <1>3, <1>5 DEF Quiet
<1>7. DashboardTypeOK'
  <2>1. errors' \subseteq Lists /\ asked' \in Nat /\ busy' \in BOOLEAN
    BY <1>1 DEF DashboardTypeOK
  <2>2. QED BY <1>1, <1>5, <2>1 DEF controls, DashboardTypeOK
<1>8. OwnLists'
  <2>1. \A i \in DOMAIN loads' : loads'[i].list \in ListsOf(at)
    <3>1. Load(section, q).list = section /\ Load("brands", Plain).list = "brands"
      BY <1>2, PlainQuery, NewLoad
    <3>2. QED BY <1>2, <1>6, <3>1 DEF OwnLists
  <2>2. QED BY <1>1, <2>1 DEF controls, OwnLists
<1>9. UsualStep
  <2>1. NoNewAnswers
    <3>1. Load(section, q).reply = Nothing /\ Load("brands", Plain).reply = Nothing
      BY <1>2, PlainQuery, NewLoad
    <3>2. QED BY <1>6, <3>1 DEF NoNewAnswers
  <2>2. Sent("brands", Plain)
    BY <1>1, <1>6, PlainQuery DEF Sent, Driven, Paged, controls
  <2>3. Sent(section, q)
    <3>1. section \in Paged => q = want' /\ Turns(section)
      BY <1>1, <1>2 DEF Paged, Turns, Driven
    <3>2. QED BY <1>1, <1>2, <1>5, <3>1 DEF Sent, controls
  <2>4. ASSUME NEW m \in ListsOf(at), m # section, m # "brands" PROVE Kept(m)
    BY <1>1, <1>6, <2>4 DEF Kept, controls
  <2>5. QED BY <1>1, <1>2, <2>1, <2>2, <2>3, <2>4, PlainQuery DEF controls, UsualStep, Served
<1>10. QED BY <1>7, <1>8, <1>9

LEMMA RowsShown ==
    ASSUME DashboardTypeOK, at \in {"products", "passports", "users", "admin"}, Body = "rows"
    PROVE  RowsOn \subseteq Nat
<1> DEFINE l == Main(at)
<1>1. l \in Lists /\ shown[l] # Nothing
  <2>1. CASE at = "admin"
    BY <2>1 DEF Body, AdminBody, Main, Lists, Sections
  <2>2. CASE at = "passports"
    BY <2>2 DEF Body, PassportsBody, BodyOf, Main, Lists, AllPages
  <2>3. CASE at \in {"products", "users"}
    BY <2>3 DEF Body, ProductsBody, UsersBody, BodyOf, Main, Lists, AllPages
  <2>4. QED BY <2>1, <2>2, <2>3
<1>2. shown[l].ids \subseteq Nat
  BY <1>1 DEF DashboardTypeOK, Screens
<1>3. CASE at = "passports"
  BY <1>2, <1>3 DEF RowsOn, Slice, Filtered, Main
<1>4. CASE at # "passports"
  BY <1>2, <1>4 DEF RowsOn
<1>5. QED BY <1>3, <1>4

LEMMA FilterPassportsIsUsual ==
    ASSUME DashboardTypeOK, OwnLists, FilterPassports
    PROVE  UsualStep /\ DashboardTypeOK' /\ OwnLists'
<1>1. /\ at = "passports" /\ UNCHANGED <<controls, search, timer, loads, asked, errors, busy>>
      /\ want \in Queries /\ want.row = 0 /\ ~want.term
  BY DEF FilterPassports, On, DashboardTypeOK, OwnLists
<1>2. want' \in Queries /\ want'.row = 0 /\ ~want'.term
  <2>1. CASE want' = [want EXCEPT !.filter = ~@, !.page = 1]
    <3> DEFINE w == [want EXCEPT !.filter = ~@, !.page = 1]
    <3>1. w \in Queries /\ w.row = want.row
      BY <1>1, FirstPage
    <3>2. w.term = want.term
      BY <1>1 DEF Queries
    <3> HIDE DEF w
    <3>3. want' = w
      BY <2>1 DEF w
    <3>4. QED BY <1>1, <3>1, <3>2, <3>3
  <2>2. CASE \E n \in 1..NumPages(Cardinality(Filtered)) : want' = [want EXCEPT !.page = n]
    <3>1. PICK n \in 1..NumPages(Cardinality(Filtered)) : want' = [want EXCEPT !.page = n]
      BY <2>2
    <3>2. n \in Nat \ {0}
      OBVIOUS
    <3>3. QED BY <1>1, <3>1, <3>2 DEF Queries
  <2>3. QED BY <2>1, <2>2 DEF FilterPassports
<1>3. /\ excuses' \subseteq excuses \cup {<<"early", "passports">>}
      /\ excuses \ {<<"early", "passports">>, <<"shrunk", "passports">>} \subseteq excuses'
  BY DEF FilterPassports
<1>4. DashboardTypeOK'
  <2>1. excuses' \subseteq Excusable \X Lists
    BY <1>3 DEF DashboardTypeOK, Excusable, Lists, AllPages
  <2>2. QED BY <1>1, <1>2, <2>1 DEF controls, DashboardTypeOK, Excusable
<1>5. OwnLists'
  BY <1>1, <1>2 DEF controls, OwnLists
<1>6. UsualStep
  <2>1. Driven \cap ListsOf(at) = {}
    BY <1>1 DEF Driven, ListsOf
  <2>2. NoNewAnswers /\ \A l \in ListsOf(at) : Kept(l)
    BY <1>1, <1>3, <2>1, NothingSent DEF controls
  <2>3. QED BY <1>1, <2>2 DEF UsualStep, controls, Served
<1>7. QED BY <1>4, <1>5, <1>6

LEMMA OpenHistoryIsUsual ==
    ASSUME DashboardTypeOK, OwnLists, OpenHistory
    PROVE  UsualStep /\ DashboardTypeOK' /\ OwnLists'
<1>1. PICK r \in RowsOn : dialog' = r /\ Ask("history", [Plain EXCEPT !.row = r])
  BY DEF OpenHistory
<1>2. /\ at = "passports" /\ Body = "rows" /\ shown' = [shown EXCEPT !["history"] = Nothing]
      /\ UNCHANGED <<data, search, timer, want, section, busy, entries, cursor, task, excuses>>
  BY DEF OpenHistory, On, Body
<1>3. r \in Nat
  BY <1>2, RowsShown
<1> DEFINE q == [Plain EXCEPT !.row = r]
<1>4. /\ q \in Queries /\ q.row = r /\ "history" \in Lists /\ "history" \in ListsOf(at)
      /\ loads \in Seq(Loads)
  BY <1>2, <1>3, PlainQuery DEF Lists, ListsOf, DashboardTypeOK
<1>5. /\ loads' = Append(loads, Load("history", q)) /\ errors' = errors \ {"history"}
      /\ Len(loads) < MaxLoads /\ asked' = asked + 1
  BY <1>1 DEF Ask, Bounded
<1> HIDE DEF q
<1>6. Appended(loads, "history", q, loads')
  BY <1>4, <1>5, LoadAppended
<1>7. DashboardTypeOK'
  <2>1. Len(loads') <= MaxLoads
    <3>1. Len(loads') = Len(loads) + 1 /\ Len(loads) \in Nat /\ MaxLoads \in Nat
      BY <1>4, <1>6, LenProperties, DashboardAssumption DEF Appended
    <3>2. QED BY <1>5, <3>1
  <2>2. /\ shown' \in [Lists -> Screens \cup {Nothing}] /\ errors' \subseteq Lists
        /\ asked' \in Nat /\ dialog' \in Nat
    <3>1. shown' \in [Lists -> Screens \cup {Nothing}]
      BY <1>2 DEF DashboardTypeOK
    <3>2. errors' \subseteq Lists /\ asked' \in Nat
      BY <1>5 DEF DashboardTypeOK
    <3>3. QED BY <1>1, <1>3, <3>1, <3>2
  <2>3. loads' \in Seq(Loads)
    BY <1>6 DEF Appended
  <2>4. QED BY <1>2, <2>1, <2>2, <2>3 DEF data, DashboardTypeOK
<1>8. OwnLists'
  <2>1. \A i \in DOMAIN loads' : loads'[i].list \in ListsOf(at)
    <3>1. Load("history", q).list = "history"
      BY <1>4, NewLoad
    <3>2. QED BY <1>4, <1>6, <3>1 DEF OwnLists, Appended
  <2>2. \A l \in Lists : shown'[l] # Nothing => l \in ListsOf(at)
    BY <1>2, <1>4 DEF OwnLists, DashboardTypeOK
  <2>3. QED BY <1>2, <2>1, <2>2 DEF data, OwnLists
<1>9. UsualStep
  <2>1. NoNewAnswers
    <3>1. Load("history", q).reply = Nothing
      BY <1>4, NewLoad
    <3>2. QED BY <1>6, <3>1 DEF NoNewAnswers, Appended
  <2>2. Sent("history", q)
    BY <1>1, <1>2, <1>4, <1>6 DEF Sent, Driven, Paged, Appended
  <2>3. ASSUME NEW m \in ListsOf(at), m # "history" PROVE Kept(m)
    <3>1. shown'[m] = shown[m]
      BY <1>2, <2>3, ListsKnown DEF DashboardTypeOK
    <3>2. QED BY <1>2, <1>5, <1>6, <2>3, <3>1 DEF Kept, Appended, Driven, ListsOf
  <2>4. QED BY <1>2, <1>4, <2>1, <2>2, <2>3 DEF data, UsualStep, Served
<1>10. QED BY <1>7, <1>8, <1>9

LEMMA CloseDialogIsUsual ==
    ASSUME DashboardTypeOK, OwnLists, CloseDialog
    PROVE  UsualStep /\ DashboardTypeOK' /\ OwnLists'
<1>1. /\ dialog' = 0
      /\ UNCHANGED <<data, search, timer, want, section, loads, asked, shown, errors, busy, entries,
                     cursor, task, excuses>>
  BY DEF CloseDialog
<1>2. DashboardTypeOK' /\ OwnLists'
  BY <1>1 DEF data, DashboardTypeOK, OwnLists
<1>3. UsualStep
  <2>1. NoNewAnswers /\ \A l \in ListsOf(at) : Kept(l)
    BY <1>1, NothingSent
  <2>2. QED BY <1>1, <2>1 DEF data, UsualStep, Served
<1>4. QED BY <1>2, <1>3

LEMMA ChooseRangeIsUsual ==
    ASSUME DashboardTypeOK, OwnLists, ChooseRange
    PROVE  /\ UsualStep /\ DashboardTypeOK' /\ OwnLists'
           /\ OneLeft(loads')
           /\ \A k \in DOMAIN loads' :
                 loads'[k] = Load("activity", want') \/ (k \in DOMAIN loads /\ loads'[k] = MarkOld(loads[k]))
<1> DEFINE m == [j \in DOMAIN loads |-> [loads[j] EXCEPT !.old = TRUE]]
<1>1. /\ at = "activity" /\ want' = [want EXCEPT !.filter = ~@]
      /\ loads' = Append(m, Load("activity", want'))
      /\ Len(loads) < MaxLoads /\ asked' = asked + 1
      /\ errors' = {} /\ entries' = Nothing /\ cursor' = 0 /\ belated' = {}
      /\ UNCHANGED <<at, rows, off, writes, since, search, timer, section, shown, busy, dialog, task,
                     excuses>>
  BY DEF ChooseRange, On, Bounded
<1>2. /\ want' \in Queries /\ want'.row = 0 /\ want'.term = want.term
      /\ loads \in Seq(Loads) /\ Len(loads) \in Nat /\ MaxLoads \in Nat
      /\ DOMAIN loads = 1..Len(loads) /\ \A j \in DOMAIN loads : loads[j] \in Loads
      /\ "activity" \in Lists /\ ListsOf(at) = {"activity"}
  <2>1. want' \in Queries /\ want'.row = 0 /\ want'.term = want.term
    BY <1>1 DEF DashboardTypeOK, Queries
  <2>2. /\ loads \in Seq(Loads) /\ Len(loads) \in Nat /\ MaxLoads \in Nat
        /\ DOMAIN loads = 1..Len(loads) /\ \A j \in DOMAIN loads : loads[j] \in Loads
    BY LenProperties, ElementOfSeq, DashboardAssumption DEF DashboardTypeOK
  <2>3. "activity" \in Lists /\ ListsOf(at) = {"activity"}
    BY <1>1 DEF Lists, AllPages, ListsOf
  <2>4. QED BY <2>1, <2>2, <2>3
<1>3. \A j \in DOMAIN loads : m[j] = MarkOld(loads[j]) /\ m[j] \in Loads /\ m[j].old
  BY <1>2, MarkedLoad DEF MarkOld
<1>4. m \in Seq(Loads) /\ Len(m) = Len(loads)
  <2>1. m \in [1..Len(loads) -> Loads]
    BY <1>2, <1>3
  <2> HIDE DEF m
  <2>2. QED BY <1>2, <2>1, IsASeq, LenProperties
<1>5. /\ Load("activity", want') \in Loads /\ Load("activity", want').list = "activity"
      /\ ~Load("activity", want').old /\ Load("activity", want').reply = Nothing
  BY <1>2, NewLoad
<1> DEFINE x == Load("activity", want')
<1> HIDE DEF m
<1>6. Joined(loads, m, Load("activity", want'), loads')
  <2>1. loads' = Append(m, Load("activity", want'))
    BY <1>1
  <2>2. \A new \in Loads : ~new.old => Joined(loads, m, new, Append(m, new))
    BY <1>2, <1>3, <1>4, LoadSent
  <2>3. QED BY <1>5, <2>1, <2>2
<1>7. DashboardTypeOK'
  <2>1. Len(loads') <= MaxLoads /\ loads' \in Seq(Loads)
    BY <1>1, <1>2, <1>6 DEF Joined
  <2>2. /\ errors' \subseteq Lists /\ asked' \in Nat /\ cursor' \in Nat
        /\ entries' \in Seq(SUBSET Nat) \cup {Nothing}
    BY <1>1 DEF DashboardTypeOK
  <2>3. QED BY <1>1, <1>2, <2>1, <2>2 DEF data, DashboardTypeOK
<1>8. OwnLists'
  <2>1. \A i \in DOMAIN loads' : loads'[i].list \in ListsOf(at)
    <3>1. SUFFICES ASSUME NEW i \in DOMAIN loads' PROVE loads'[i].list = "activity"
      BY <1>2
    <3>2. \/ loads'[i] = Load("activity", want')
          \/ i \in DOMAIN loads /\ loads'[i] = MarkOld(loads[i])
      BY <1>3, <1>6 DEF Joined
    <3>3. QED BY <1>2, <1>5, <3>2, MarkedLoad DEF OwnLists
  <2>2. QED BY <1>1, <1>2, <2>1 DEF data, OwnLists
<1>9. UsualStep
  <2>1. NoNewAnswers
    BY <1>5, <1>6 DEF NoNewAnswers, Joined
  <2>2. AwaitedIn(loads', "activity") = {Load("activity", want')} /\ UnderWayIn(loads', "activity")
    BY <1>5, <1>6 DEF Joined
  <2>3. Sent("activity", want')
    BY <1>1, <1>2, <2>2 DEF Sent, Driven, Paged
  <2>4. QED BY <1>1, <1>2, <2>1, <2>3 DEF data, UsualStep, Served
<1>10. \A k \in DOMAIN loads' :
          \/ k = Len(loads) + 1 /\ loads'[k] = Load("activity", want')
          \/ k \in DOMAIN loads /\ loads'[k] = MarkOld(loads[k])
  BY <1>3, <1>6 DEF Joined
<1>11. OneLeft(loads')
  BY <1>2, <1>10, MarkedLoad DEF OneLeft
<1>12. QED BY <1>7, <1>8, <1>9, <1>10, <1>11

(* The steps of an operation that leave lists and rows alone.               *)
TaskMoves ==
    \/ Click \/ Invite \/ Confirm
    \/ ServeTask /\ task' = [task EXCEPT !.step = "failed"]
    \/ Finish /\ task.step = "failed"

LEMMA TaskMovesIsUsual ==
    ASSUME DashboardTypeOK, OwnLists, TaskMoves
    PROVE  /\ UsualStep /\ DashboardTypeOK' /\ OwnLists'
           /\ UNCHANGED <<taskVars, loads, excuses>>
           /\ task' # Nothing => task'.query = IF task = Nothing THEN Reload ELSE task.query
<1>0. /\ task # Nothing => task \in Operations
      /\ \A o \in Operations : o # Nothing
      /\ Reload \in Queries /\ (at = "users" => Reload = Plain)
  BY PlainQuery, NoValueAssumption DEF DashboardTypeOK, Reload
<1>1. /\ UNCHANGED <<taskVars, data, loads, asked, busy, dialog, excuses>>
      /\ errors \subseteq errors' /\ errors' \subseteq errors \cup {"brands"}
      /\ ~Served /\ ~Served'
      /\ task' \in Operations \cup {Nothing}
      /\ task' # Nothing => at \in {"products", "passports", "users", "admin"}
      /\ task' # Nothing => task'.query = IF task = Nothing THEN Reload ELSE task.query
  <2>1. CASE Click
    <3>1. PICK r \in RowsOn : task' = [step |-> "confirm", row |-> r, query |-> Reload]
      BY <2>1 DEF Click
    <3>2. task = Nothing /\ at \in {"products", "passports", "users", "admin"} /\ Body = "rows"
      BY <2>1 DEF Click
    <3>3. r \in Nat
      BY <3>2, RowsShown
    <3>4. /\ task' \in Operations /\ task'.step = "confirm" /\ task'.query = Reload
      BY <1>0, <3>1, <3>3 DEF Operations
    <3>5. UNCHANGED <<taskVars, data, loads, asked, errors, busy, dialog, excuses>>
      BY <2>1 DEF Click
    <3>6. QED BY <1>0, <3>2, <3>4, <3>5 DEF Served
  <2>2. CASE Invite
    <3>1. task = Nothing /\ at = "users" /\ task' = [step |-> "sent", row |-> 0, query |-> Plain]
          /\ UNCHANGED <<taskVars, data, loads, asked, errors, busy, dialog, excuses>>
      BY <2>2 DEF Invite, On
    <3>2. task' \in Operations /\ task'.step = "sent" /\ task'.query = Plain
      BY <3>1, PlainQuery DEF Operations
    <3>3. QED BY <1>0, <3>1, <3>2 DEF Served
  <2>3. CASE Confirm
    <3>1. task # Nothing /\ task.step = "confirm" /\ task' \in {Nothing, [task EXCEPT !.step = "sent"]}
          /\ UNCHANGED <<taskVars, data, loads, asked, errors, busy, dialog, excuses>>
      BY <2>3 DEF Confirm, Stage
    <3>2. task' = Nothing \/ (task' \in Operations /\ task'.step = "sent" /\ task'.query = task.query)
      BY <1>0, <3>1 DEF Operations
    <3>3. QED BY <1>0, <3>1, <3>2 DEF Served, OwnLists
  <2>4. CASE ServeTask /\ task' = [task EXCEPT !.step = "failed"]
    <3>1. task # Nothing /\ task.step = "sent" /\ UNCHANGED <<taskVars, loads, asked, errors, busy, dialog>>
      BY <2>4 DEF ServeTask, Stage
    <3>2. task' \in Operations /\ task'.step = "failed" /\ task'.query = task.query
      BY <1>0, <2>4, <3>1 DEF Operations
    <3>3. UNCHANGED <<data, excuses>>
      <4>1. task' # [task EXCEPT !.step = "served"]
        <5>1. [task EXCEPT !.step = "served"].step = "served"
          BY <1>0, <3>1 DEF Operations
        <5>2. QED BY <3>2, <5>1
      <4>2. QED BY <2>4, <4>1 DEF ServeTask
    <3>4. QED BY <1>0, <3>1, <3>2, <3>3 DEF Served, OwnLists
  <2>5. CASE Finish /\ task.step = "failed"
    <3>1. /\ task' = Nothing /\ UNCHANGED <<taskVars, data, busy>>
          /\ errors' = (IF at = "admin" THEN errors \cup {"brands"} ELSE errors)
          /\ UNCHANGED <<loads, asked, dialog, excuses>>
      BY <2>5 DEF Finish
    <3>2. ~Served /\ ~Served'
      BY <2>5, <3>1 DEF Served
    <3>3. QED BY <3>1, <3>2
  <2>6. QED BY <2>1, <2>2, <2>3, <2>4, <2>5 DEF TaskMoves
<1>2. DashboardTypeOK'
  <2>1. errors' \subseteq Lists
    BY <1>1 DEF DashboardTypeOK, Lists, Sections
  <2>2. QED BY <1>1, <2>1 DEF taskVars, data, DashboardTypeOK
<1>3. OwnLists'
  BY <1>1 DEF taskVars, OwnLists
<1>4. UsualStep
  <2>1. NoNewAnswers /\ \A l \in ListsOf(at) : Kept(l)
    BY <1>1, NothingSent DEF taskVars
  <2>2. at' = at /\ want' = want
    BY <1>1 DEF taskVars
  <2>3. QED BY <1>1, <2>1, <2>2 DEF data, UsualStep
<1>5. QED BY <1>1, <1>2, <1>3, <1>4

(* The operation of the page is served, or a colleague writes.              *)
OneMoreWrite ==
    \/ ServeTask /\ task' = [task EXCEPT !.step = "served"]
    \/ Colleague

LEMMA OneMoreWriteIsUsual ==
    ASSUME DashboardTypeOK, OwnLists, OneMoreWrite
    PROVE  /\ UsualStep /\ Writes /\ DashboardTypeOK' /\ OwnLists'
           /\ UNCHANGED <<taskVars, loads, busy>>
           /\ task' # Nothing => task # Nothing /\ task'.query = task.query
           /\ at = "activity" => Add
<1>0. /\ task # Nothing => task \in Operations
      /\ \A o \in Operations : o # Nothing
      /\ at \in AllPages \cup {"none"} /\ writes \in Nat /\ FirstRows \in Nat /\ MaxWrites \in Nat
      /\ writes <= MaxWrites /\ since \in Nat /\ since <= writes
  BY NoValueAssumption, ListsKnown, DashboardAssumption DEF DashboardTypeOK
<1>1. /\ UNCHANGED <<taskVars, loads, asked, errors, busy, dialog>>
      /\ writes < MaxWrites /\ writes' = writes + 1
      /\ at # "none" /\ (at = "admin" => task # Nothing)
      /\ Add \/ (at # "activity" /\ \E r \in Nat : Withdraw(r))
      /\ task' \in Operations \cup {Nothing} /\ (task' # Nothing <=> task # Nothing)
      /\ task' # Nothing => task'.query = task.query
      /\ Served => Served'
      /\ since' = writes + 1 \/ since' = since
      /\ ~Served /\ ~Served' => since' = since
  <2>1. CASE ServeTask /\ task' = [task EXCEPT !.step = "served"]
    <3>1. task # Nothing /\ task.step = "sent" /\ UNCHANGED <<taskVars, loads, asked, errors, busy, dialog>>
      BY <2>1 DEF ServeTask, Stage
    <3>2. task' \in Operations /\ task'.step = "served" /\ task'.query = task.query
      BY <1>0, <2>1, <3>1 DEF Operations
    <3>3. /\ writes < MaxWrites /\ writes' = writes + 1 /\ since' = writes + 1
          /\ IF task.row = 0 THEN Add ELSE Withdraw(task.row)
      <4>1. task' # [task EXCEPT !.step = "failed"]
        <5>1. [task EXCEPT !.step = "failed"].step = "failed"
          BY <1>0, <3>1 DEF Operations
        <5>2. QED BY <3>2, <5>1
      <4>2. QED BY <2>1, <4>1 DEF ServeTask
    <3>4. at # "none" /\ at # "activity"
      BY <3>1 DEF OwnLists
    <3>5. Add \/ (at # "activity" /\ \E r \in Nat : Withdraw(r))
      <4>1. task.row \in Nat
        BY <1>0, <3>1 DEF Operations
      <4>2. QED BY <3>3, <3>4, <4>1
    <3>6. Served'
      BY <1>0, <3>2 DEF Served
    <3>7. ~Served
      BY <3>1 DEF Served
    <3>8. task' # Nothing
      BY <1>0, <3>2
    <3>9. QED BY <3>1, <3>2, <3>3, <3>4, <3>5, <3>6, <3>8
  <2>2. CASE Colleague
    <3>1. UNCHANGED <<taskVars, since, loads, asked, errors, busy, dialog, task>>
          /\ at \notin {"none", "admin"} /\ writes < MaxWrites /\ writes' = writes + 1
          /\ (Add \/ (at # "activity" /\ \E r \in rows : Withdraw(r)))
      BY <2>2 DEF Colleague
    <3>2. task \in Operations \cup {Nothing} /\ task' = task /\ since' = since
      BY <3>1 DEF DashboardTypeOK
    <3>3. Add \/ (at # "activity" /\ \E r \in Nat : Withdraw(r))
      BY <3>1, HitsFinite
    <3>4. QED BY <3>1, <3>2, <3>3 DEF Served
  <2>3. QED BY <2>1, <2>2 DEF OneMoreWrite
<1>2. Main(at) \in Lists
  BY <1>0, <1>1, ListsKnown
<1>3. /\ rows' \cup belated' \subseteq Stamps /\ off' \subseteq Nat
      /\ excuses' \subseteq Excusable \X Lists
      /\ Writes
  <2>1. /\ rows \cup belated \subseteq Stamps /\ off \subseteq Nat
        /\ excuses \subseteq Excusable \X Lists
    BY DEF DashboardTypeOK, Excusable
  <2>3. UNCHANGED <<loads, shown, want>>
    BY <1>1 DEF taskVars
  <2>4. CASE Add
    <3>1. FirstRows + writes + 1 \in Stamps
      BY <1>0, <1>1 DEF Stamps
    <3>2. PICK r \in Stamps : rows' = rows \cup {r} /\ belated' \in {belated, belated \cup {r}}
      BY <2>4, <3>1 DEF Add
    <3>3. UNCHANGED <<off, excuses>>
      BY <2>4 DEF Add
    <3>4. QED BY <1>1, <2>1, <2>3, <3>2, <3>3 DEF Writes
  <2>5. CASE \E r \in Nat : Withdraw(r)
    <3>1. PICK r \in Nat : Withdraw(r)
      BY <2>5
    <3>2. /\ rows' \subseteq rows /\ (at = "admin" => rows' = rows /\ off' = off)
          /\ excuses' = excuses \cup {<<"shrunk", Main(at)>>}
          /\ off' \in {off, off \cup {r}} /\ belated' = belated
      BY <3>1 DEF Withdraw
    <3>3. off' \subseteq Nat
      BY <2>1, <3>2
    <3>4. QED BY <1>1, <1>2, <2>1, <2>3, <3>2, <3>3 DEF Writes, Excusable
  <2>6. QED BY <1>1, <2>4, <2>5
<1>4. DashboardTypeOK'
  <2>1. writes' \in 0..MaxWrites /\ since' \in 0..writes'
    BY <1>0, <1>1
  <2>2. QED BY <1>1, <1>3, <2>1 DEF taskVars, DashboardTypeOK, Excusable
<1>5. OwnLists'
  BY <1>1 DEF taskVars, OwnLists
<1>6. UsualStep
  <2>1. excuses \subseteq excuses'
    BY <1>3 DEF Writes
  <2>2. NoNewAnswers /\ \A l \in ListsOf(at) : Kept(l)
    BY <1>1, <2>1, NothingSent DEF taskVars
  <2>3. at' = at /\ dialog' = dialog /\ want' = want
    BY <1>1 DEF taskVars
  <2>4. QED BY <1>1, <1>3, <2>1, <2>2, <2>3 DEF UsualStep
<1>7. QED BY <1>1, <1>3, <1>4, <1>5, <1>6

LEMMA FinishIsUsual ==
    ASSUME DashboardTypeOK, OwnLists, Finish, task.step # "failed"
    PROVE  /\ UsualStep /\ DashboardTypeOK' /\ OwnLists'
           /\ task' = Nothing
<1> DEFINE m == [j \in DOMAIN loads |-> [loads[j] EXCEPT !.old = @ \/ loads[j].list = "detail"]]
           l == Main(at)
           q == task.query
<1>1. /\ task # Nothing /\ task.step = "served"
      /\ loads' = Append(m, Load(l, q))
      /\ Len(loads) < MaxLoads /\ asked' = asked + 1
      /\ errors' = errors \ {l}
      /\ dialog' = IF at = "admin" THEN 0 ELSE dialog
      /\ excuses' = IF q = Reload THEN excuses ELSE excuses \cup {<<"closure", l>>}
      /\ task' = Nothing
      /\ UNCHANGED <<taskVars, data, busy>>
  BY DEF Finish, Stage, Bounded
<1>2. /\ loads \in Seq(Loads) /\ Len(loads) \in Nat /\ MaxLoads \in Nat
      /\ DOMAIN loads = 1..Len(loads) /\ \A j \in DOMAIN loads : loads[j] \in Loads
      /\ at \in {"products", "passports", "users", "admin"}
      /\ l \in Lists /\ l \in ListsOf(at) /\ l # "detail" /\ l # "history" /\ q \in Queries
  <2>1. /\ loads \in Seq(Loads) /\ Len(loads) \in Nat /\ MaxLoads \in Nat
        /\ DOMAIN loads = 1..Len(loads) /\ \A j \in DOMAIN loads : loads[j] \in Loads
    BY LenProperties, ElementOfSeq, DashboardAssumption DEF DashboardTypeOK
  <2>2. at \in {"products", "passports", "users", "admin"}
    BY <1>1 DEF OwnLists
  <2>3. l \in Lists /\ l \in ListsOf(at) /\ l # "detail" /\ l # "history"
    BY <2>2 DEF Main, Lists, Sections, AllPages, ListsOf
  <2>4. q \in Queries
    BY <1>1 DEF DashboardTypeOK, Operations
  <2>5. QED BY <2>1, <2>2, <2>3, <2>4
<1>3. \A j \in DOMAIN loads : /\ m[j] = loads[j] \/ m[j] = MarkOld(loads[j])
                              /\ m[j] \in Loads
                              /\ m[j].list = "detail" => m[j].old
  <2>1. SUFFICES ASSUME NEW j \in DOMAIN loads
                 PROVE  /\ m[j] = loads[j] \/ m[j] = MarkOld(loads[j])
                        /\ m[j] \in Loads
                        /\ m[j].list = "detail" => m[j].old
    OBVIOUS
  <2>2. loads[j] \in Loads /\ m[j] = [loads[j] EXCEPT !.old = @ \/ loads[j].list = "detail"]
    BY <1>2
  <2> HIDE DEF m
  <2>3. CASE loads[j].list = "detail"
    <3>1. m[j] = [loads[j] EXCEPT !.old = TRUE]
      BY <2>2, <2>3
    <3>2. m[j] = MarkOld(loads[j])
      BY <3>1 DEF MarkOld
    <3>3. QED BY <2>2, <3>2, MarkedLoad
  <2>4. CASE loads[j].list # "detail"
    <3>1. m[j] = [loads[j] EXCEPT !.old = loads[j].old]
      BY <2>2, <2>4 DEF Loads
    <3>2. m[j] = loads[j]
      BY <2>2, <3>1 DEF Loads
    <3>3. QED BY <2>2, <2>4, <3>2
  <2>5. QED BY <2>3, <2>4
<1>4. m \in Seq(Loads) /\ Len(m) = Len(loads)
  <2>1. m \in [1..Len(loads) -> Loads]
    BY <1>2, <1>3
  <2> HIDE DEF m
  <2>2. QED BY <1>2, <2>1, IsASeq, LenProperties
<1> HIDE DEF m, l, q
<1>5. /\ Load(l, q) \in Loads /\ Load(l, q).list = l
      /\ ~Load(l, q).old /\ Load(l, q).reply = Nothing
  BY <1>2, NewLoad
<1>6. Joined(loads, m, Load(l, q), loads')
  <2>1. \A new \in Loads : ~new.old => Joined(loads, m, new, Append(m, new))
    BY <1>2, <1>3, <1>4, LoadSent
  <2>2. QED BY <1>1, <1>5, <2>1
<1>7. DashboardTypeOK'
  <2>1. Len(loads') <= MaxLoads /\ loads' \in Seq(Loads)
    BY <1>1, <1>2, <1>6 DEF Joined
  <2>2. /\ errors' \subseteq Lists /\ asked' \in Nat /\ dialog' \in Nat
        /\ excuses' \subseteq Excusable \X Lists
    BY <1>1, <1>2 DEF DashboardTypeOK, Excusable
  <2>3. QED BY <1>1, <2>1, <2>2 DEF taskVars, data, DashboardTypeOK, Excusable
<1>8. OwnLists'
  <2>1. \A i \in DOMAIN loads' : loads'[i].list \in ListsOf(at)
    <3>1. SUFFICES ASSUME NEW i \in DOMAIN loads' PROVE loads'[i].list \in ListsOf(at)
      OBVIOUS
    <3>2. \/ loads'[i] = Load(l, q)
          \/ i \in DOMAIN loads /\ loads'[i] = loads[i]
          \/ i \in DOMAIN loads /\ loads'[i] = MarkOld(loads[i])
      BY <1>6 DEF Joined
    <3>3. QED BY <1>2, <1>5, <3>2, MarkedLoad DEF OwnLists
  <2>2. QED BY <1>1, <2>1 DEF taskVars, OwnLists
<1>9. /\ AwaitedIn(loads', l) = {Load(l, q)} /\ UnderWayIn(loads', l)
      /\ \A k : k # l => Quiet(loads, loads', k)
  BY <1>5, <1>6 DEF Joined
<1>10. Sent(l, q)
  <2>1. ASSUME l \in Driven
        PROVE  \/ q = want' /\ Turns(l)
               \/ q # want' /\ want' = want /\ <<"closure", l>> \in excuses'
    <3>1. at = "products"
      BY <1>2, <2>1 DEF l, Main, Driven
    <3>2. Reload = want /\ want' = want
      BY <1>1, <3>1 DEF Reload, taskVars
    <3>3. QED BY <1>1, <3>2 DEF Turns
  <2>2. l \in Paged => l \in Driven
    BY DEF Paged, Driven
  <2>3. shown' = shown /\ excuses \subseteq excuses'
    BY <1>1 DEF taskVars
  <2>4. QED BY <1>1, <1>2, <1>9, <2>1, <2>2, <2>3 DEF Sent, q
<1>11. UsualStep
  <2>1. NoNewAnswers
    BY <1>5, <1>6 DEF NoNewAnswers, Joined
  <2>2. ASSUME NEW k \in ListsOf(at), k # l PROVE Kept(k)
    <3>1. k \notin Driven \/ k = "audit"
      BY <1>2, <2>2 DEF ListsOf, Driven, Main, Sections, l
    <3>2. want' = want /\ section' = section /\ shown' = shown
      BY <1>1 DEF taskVars
    <3>3. k = "history" => dialog' \in {0, dialog}
      BY <1>1
    <3>4. QED BY <1>1, <1>9, <2>2, <3>2, <3>3 DEF Kept
  <2>3. \A k \in DOMAIN loads' : loads'[k].list = "detail" => loads'[k].old
    <3>1. SUFFICES ASSUME NEW k \in DOMAIN loads', loads'[k].list = "detail" PROVE loads'[k].old
      OBVIOUS
    <3>2. \/ loads'[k] = Load(l, q)
          \/ k \in DOMAIN loads /\ loads'[k] = m[k]
      BY <1>6 DEF Joined
    <3>3. QED BY <1>2, <1>3, <1>5, <3>1, <3>2
  <2>4. Served => /\ \A k \in DOMAIN loads' : loads'[k].list = "detail" => loads'[k].old
                  /\ \E p \in Queries : Sent(Main(at), p)
                  /\ at = "admin" => dialog' = 0
    BY <1>1, <1>2, <1>10, <2>3 DEF l
  <2>5. at' = at /\ UNCHANGED <<rows, off, writes, since>> /\ (at = "admin" => dialog' \in {0, dialog})
    BY <1>1 DEF taskVars, data
  <2>6. want' = want /\ excuses \subseteq excuses' /\ task' = Nothing
    BY <1>1 DEF taskVars
  <2>7. QED BY <1>2, <1>10, <2>1, <2>2, <2>4, <2>5, <2>6 DEF UsualStep
<1>12. QED BY <1>1, <1>7, <1>8, <1>11

UserStep ==
    \/ Controls \/ Refresh \/ FilterPassports \/ OpenHistory \/ CloseDialog \/ ChooseRange
    \/ Click \/ Invite \/ Confirm \/ ServeTask \/ Finish \/ Colleague

LEMMA UserStepsAreUsual ==
    ASSUME DashboardTypeOK, OwnLists, UserStep
    PROVE  UsualStep /\ DashboardTypeOK' /\ OwnLists'
<1>1. CASE Controls
  BY <1>1, ControlsAsk, KeepsLoadsIsUsual, AsksForIsUsual
<1>2. CASE Click \/ Invite \/ Confirm
  BY <1>2, TaskMovesIsUsual DEF TaskMoves
<1>3. CASE ServeTask
  <2>1. task' = [task EXCEPT !.step = "failed"] \/ task' = [task EXCEPT !.step = "served"]
    BY <1>3 DEF ServeTask
  <2>2. TaskMoves \/ OneMoreWrite
    BY <1>3, <2>1 DEF TaskMoves, OneMoreWrite
  <2>3. QED BY <2>2, TaskMovesIsUsual, OneMoreWriteIsUsual
<1>4. CASE Finish
  BY <1>4, TaskMovesIsUsual, FinishIsUsual DEF TaskMoves
<1>5. CASE Colleague
  BY <1>5, OneMoreWriteIsUsual DEF OneMoreWrite
<1>6. QED
  BY <1>1, <1>2, <1>3, <1>4, <1>5, RefreshIsUsual, FilterPassportsIsUsual, OpenHistoryIsUsual,
     CloseDialogIsUsual, ChooseRangeIsUsual DEF UserStep

-----------------------------------------------------------------------------
(* The steps of the network.                                                *)
AnswersWhole ==
    \A i \in DOMAIN loads :
       loads[i].list = "activity" /\ Got(loads[i]) =>
          /\ IsFiniteSet(loads[i].reply.ids)
          /\ loads[i].reply.total > PageSize => loads[i].reply.ids # {}

LEMMA ServeFacts ==
    ASSUME DashboardTypeOK, OwnLists, AnswersWhole, NEW i, Serve(i)
    PROVE  /\ i \in DOMAIN loads /\ loads[i] \in Loads /\ loads[i].reply = Nothing
           /\ \E r \in {AnswerTo(loads[i].list, loads[i].query), Failed} :
                 Answered(loads, i, r, loads')
           /\ DashboardTypeOK' /\ OwnLists' /\ AnswersWhole'
<1>1. /\ i \in DOMAIN loads /\ loads[i] \in Loads /\ loads[i].reply = Nothing
      /\ loads \in Seq(Loads)
  BY ElementOfSeq DEF Serve, DashboardTypeOK
<1>2. loads[i].list \in Lists /\ loads[i].query \in Queries
  BY <1>1 DEF Loads
<1> DEFINE a == AnswerTo(loads[i].list, loads[i].query)
<1>3. /\ a \in Replies /\ a \notin {Nothing, Failed}
      /\ loads[i].list = "activity" =>
            IsFiniteSet(a.ids) /\ (a.total > PageSize => a.ids # {})
  <2>1. a \in Replies
    BY <1>2, AnswerFacts
  <2>2. ASSUME loads[i].list = "activity"
        PROVE  IsFiniteSet(a.ids) /\ (a.total > PageSize => a.ids # {})
    <3> DEFINE S == Older(Hits(loads[i].query), loads[i].query.row)
    <3>1. a.ids = Slice(S, 1) /\ a.total = Cardinality(S)
      BY <1>2, <2>2, AnswerFacts
    <3>2. IsFiniteSet(S) /\ S \subseteq Nat
      <4>1. S \subseteq Hits(loads[i].query)
        BY DEF Older
      <4> HIDE DEF S
      <4>2. QED BY <4>1, HitsFinite, FS_Subset
    <3> HIDE DEF S, a
    <3>3. 1 \in Nat \ {0}
      OBVIOUS
    <3>4. Slice(S, 1) \subseteq S /\ Cardinality(S) \in Nat /\ (Cardinality(S) > 0 => Slice(S, 1) # {})
      BY <3>2, <3>3, SliceFacts
    <3>5. IsFiniteSet(Slice(S, 1))
      BY <3>2, <3>4, FS_Subset
    <3>6. Cardinality(S) > PageSize => Cardinality(S) > 0
      BY <3>4, DashboardAssumption
    <3>7. QED BY <3>1, <3>4, <3>5, <3>6
  <2>3. QED BY <2>1, <2>2, NoValueAssumption
<1>4. PICK r \in {a, Failed} : loads' = [loads EXCEPT ![i].reply = r]
  BY DEF Serve
<1> HIDE DEF a
<1>5. r \in Replies \cup {Failed}
  BY <1>3
<1>6. Answered(loads, i, r, loads')
  BY <1>1, <1>4, <1>5, LoadServed
<1>7. UNCHANGED <<data, search, timer, want, section, asked, shown, errors, busy, entries, cursor,
                  dialog, task, excuses>>
  BY DEF Serve
<1>8. DashboardTypeOK'
  BY <1>6, <1>7 DEF DashboardTypeOK, Answered, data
<1>9. OwnLists'
  <2>1. \A j \in DOMAIN loads' : loads'[j].list \in ListsOf(at)
    BY <1>1, <1>6 DEF OwnLists, Answered
  <2>2. QED BY <1>7, <2>1 DEF OwnLists, data
<1>10. AnswersWhole'
  <2>1. SUFFICES ASSUME NEW j \in DOMAIN loads', loads'[j].list = "activity", Got(loads'[j])
                 PROVE  /\ IsFiniteSet(loads'[j].reply.ids)
                        /\ loads'[j].reply.total > PageSize => loads'[j].reply.ids # {}
    BY DEF AnswersWhole
  <2>2. CASE j = i
    <3>1. loads'[j].reply = r /\ loads[i].list = "activity"
      BY <1>6, <2>1, <2>2 DEF Answered
    <3>2. r = a
      BY <2>1, <3>1 DEF Got
    <3>3. QED BY <1>3, <3>1, <3>2
  <2>3. CASE j # i
    BY <1>6, <2>1, <2>3 DEF Answered, AnswersWhole
  <2>4. QED BY <2>2, <2>3
<1>11. QED BY <1>1, <1>6, <1>8, <1>9, <1>10 DEF a

LEMMA ExcusesFacts ==
    ASSUME DashboardTypeOK, NEW i \in DOMAIN loads, NEW E, E = Excuses(i)
    PROVE  /\ E \subseteq excuses \cup {<<"overtaken", loads[i].list>>}
           /\ \A k \in Excusable, m \in Lists : m # loads[i].list /\ <<k, m>> \in excuses => <<k, m>> \in E
           /\ loads[i].old /\ loads[i].list \notin {"overview", "oversight"} =>
                 <<"overtaken", loads[i].list>> \in E
           /\ excuses \subseteq E \/ (~loads[i].old /\ Alone(loads, i) /\ Current(i))
           /\ ~loads[i].old => E \subseteq excuses
           /\ \A k \in {"early", "shrunk"} :
                 /\ <<k, loads[i].list>> \in excuses
                 /\ \/ loads[i].list = "passports" \/ Beyond(loads[i].query, loads[i].reply.total)
                    \/ loads[i].reply.asOf # writes
                 => <<k, loads[i].list>> \in E
<1> DEFINE l == loads[i]
           kept(e) == \/ e[2] # l.list
                      \/ /\ e[1] \in {"early", "shrunk"}
                         /\ \/ l.list = "passports" \/ Beyond(l.query, l.reply.total)
                            \/ l.reply.asOf # writes
<1>1. CASE l.old
  <2>1. E = WithExcuse("overtaken", l)
    BY <1>1 DEF Excuses
  <2> HIDE DEF l
  <2>2. /\ excuses \subseteq E /\ E \subseteq excuses \cup {<<"overtaken", l.list>>}
        /\ l.list \notin {"overview", "oversight"} => <<"overtaken", l.list>> \in E
    BY <2>1 DEF WithExcuse
  <2>3. QED BY <1>1, <2>2 DEF l
<1>2. CASE ~l.old /\ ~(Alone(loads, i) /\ Current(i))
  <2>1. E = excuses
    BY <1>2 DEF Excuses, Alone
  <2>2. QED BY <1>2, <2>1
<1>3. CASE ~l.old /\ Alone(loads, i) /\ Current(i)
  <2>1. E = {e \in excuses : kept(e)}
    BY <1>3 DEF Excuses, Alone
  <2>2. \A k, m : <<k, m>>[1] = k /\ <<k, m>>[2] = m
    OBVIOUS
  <2>3. \A k, m : kept(<<k, m>>) <=>
            \/ m # l.list
            \/ /\ k \in {"early", "shrunk"}
               /\ \/ l.list = "passports" \/ Beyond(l.query, l.reply.total)
                  \/ l.reply.asOf # writes
    BY <2>2
  <2> HIDE DEF kept
  <2>4. QED BY <1>3, <2>1, <2>3
<1>4. QED BY <1>1, <1>2, <1>3

Applies(i) == Arrive(i) \/ ArriveEntries(i) \/ Break(i)

LEMMA AppliesFacts ==
    ASSUME DashboardTypeOK, OwnLists, AnswersWhole, NEW i, Applies(i)
    PROVE  /\ i \in DOMAIN loads /\ loads[i] \in Loads
           /\ Overtook(loads, i, loads')
           /\ DashboardTypeOK' /\ OwnLists' /\ AnswersWhole'
<1>1. /\ i \in DOMAIN loads /\ loads[i] \in Loads /\ loads[i].reply # Nothing
      /\ loads \in Seq(Loads) /\ loads' = Remaining(i)
      /\ \A j \in DOMAIN loads : loads[j] \in Loads
  BY ElementOfSeq, NoValueAssumption DEF Applies, Arrive, ArriveEntries, Break, DashboardTypeOK
<1> DEFINE l == loads[i]
<1>2. /\ l.list \in Lists /\ l.query \in Queries /\ l.reply \in Replies \cup {Failed}
      /\ l.query.row \in Nat /\ l.list \in ListsOf(at)
      /\ l.reply \in Replies => l.reply.ids \subseteq Nat
  BY <1>1 DEF Loads, Queries, OwnLists, Replies
<1>3. Overtook(loads, i, loads')
  BY <1>1, LoadRemains, LoadApplied
<1>4. \A k \in DOMAIN loads' : \E j \in DOMAIN loads :
          loads'[k].list = loads[j].list /\ loads'[k].reply = loads[j].reply
  <2>1. SUFFICES ASSUME NEW k \in DOMAIN loads'
                 PROVE  \E j \in DOMAIN loads :
                           loads'[k].list = loads[j].list /\ loads'[k].reply = loads[j].reply
    OBVIOUS
  <2>2. PICK j \in DOMAIN loads : loads'[k] = loads[j] \/ loads'[k] = MarkOld(loads[j])
    BY <1>3 DEF Overtook
  <2>3. loads'[k].list = loads[j].list /\ loads'[k].reply = loads[j].reply
    BY <1>1, <2>2, MarkedLoad
  <2>4. QED BY <2>3
<1>5. AnswersWhole'
  BY <1>4 DEF AnswersWhole, Got
<1>6. excuses' \subseteq excuses \cup {<<"overtaken", l.list>>, <<"failed", l.list>>}
  <2>1. Excuses(i) \subseteq excuses \cup {<<"overtaken", l.list>>}
    BY <1>1, ExcusesFacts
  <2>2. CASE Arrive(i) \/ ArriveEntries(i)
    BY <2>1, <2>2 DEF Arrive, ArriveEntries
  <2>3. CASE Break(i)
    BY <2>3 DEF Break, WithExcuse
  <2>4. QED BY <2>2, <2>3 DEF Applies
<1>7. /\ UNCHANGED <<data, search, timer, want, section, asked, task>>
      /\ busy' = StillBusy(l)
  BY DEF Applies, Arrive, ArriveEntries, Break
<1>8. /\ shown' \in [Lists -> Screens \cup {Nothing}]
      /\ \A m \in Lists : shown'[m] # Nothing => m \in ListsOf(at)
      /\ errors' \subseteq Lists
      /\ entries' \in Seq(SUBSET Nat) \cup {Nothing}
      /\ entries' # Nothing => at = "activity"
      /\ cursor' \in Nat /\ (cursor' # 0 => entries' # Nothing)
      /\ dialog' \in Nat /\ (dialog' # 0 => at \in {"passports", "admin"})
  <2>0. /\ shown \in [Lists -> Screens \cup {Nothing}]
        /\ \A m \in Lists : shown[m] # Nothing => m \in ListsOf(at)
        /\ errors \subseteq Lists
        /\ entries \in Seq(SUBSET Nat) \cup {Nothing}
        /\ entries # Nothing => at = "activity"
        /\ cursor \in Nat /\ (cursor # 0 => entries # Nothing)
        /\ dialog \in Nat /\ (dialog # 0 => at \in {"passports", "admin"})
    BY DEF DashboardTypeOK, OwnLists
  <2> HIDE DEF l
  <2>1. CASE Arrive(i)
    <3>1. /\ l.reply \in Replies /\ l.list # "activity"
          /\ shown' = [shown EXCEPT ![l.list] = OnScreen(l.query, l.reply)]
          /\ dialog' = (IF l.list = "detail" THEN l.query.row ELSE dialog)
          /\ UNCHANGED <<errors, entries, cursor>>
      BY <1>2, <2>1 DEF Arrive, l
    <3>2. OnScreen(l.query, l.reply) \in Screens
      BY <1>2, <3>1 DEF OnScreen, Screens, Replies
    <3>3. shown' \in [Lists -> Screens \cup {Nothing}]
      BY <1>2, <2>0, <3>1, <3>2
    <3>4. \A m \in Lists : shown'[m] # Nothing => m \in ListsOf(at)
      BY <1>2, <2>0, <3>1
    <3>5. dialog' \in Nat /\ (dialog' # 0 => at \in {"passports", "admin"})
      <4>1. l.list = "detail" => at = "admin"
        <5>1. at \in AllPages \cup {"none"}
          BY ListsKnown DEF DashboardTypeOK
        <5>2. QED BY <1>2, <5>1 DEF ListsOf, AllPages
      <4>2. QED BY <1>2, <2>0, <3>1, <4>1
    <3>6. QED BY <2>0, <3>1, <3>3, <3>4, <3>5
  <2>2. CASE ArriveEntries(i)
    <3> DEFINE more == l.reply.total > PageSize
    <3>1. /\ l.reply \in Replies /\ l.list = "activity" /\ Got(l)
          /\ entries' = (IF l.query.row # 0 /\ entries # Nothing
                         THEN Append(entries, l.reply.ids) ELSE <<l.reply.ids>>)
          /\ cursor' = (IF more THEN CHOOSE r \in l.reply.ids : \A s \in l.reply.ids : r <= s ELSE 0)
          /\ UNCHANGED <<shown, errors, dialog>>
      BY <1>2, <2>2 DEF ArriveEntries, l, Got
    <3>2. IsFiniteSet(l.reply.ids) /\ (more => l.reply.ids # {})
      BY <1>1, <3>1 DEF AnswersWhole, l
    <3>3. entries' \in Seq(SUBSET Nat) /\ entries' # Nothing
      <4>1. l.reply.ids \in SUBSET Nat
        BY <1>2, <3>1
      <4>2. <<l.reply.ids>> \in Seq(SUBSET Nat)
        BY <4>1
      <4>3. entries # Nothing => entries \in Seq(SUBSET Nat)
        BY <2>0
      <4>4. entries # Nothing => Append(entries, l.reply.ids) \in Seq(SUBSET Nat)
        BY <4>1, <4>3, AppendProperties
      <4>5. entries' \in Seq(SUBSET Nat)
        BY <3>1, <4>2, <4>4
      <4>6. QED BY <4>5, NoValueAssumption
    <3>4. cursor' \in Nat
      <4>1. CASE more
        <5>1. \E r \in l.reply.ids : \A s \in l.reply.ids : r <= s
          BY <1>2, <3>1, <3>2, <4>1, LeastExists
        <5>2. cursor' = CHOOSE r \in l.reply.ids : \A s \in l.reply.ids : r <= s
          BY <3>1, <4>1
        <5>3. cursor' \in l.reply.ids
          BY <5>1, <5>2
        <5>4. QED BY <1>2, <3>1, <5>3
      <4>2. CASE ~more
        BY <3>1, <4>2
      <4>3. QED BY <4>1, <4>2
    <3>5. at = "activity"
      BY <1>2, <3>1 DEF ListsOf, Sections
    <3>6. QED BY <2>0, <3>1, <3>3, <3>4, <3>5
  <2>3. CASE Break(i)
    <3>1. errors' \subseteq errors \cup {l.list} /\ UNCHANGED <<shown, entries, cursor, dialog>>
      BY <2>3 DEF Break, l
    <3>2. QED BY <1>2, <2>0, <3>1
  <2>4. QED BY <2>1, <2>2, <2>3 DEF Applies
<1>9. DashboardTypeOK'
  <2>1. loads' \in Seq(Loads) /\ Len(loads') <= MaxLoads
    <3>1. loads' \in Seq(Loads) /\ Len(loads') < Len(loads)
      BY <1>3 DEF Overtook
    <3>2. Len(loads') \in Nat /\ Len(loads) \in Nat /\ MaxLoads \in Nat /\ Len(loads) <= MaxLoads
      BY <1>1, <3>1, LenProperties, DashboardAssumption DEF DashboardTypeOK
    <3>3. QED BY <3>1, <3>2
  <2>2. excuses' \subseteq Excusable \X Lists
    BY <1>2, <1>6 DEF DashboardTypeOK, Excusable
  <2>3. busy' \in BOOLEAN
    BY <1>7 DEF StillBusy, DashboardTypeOK
  <2> HIDE DEF l
  <2>4. QED BY <1>7, <1>8, <2>1, <2>2, <2>3 DEF DashboardTypeOK, data, Excusable
<1>10. OwnLists'
  <2>1. \A k \in DOMAIN loads' : loads'[k].list \in ListsOf(at)
    BY <1>4 DEF OwnLists
  <2> HIDE DEF l
  <2>2. QED BY <1>7, <1>8, <2>1 DEF OwnLists, data
<1>11. QED BY <1>1, <1>3, <1>5, <1>9, <1>10

-----------------------------------------------------------------------------
(* Opening and leaving a page.                                              *)
NewPage == (\E p \in Pages : Open(p)) \/ Leave

LEMMA NewPageFacts ==
    ASSUME DashboardTypeOK, NewPage
    PROVE  /\ \A k \in DOMAIN loads' : loads'[k] = Load(Main(at'), Plain)
           /\ \A k \in DOMAIN loads' : loads'[k].query = Plain /\ loads'[k].reply = Nothing
           /\ \A l : \A x \in AwaitedIn(loads', l) : x.query = Plain /\ x.reply = Nothing
           /\ \A j, k \in DOMAIN loads' : j = k
           /\ Reset(at') /\ at' \in Pages \cup {"none"}
           /\ DashboardTypeOK' /\ OwnLists' /\ AnswersWhole'
<1>1. PICK p \in Pages \cup {"none"} :
        /\ Reset(p) /\ at' = p
        /\ loads' = <<>> \/ (p \in Pages /\ loads' = <<Load(Main(p), Plain)>>)
  BY DEF NewPage, Open, Leave, Reset
<1>2. p \in Pages => p \in AllPages /\ Main(p) \in Lists /\ Main(p) \in ListsOf(p)
  BY ListsKnown
<1>3. p \in Pages => /\ Load(Main(p), Plain) \in Loads
                     /\ Load(Main(p), Plain).list = Main(p)
                     /\ Load(Main(p), Plain).query = Plain
                     /\ Load(Main(p), Plain).reply = Nothing
  BY <1>2, PlainQuery, NewLoad
<1>4. /\ loads' \in Seq(Loads) /\ Len(loads') <= MaxLoads
      /\ \A k \in DOMAIN loads' : p \in Pages /\ loads'[k] = Load(Main(p), Plain)
      /\ \A j, k \in DOMAIN loads' : j = k
  <2>1. MaxLoads \in Nat /\ MaxLoads >= 1
    BY DashboardAssumption
  <2>2. CASE loads' = <<>>
    <3>1. <<>> \in Seq(Loads) /\ Len(<<>>) = 0 /\ DOMAIN <<>> = {}
      OBVIOUS
    <3>2. QED BY <2>1, <2>2, <3>1
  <2>3. CASE p \in Pages /\ loads' = <<Load(Main(p), Plain)>>
    <3> DEFINE x == Load(Main(p), Plain)
    <3> HIDE DEF x
    <3>1. x \in Loads /\ loads' = <<x>>
      BY <1>3, <2>3 DEF x
    <3>2. loads' \in Seq(Loads) /\ Len(loads') = 1 /\ DOMAIN loads' = {1} /\ loads'[1] = x
      BY <3>1
    <3>3. QED BY <2>1, <2>3, <3>2 DEF x
  <2>4. QED BY <1>1, <2>2, <2>3
<1>5. DashboardTypeOK'
  <2>1. {1} \subseteq Nat /\ MaxWrites \in Nat
    BY DashboardAssumption
  <2>2. rows' \cup belated' \subseteq Stamps /\ off' \subseteq Nat
        /\ writes' \in 0..MaxWrites /\ since' \in 0..writes'
    <3>1. rows' \in (IF p = "activity" THEN SUBSET Stamps ELSE {1..FirstRows})
          /\ off' = {1} /\ writes' = 0 /\ since' = 0 /\ belated' = {}
      BY <1>1 DEF Reset
    <3>2. rows' \subseteq Stamps
      BY <3>1, StampsFinite
    <3>3. QED BY <2>1, <3>1, <3>2
  <2>3. at' \in Pages \cup {"none"} /\ section' \in Sections
    BY <1>1 DEF Reset, Sections
  <2>4. search' \in BOOLEAN /\ timer' \in BOOLEAN /\ busy' \in BOOLEAN
        /\ want' \in Queries /\ want'.row = 0
        /\ asked' \in Nat /\ shown' \in [Lists -> Screens \cup {Nothing}] /\ errors' \subseteq Lists
        /\ entries' \in Seq(SUBSET Nat) \cup {Nothing} /\ cursor' \in Nat /\ dialog' \in Nat
        /\ task' \in Operations \cup {Nothing} /\ excuses' = {}
    <3>1. want' = Plain
      BY <1>1 DEF Reset
    <3>2. want' \in Queries /\ want'.row = 0
      BY <3>1, PlainQuery
    <3>3. search' \in BOOLEAN /\ timer' \in BOOLEAN /\ busy' \in BOOLEAN
      BY <1>1 DEF Reset
    <3>4. QED BY <1>1, <3>2, <3>3 DEF Reset
  <2>5. QED BY <1>4, <2>2, <2>3, <2>4 DEF DashboardTypeOK
<1>6. OwnLists'
  <2>1. \A k \in DOMAIN loads' : loads'[k].list \in ListsOf(at')
    BY <1>1, <1>2, <1>3, <1>4
  <2>2. ~want'.term
    BY <1>1 DEF Reset, Plain
  <2>3. QED BY <1>1, <2>1, <2>2 DEF OwnLists, Reset
<1>7. AnswersWhole'
  BY <1>3, <1>4 DEF AnswersWhole, Got
<1>8. \A k \in DOMAIN loads' : loads'[k].query = Plain /\ loads'[k].reply = Nothing
  BY <1>3, <1>4
<1>9. \A l : \A x \in AwaitedIn(loads', l) : x.query = Plain /\ x.reply = Nothing
  BY <1>8 DEF AwaitedIn
<1>10. QED BY <1>1, <1>4, <1>5, <1>6, <1>7, <1>8, <1>9

LEMMA UsualKeepsAnswers ==
    ASSUME DashboardTypeOK, AnswersWhole, UsualStep
    PROVE  AnswersWhole'
<1>1. SUFFICES ASSUME NEW k \in DOMAIN loads', loads'[k].list = "activity", Got(loads'[k])
               PROVE  /\ IsFiniteSet(loads'[k].reply.ids)
                      /\ loads'[k].reply.total > PageSize => loads'[k].reply.ids # {}
  BY DEF AnswersWhole
<1>2. PICK j \in DOMAIN loads : loads'[k] = loads[j] \/ loads'[k] = MarkOld(loads[j])
  BY <1>1 DEF UsualStep, NoNewAnswers, Got
<1>3. loads[j] \in Loads
  BY ElementOfSeq DEF DashboardTypeOK
<1>4. loads'[k].list = loads[j].list /\ loads'[k].reply = loads[j].reply
  BY <1>2, <1>3, MarkedLoad
<1>5. QED BY <1>1, <1>4 DEF AnswersWhole, Got

(* What every other invariant rests on.                                     *)
Ground == DashboardTypeOK /\ OwnLists /\ AnswersWhole

LEMMA StepKinds ==
    ASSUME Ground, [DashboardNext]_dashboardVars
    PROVE  \/ NewPage \/ UserStep \/ (\E i : Serve(i)) \/ (\E i : Applies(i))
           \/ UNCHANGED dashboardVars
BY DEF DashboardNext, Network, NewPage, UserStep, Controls, Applies

LEMMA GroundKept ==
    ASSUME Ground, [DashboardNext]_dashboardVars
    PROVE  Ground'
<1>1. CASE NewPage
  BY <1>1, NewPageFacts DEF Ground
<1>2. CASE UserStep
  BY <1>2, UserStepsAreUsual, UsualKeepsAnswers DEF Ground
<1>3. CASE \E i : Serve(i)
  BY <1>3, ServeFacts DEF Ground
<1>4. CASE \E i : Applies(i)
  BY <1>4, AppliesFacts DEF Ground
<1>5. CASE UNCHANGED dashboardVars
  BY <1>5 DEF Ground, DashboardTypeOK, OwnLists, AnswersWhole, dashboardVars
<1>6. QED BY <1>1, <1>2, <1>3, <1>4, <1>5, StepKinds

LEMMA GroundInitially ==
    DashboardInit => Ground
<1>1. SUFFICES ASSUME DashboardInit PROVE Ground
  OBVIOUS
<1>2. loads = <<>> /\ <<>> \in Seq(Loads) /\ DOMAIN <<>> = {} /\ Len(<<>>) = 0
  BY <1>1 DEF DashboardInit
<1>3. DashboardTypeOK
  <2>1. want \in Queries /\ want.row = 0
    BY <1>1, PlainQuery DEF DashboardInit
  <2>2. rows \cup belated \subseteq Stamps /\ writes \in 0..MaxWrites /\ since \in 0..writes
        /\ Len(loads) <= MaxLoads
    BY <1>1, <1>2, DashboardAssumption DEF DashboardInit
  <2>3. QED BY <1>1, <1>2, <2>1, <2>2 DEF DashboardInit, DashboardTypeOK, Sections
<1>4. OwnLists
  <2>1. ~want.term
    BY <1>1 DEF DashboardInit, Plain
  <2>2. QED BY <1>1, <1>2, <2>1 DEF DashboardInit, OwnLists
<1>5. AnswersWhole
  BY <1>2 DEF AnswersWhole
<1>6. QED BY <1>3, <1>4, <1>5 DEF Ground

LEMMA GroundHolds == DashboardSpec => []Ground
<1>1. DashboardInit => Ground
  BY GroundInitially
<1>2. Ground /\ [DashboardNext]_dashboardVars => Ground'
  BY GroundKept
<1>3. QED BY <1>1, <1>2, PTL DEF DashboardSpec

(* Every variable of the dashboard keeps its type.                          *)
THEOREM DashboardTypeCorrect == DashboardSpec => []DashboardTypeOK
<1>1. Ground => DashboardTypeOK
  BY DEF Ground
<1>2. QED BY <1>1, GroundHolds, PTL

-----------------------------------------------------------------------------
(* A list that follows the controls waits for, or shows, what they ask for. *)
Elsewhere(l) == l = "audit" /\ section # "audit"

QueryRight(l) ==
    /\ \A x \in Awaited(l) : x.query = want \/ Elsewhere(l) \/ Has("closure", l)
    /\ ~UnderWayIn(loads, l) /\ Visible(l) =>
          shown[l].query = want \/ Excused(l) \/ Elsewhere(l)

QueriesRight == \A l \in Driven : QueryRight(l)

LEMMA NotThere ==
    ASSUME OwnLists', NEW l \in Lists, l \notin ListsOf(at')
    PROVE  AwaitedIn(loads', l) = {} /\ ~UnderWayIn(loads', l) /\ shown'[l] = Nothing
BY DEF OwnLists, AwaitedIn, UnderWayIn, IsLast

ExcusedIn(E, l) == <<"overtaken", l>> \in E \/ <<"failed", l>> \in E \/ <<"closure", l>> \in E

LEMMA Serious ==
    ASSUME NEW l
    PROVE  /\ DashboardTypeOK => (Excused(l) <=> ExcusedIn(excuses, l))
           /\ DashboardTypeOK' => (Excused(l)' <=> ExcusedIn(excuses', l))
<1>1. ASSUME NEW E \in SUBSET (Excusable \X Lists)
      PROVE  (\E e \in E : e[2] = l /\ e[1] \notin {"early", "shrunk"}) <=> ExcusedIn(E, l)
  <2>1. ASSUME NEW e \in E, e[2] = l, e[1] \notin {"early", "shrunk"} PROVE ExcusedIn(E, l)
    <3>1. e = <<e[1], e[2]>> /\ e[1] \in Excusable
      BY <1>1
    <3>2. QED BY <2>1, <3>1 DEF Excusable, ExcusedIn
  <2>2. ASSUME ExcusedIn(E, l) PROVE \E e \in E : e[2] = l /\ e[1] \notin {"early", "shrunk"}
    <3>1. PICK k \in {"overtaken", "failed", "closure"} : <<k, l>> \in E
      BY <2>2 DEF ExcusedIn
    <3>2. <<k, l>>[1] = k /\ <<k, l>>[2] = l
      OBVIOUS
    <3>3. QED BY <3>1, <3>2
  <2>3. QED BY <2>1, <2>2
<1>2. DashboardTypeOK => excuses \in SUBSET (Excusable \X Lists)
  BY DEF DashboardTypeOK, Excusable
<1>3. DashboardTypeOK' => excuses' \in SUBSET (Excusable \X Lists)
  BY DEF DashboardTypeOK, Excusable
<1>4. DashboardTypeOK => (Excused(l) <=> ExcusedIn(excuses, l))
  BY <1>1, <1>2 DEF Excused
<1>5. DashboardTypeOK' => (Excused(l)' <=> ExcusedIn(excuses', l))
  BY <1>1, <1>3 DEF Excused
<1>6. QED BY <1>4, <1>5

LEMMA KeptStaysExcused ==
    ASSUME NEW l, Kept(l), ExcusedIn(excuses, l)
    PROVE  ExcusedIn(excuses', l)
BY DEF Kept, ExcusedIn, Excusable

LEMMA QueryKept ==
    ASSUME DashboardTypeOK, DashboardTypeOK', NEW l \in Driven \cap ListsOf(at), QueryRight(l), Kept(l)
    PROVE  QueryRight(l)'
<1>1. \A x \in AwaitedIn(loads', l) : x.query = want' \/ Elsewhere(l)' \/ Has("closure", l)'
  <2>1. SUFFICES ASSUME NEW x \in AwaitedIn(loads', l)
                 PROVE  x.query = want' \/ Elsewhere(l)' \/ Has("closure", l)'
    OBVIOUS
  <2>2. x.query = want \/ Elsewhere(l) \/ Has("closure", l)
    BY <2>1 DEF Kept, Quiet, QueryRight, Awaited
  <2>3. Has("closure", l) => Has("closure", l)'
    BY DEF Kept, Has, Excusable
  <2>4. QED BY <2>2, <2>3 DEF Kept, Elsewhere
<1>2. ASSUME ~UnderWayIn(loads', l), Visible(l)'
      PROVE  shown'[l].query = want' \/ Excused(l)' \/ Elsewhere(l)'
  <2>1. ~UnderWayIn(loads, l) /\ Visible(l) /\ shown'[l] = shown[l]
    BY <1>2 DEF Kept, Quiet, Visible
  <2>2. shown[l].query = want \/ Excused(l) \/ Elsewhere(l)
    BY <2>1 DEF QueryRight
  <2>3. Excused(l) => Excused(l)'
    BY Serious, KeptStaysExcused
  <2>4. QED BY <2>1, <2>2, <2>3 DEF Kept, Elsewhere
<1>3. QED BY <1>1, <1>2 DEF QueryRight, Awaited

LEMMA ArrivalKeeps ==
    ASSUME DashboardTypeOK, NEW i \in DOMAIN loads, Applies(i), Overtook(loads, i, loads'),
           NEW l \in Lists, loads[i].list # l
    PROVE  /\ (loads[i].list # "detail" => Kept(l))
           /\ Quiet(loads, loads', l) /\ shown'[l] = shown[l] /\ (l \in errors => l \in errors')
           /\ \A k \in Excusable : <<k, l>> \in excuses => <<k, l>> \in excuses'
<1>1. UNCHANGED <<at, want, section>> /\ (loads[i].list # "detail" => dialog' = dialog)
  BY DEF Applies, Arrive, ArriveEntries, Break, data
<1>2. excuses' = Excuses(i) \/ excuses \subseteq excuses'
  BY DEF Applies, Arrive, ArriveEntries, Break, WithExcuse
<1>3. \A k \in Excusable : <<k, l>> \in excuses => <<k, l>> \in excuses'
  BY <1>2, ExcusesFacts
<1>4. shown'[l] = shown[l] /\ (l \in errors => l \in errors')
  BY DEF Applies, Arrive, ArriveEntries, Break, DashboardTypeOK
<1>5. Quiet(loads, loads', l)
  BY DEF Overtook
<1>6. QED BY <1>1, <1>3, <1>4, <1>5 DEF Kept

LEMMA BrokenIsExcused ==
    ASSUME NEW i, Break(i), loads[i].list \notin {"overview", "oversight"}
    PROVE  ExcusedIn(excuses', loads[i].list) /\ excuses \subseteq excuses'
<1>1. \/ excuses' = excuses \cup {<<"overtaken", loads[i].list>>}
      \/ excuses' = excuses \cup {<<"failed", loads[i].list>>}
  BY DEF Break, WithExcuse
<1>2. QED BY <1>1 DEF ExcusedIn

LEMMA QueriesRightKept ==
    ASSUME Ground, QueriesRight, [DashboardNext]_dashboardVars
    PROVE  QueriesRight'
<1>0. Ground' /\ DashboardTypeOK /\ DashboardTypeOK' /\ OwnLists /\ OwnLists' /\ AnswersWhole
  BY GroundKept DEF Ground
<1> SUFFICES ASSUME NEW l \in Driven PROVE QueryRight(l)'
  BY DEF QueriesRight
<1>a. l \in Lists /\ l \notin {"overview", "oversight", "detail", "history"}
  BY DEF Driven, Lists, AllPages, Sections
<1>b. QueryRight(l)
  BY DEF QueriesRight
<1>c. /\ Excused(l) <=> ExcusedIn(excuses, l)
      /\ Excused(l)' <=> ExcusedIn(excuses', l)
  BY <1>0, Serious
<1>1. CASE l \notin ListsOf(at')
  BY <1>0, <1>1, <1>a, NotThere DEF QueryRight, Awaited, Visible
<1>2. CASE l \in ListsOf(at') /\ NewPage
  <2>1. \A x \in AwaitedIn(loads', l) : x.query = want'
    BY <1>0, <1>2, NewPageFacts DEF Reset
  <2>2. shown'[l] = Nothing
    BY <1>0, <1>2, <1>a, NewPageFacts DEF Reset
  <2>3. QED BY <2>1, <2>2 DEF QueryRight, Awaited, Visible
<1>3. CASE l \in ListsOf(at') /\ UserStep
  <2>1. UsualStep /\ l \in ListsOf(at)
    BY <1>0, <1>3, UserStepsAreUsual DEF UsualStep
  <2>2. CASE Kept(l)
    BY <1>0, <1>b, <2>1, <2>2, QueryKept
  <2>3. CASE \E q \in Queries : Sent(l, q)
    <3>1. PICK q \in Queries : Sent(l, q)
      BY <2>3
    <3>2. Load(l, q).query = q
      BY <1>a, NewLoad
    <3>3. \A x \in AwaitedIn(loads', l) : x.query = want' \/ Has("closure", l)'
      BY <3>1, <3>2 DEF Sent, Has
    <3>4. UnderWayIn(loads', l)
      BY <3>1 DEF Sent
    <3>5. QED BY <3>3, <3>4 DEF QueryRight, Awaited
  <2>4. QED BY <2>1, <2>2, <2>3 DEF UsualStep
<1>4. CASE l \in ListsOf(at') /\ \E i : Serve(i)
  <2>1. PICK i : Serve(i)
    BY <1>4
  <2>2. PICK r : Answered(loads, i, r, loads')
    BY <1>0, <2>1, ServeFacts
  <2>3. UNCHANGED <<want, section, shown, errors, excuses>>
    BY <2>1 DEF Serve
  <2>4. \A x \in AwaitedIn(loads', l) : \E y \in AwaitedIn(loads, l) : x.query = y.query
    BY <2>2 DEF Answered
  <2>5. \A x \in AwaitedIn(loads', l) : x.query = want' \/ Elsewhere(l)' \/ Has("closure", l)'
    BY <1>b, <2>3, <2>4 DEF QueryRight, Awaited, Elsewhere, Has
  <2>6. UnderWayIn(loads, l) <=> UnderWayIn(loads', l)
    BY <2>2 DEF Answered
  <2>7. QED BY <1>b, <2>3, <2>5, <2>6 DEF QueryRight, Awaited, Visible, Excused, Elsewhere
<1>5. CASE l \in ListsOf(at') /\ \E i : Applies(i)
  <2>1. PICK i : Applies(i)
    BY <1>5
  <2>2. i \in DOMAIN loads /\ Overtook(loads, i, loads') /\ loads[i] \in Loads
    BY <1>0, <2>1, AppliesFacts
  <2>3. UNCHANGED <<at, want, section>>
    BY <2>1 DEF Applies, Arrive, ArriveEntries, Break, data
  <2>4. CASE loads[i].list # l
    <3>1. CASE loads[i].list # "detail"
      BY <1>0, <1>5, <1>a, <1>b, <2>1, <2>2, <2>3, <2>4, <3>1, ArrivalKeeps, QueryKept
    <3>2. CASE loads[i].list = "detail"
      <4>1. Kept(l)
        BY <1>0, <1>a, <2>1, <2>2, <2>3, <2>4, ArrivalKeeps DEF Kept
      <4>2. QED BY <1>0, <1>5, <1>b, <2>3, <4>1, QueryKept
    <3>3. QED BY <3>1, <3>2
  <2>5. CASE loads[i].list = l
    <3>1. \A x \in AwaitedIn(loads', l) : x \in AwaitedIn(loads, l)
      BY <2>2 DEF Overtook
    <3>2. CASE Break(i)
      <4>1. Excused(l)' /\ excuses \subseteq excuses'
        BY <1>a, <1>c, <2>5, <3>2, BrokenIsExcused
      <4>2. QED BY <1>b, <2>3, <3>1, <4>1 DEF QueryRight, Awaited, Elsewhere, Has
    <3>3. CASE Arrive(i) \/ ArriveEntries(i)
      <4>1. l # "activity"
        BY DEF Driven
      <4>2. /\ shown' = [shown EXCEPT ![l] = OnScreen(loads[i].query, loads[i].reply)]
            /\ excuses' = Excuses(i)
        BY <2>5, <3>3, <4>1 DEF Arrive, ArriveEntries
      <4>3. shown'[l].query = loads[i].query
        BY <1>0, <1>a, <4>2 DEF OnScreen, DashboardTypeOK
      <4>4. \/ excuses \subseteq excuses'
            \/ ~loads[i].old /\ Alone(loads, i) /\ loads[i].query = want
        <5>1. Current(i) => loads[i].query = want
          BY <2>5, <1>a DEF Current, Driven
        <5>2. QED BY <1>0, <2>2, <4>2, <5>1, ExcusesFacts
      <4>5. \A x \in AwaitedIn(loads', l) : x.query = want' \/ Elsewhere(l)' \/ Has("closure", l)'
        <5>1. CASE excuses \subseteq excuses'
          BY <1>b, <2>3, <3>1, <5>1 DEF QueryRight, Awaited, Elsewhere, Has
        <5>2. CASE Alone(loads, i)
          <6>1. ~UnderWayIn(loads', l)
            BY <2>2, <2>5, <5>2 DEF Overtook
          <6>2. QED BY <6>1 DEF UnderWayIn, AwaitedIn, IsLast
        <5>3. QED BY <4>4, <5>1, <5>2
      <4>6. ASSUME ~UnderWayIn(loads', l)
            PROVE  shown'[l].query = want' \/ Excused(l)' \/ Elsewhere(l)'
        <5>1. CASE loads[i].old
          <6>1. <<"overtaken", l>> \in excuses'
            BY <1>0, <1>a, <2>2, <2>5, <4>2, <5>1, ExcusesFacts
          <6>2. QED BY <1>c, <6>1 DEF ExcusedIn
        <5>2. CASE ~loads[i].old
          <6>1. loads[i] \in AwaitedIn(loads, l)
            BY <2>2, <2>5, <4>6, <5>2 DEF Overtook
          <6>2. loads[i].query = want \/ Elsewhere(l) \/ Has("closure", l)
            BY <1>b, <6>1 DEF QueryRight, Awaited
          <6>3. Has("closure", l) => Excused(l)' \/ loads[i].query = want
            BY <1>c, <4>4 DEF Has, ExcusedIn
          <6>4. QED BY <2>3, <4>3, <6>2, <6>3 DEF Elsewhere
        <5>3. QED BY <5>1, <5>2
      <4>7. QED BY <4>5, <4>6 DEF QueryRight, Awaited
    <3>4. QED BY <2>1, <3>2, <3>3 DEF Applies
  <2>6. QED BY <2>4, <2>5
<1>6. CASE UNCHANGED dashboardVars
  BY <1>6, <1>b DEF QueryRight, Awaited, Elsewhere, Has, Visible, Excused, dashboardVars
<1>7. QED BY <1>0, <1>1, <1>2, <1>3, <1>4, <1>5, <1>6, StepKinds

-----------------------------------------------------------------------------
(* A list waits for, or shows, an answer not older than the page's own last *)
(* operation, once that has been followed by a load.                        *)
Recent(r, n) == r \in {Nothing, Failed} \/ r.asOf >= n

FreshRight(l) ==
    /\ \A x \in Awaited(l) : Recent(x.reply, since)
    /\ ~UnderWayIn(loads, l) /\ Visible(l) => shown[l].asOf >= since \/ Excused(l)

DetailRight ==
    /\ \A i \in DOMAIN loads : loads[i].list = "detail" => loads[i].old \/ Recent(loads[i].reply, since)
    /\ dialog # 0 /\ at = "admin" => shown["detail"].asOf >= since \/ Excused("detail")

AnswersFresh ==
    ~Served => DetailRight /\ \A l \in MainLists : FreshRight(l)

LEMMA FreshKept ==
    ASSUME DashboardTypeOK, DashboardTypeOK', NEW l, FreshRight(l), since' = since,
           Quiet(loads, loads', l), shown'[l] = shown[l], l \in errors => l \in errors',
           ExcusedIn(excuses, l) => ExcusedIn(excuses', l)
    PROVE  FreshRight(l)'
<1>1. \A x \in AwaitedIn(loads', l) : Recent(x.reply, since')
  BY DEF Quiet, FreshRight, Awaited, Recent
<1>2. ASSUME ~UnderWayIn(loads', l), Visible(l)'
      PROVE  shown'[l].asOf >= since' \/ Excused(l)'
  BY <1>2, Serious DEF Quiet, FreshRight, Visible
<1>3. QED BY <1>1, <1>2 DEF FreshRight, Awaited

LEMMA SentIsFresh ==
    ASSUME NEW l \in Lists, NEW q \in Queries, Sent(l, q)
    PROVE  FreshRight(l)'
<1>1. Load(l, q).reply = Nothing
  BY NewLoad
<1>2. QED BY <1>1 DEF Sent, FreshRight, Awaited, Recent

LEMMA UsualKeepsFresh ==
    ASSUME Ground, Ground', AnswersFresh, UsualStep, ~Served'
    PROVE  DetailRight' /\ \A l \in MainLists : FreshRight(l)'
<1>0. /\ DashboardTypeOK /\ DashboardTypeOK' /\ OwnLists' /\ at' = at
      /\ \A l \in MainLists : l \in Lists
      /\ \A j \in DOMAIN loads : loads[j] \in Loads
  BY ElementOfSeq DEF Ground, UsualStep, MainLists, Lists, AllPages, Sections, DashboardTypeOK
<1>1. CASE ~Served
  <2>1. since' = since /\ DetailRight /\ \A l \in MainLists : FreshRight(l)
    BY <1>1 DEF AnswersFresh, UsualStep
  <2>2. ASSUME NEW l \in MainLists PROVE FreshRight(l)'
    <3>1. CASE l \in ListsOf(at) /\ Kept(l)
      <4>1. ExcusedIn(excuses, l) => ExcusedIn(excuses', l)
        BY <3>1, KeptStaysExcused
      <4>2. QED BY <1>0, <2>1, <3>1, <4>1, FreshKept DEF Kept
    <3>2. CASE \E q \in Queries : Sent(l, q)
      BY <1>0, <3>2, SentIsFresh
    <3>3. CASE l \notin ListsOf(at)
      BY <1>0, <3>3, NotThere DEF FreshRight, Awaited, Visible
    <3>4. QED BY <3>1, <3>2, <3>3 DEF UsualStep
  <2>3. ASSUME NEW k \in DOMAIN loads', loads'[k].list = "detail", ~loads'[k].old
        PROVE  Recent(loads'[k].reply, since')
    <3>1. CASE loads'[k].reply = Nothing
      BY <3>1 DEF Recent
    <3>2. CASE \E j \in DOMAIN loads : loads'[k] = loads[j] \/ loads'[k] = MarkOld(loads[j])
      <4>1. PICK j \in DOMAIN loads : loads'[k] = loads[j] \/ loads'[k] = MarkOld(loads[j])
        BY <3>2
      <4>2. loads'[k] = loads[j]
        BY <1>0, <2>3, <4>1, MarkedLoad
      <4>3. QED BY <2>1, <2>3, <4>2 DEF DetailRight, Recent
    <3>3. QED BY <3>1, <3>2 DEF UsualStep, NoNewAnswers
  <2>4. ASSUME dialog' # 0, at = "admin"
        PROVE  shown'["detail"].asOf >= since' \/ Excused("detail")'
    <3>1. dialog # 0 /\ "detail" \in ListsOf(at) /\ "detail" \in Lists
      BY <2>4 DEF UsualStep, ListsOf, Lists
    <3>2. CASE Kept("detail")
      <4>1. ExcusedIn(excuses, "detail") => ExcusedIn(excuses', "detail")
        BY <3>2, KeptStaysExcused
      <4>2. QED BY <1>0, <2>1, <2>4, <3>1, <3>2, <4>1, Serious DEF Kept, DetailRight
    <3>3. CASE \E q \in Queries : Sent("detail", q)
      <4>1. shown'["detail"] = shown["detail"] /\ excuses \subseteq excuses'
        BY <3>3 DEF Sent
      <4>2. Excused("detail") => Excused("detail")'
        BY <4>1 DEF Excused
      <4>3. QED BY <2>1, <2>4, <3>1, <4>1, <4>2 DEF DetailRight
    <3>4. QED BY <3>1, <3>2, <3>3 DEF UsualStep
  <2>5. QED BY <1>0, <2>2, <2>3, <2>4 DEF DetailRight
<1>2. CASE Served
  <2>1. /\ \A k \in DOMAIN loads' : loads'[k].list = "detail" => loads'[k].old
        /\ \E q \in Queries : Sent(Main(at), q)
        /\ at = "admin" => dialog' = 0
    BY <1>2 DEF UsualStep
  <2>2. DetailRight'
    BY <1>0, <2>1 DEF DetailRight
  <2>3. ASSUME NEW l \in MainLists PROVE FreshRight(l)'
    <3>1. CASE l = Main(at)
      BY <1>0, <2>1, <3>1, SentIsFresh
    <3>2. CASE l # Main(at)
      <4>1. at \in {"products", "passports", "users", "admin"}
        BY <1>2 DEF Served, Ground, OwnLists
      <4>2. l \notin ListsOf(at)
        BY <3>2, <4>1 DEF MainLists, ListsOf, Main, Sections
      <4>3. QED BY <1>0, <4>2, NotThere DEF FreshRight, Awaited, Visible
    <3>3. QED BY <3>1, <3>2
  <2>4. QED BY <2>2, <2>3
<1>3. QED BY <1>1, <1>2

LEMMA AnswersFreshKept ==
    ASSUME Ground, AnswersFresh, [DashboardNext]_dashboardVars
    PROVE  AnswersFresh'
<1>0. /\ Ground' /\ DashboardTypeOK /\ DashboardTypeOK' /\ OwnLists /\ OwnLists' /\ AnswersWhole
      /\ writes \in Nat /\ since \in Nat /\ since <= writes
      /\ \A l \in MainLists \cup {"detail"} : l \in Lists /\ l \notin {"overview", "oversight"}
  <2>1. Ground'
    BY GroundKept
  <2>2. DashboardTypeOK /\ writes \in Nat /\ since \in Nat /\ since <= writes
    BY DashboardAssumption DEF Ground, DashboardTypeOK
  <2>3. QED BY <2>1, <2>2 DEF Ground, MainLists, Lists, AllPages, Sections
<1> SUFFICES ASSUME ~Served' PROVE DetailRight' /\ \A l \in MainLists : FreshRight(l)'
  BY DEF AnswersFresh
<1>1. CASE NewPage
  <2>1. /\ \A l : \A x \in AwaitedIn(loads', l) : x.reply = Nothing
        /\ \A k \in DOMAIN loads' : loads'[k].reply = Nothing
        /\ dialog' = 0 /\ \A l \in Lists : shown'[l] = Nothing
    BY <1>0, <1>1, NewPageFacts DEF Reset
  <2>2. ASSUME NEW l \in MainLists PROVE FreshRight(l)'
    BY <1>0, <2>1 DEF FreshRight, Awaited, Recent, Visible
  <2>3. DetailRight'
    BY <2>1 DEF DetailRight, Recent
  <2>4. QED BY <2>2, <2>3
<1>2. CASE UserStep
  BY <1>0, <1>2, UserStepsAreUsual, UsualKeepsFresh
<1>3. CASE \E i : Serve(i)
  <2>1. PICK i : Serve(i)
    BY <1>3
  <2>2. /\ UNCHANGED <<at, writes, since, shown, errors, dialog, task, excuses>>
    BY <2>1 DEF Serve, data
  <2>3. DetailRight /\ \A l \in MainLists : FreshRight(l)
    BY <2>2 DEF AnswersFresh, Served
  <2>4. /\ i \in DOMAIN loads /\ loads[i] \in Loads
        /\ \E r \in {AnswerTo(loads[i].list, loads[i].query), Failed} : Answered(loads, i, r, loads')
    BY <1>0, <2>1, ServeFacts
  <2>5. PICK r : Answered(loads, i, r, loads') /\ Recent(r, since)
    <3>1. AnswerTo(loads[i].list, loads[i].query).asOf = writes
      BY <1>0, <2>4, AnswerFacts DEF Loads
    <3>2. QED BY <1>0, <2>4, <3>1 DEF Recent
  <2>6. loads'[i].reply = r
    BY <2>5 DEF Answered
  <2>7. ASSUME NEW l \in MainLists PROVE FreshRight(l)'
    <3>1. FreshRight(l)
      BY <2>3
    <3>2. \A x \in AwaitedIn(loads', l) : Recent(x.reply, since')
      BY <2>2, <2>5, <2>6, <3>1 DEF Answered, FreshRight, Awaited
    <3>3. UnderWayIn(loads, l) <=> UnderWayIn(loads', l)
      BY <2>5 DEF Answered
    <3>4. QED BY <2>2, <3>1, <3>2, <3>3 DEF FreshRight, Awaited, Visible, Excused
  <2>8. DetailRight'
    <3>1. ASSUME NEW j \in DOMAIN loads', loads'[j].list = "detail"
          PROVE  loads'[j].old \/ Recent(loads'[j].reply, since')
      <4>1. CASE j = i
        BY <2>2, <2>5, <2>6, <4>1
      <4>2. CASE j # i
        <5>1. j \in DOMAIN loads /\ loads'[j] = loads[j]
          BY <2>5, <4>2 DEF Answered
        <5>2. QED BY <2>2, <2>3, <3>1, <5>1 DEF DetailRight
      <4>3. QED BY <4>1, <4>2
    <3>2. QED BY <2>2, <2>3, <3>1 DEF DetailRight, Excused
  <2>9. QED BY <2>7, <2>8
<1>4. CASE \E i : Applies(i)
  <2>1. PICK i : Applies(i)
    BY <1>4
  <2>2. i \in DOMAIN loads /\ Overtook(loads, i, loads') /\ loads[i] \in Loads
    BY <1>0, <2>1, AppliesFacts
  <2>3. UNCHANGED <<at, writes, since, task>>
    BY <2>1 DEF Applies, Arrive, ArriveEntries, Break, data
  <2>4. DetailRight /\ \A l \in MainLists : FreshRight(l)
    BY <2>3 DEF AnswersFresh, Served
  <2> DEFINE m == loads[i].list
  <2>5. \A l \in Lists : Excused(l)' <=> ExcusedIn(excuses', l)
    BY <1>0, Serious
  <2>6. ASSUME NEW l \in MainLists, m # l PROVE FreshRight(l)'
    <3>1. /\ Quiet(loads, loads', l) /\ shown'[l] = shown[l] /\ (l \in errors => l \in errors')
          /\ \A k \in Excusable : <<k, l>> \in excuses => <<k, l>> \in excuses'
      BY <1>0, <2>1, <2>2, <2>6, ArrivalKeeps
    <3>2. ExcusedIn(excuses, l) => ExcusedIn(excuses', l)
      BY <3>1 DEF ExcusedIn, Excusable
    <3>3. QED BY <1>0, <2>3, <2>4, <3>1, <3>2, FreshKept
  <2>7. ASSUME m \notin {"overview", "oversight"}, NEW x, x = loads[i], ~x.old => Recent(x.reply, since),
               m # "activity", m \in Lists
        PROVE  \/ ExcusedIn(excuses', m)
               \/ shown'[m].asOf >= since
    <3>1. CASE Break(i)
      BY <2>7, <3>1, BrokenIsExcused
    <3>2. CASE Arrive(i)
      <4>1. /\ shown' = [shown EXCEPT ![m] = OnScreen(loads[i].query, loads[i].reply)]
            /\ excuses' = Excuses(i) /\ loads[i].reply \notin {Nothing, Failed}
        BY <3>2 DEF Arrive
      <4>2. shown'[m].asOf = loads[i].reply.asOf
        BY <1>0, <2>7, <4>1 DEF OnScreen, DashboardTypeOK
      <4>3. CASE loads[i].old
        <5>1. <<"overtaken", m>> \in excuses'
          BY <1>0, <2>2, <2>7, <4>1, <4>3, ExcusesFacts
        <5>2. QED BY <5>1 DEF ExcusedIn
      <4>4. CASE ~loads[i].old
        BY <2>7, <4>1, <4>2, <4>4 DEF Recent
      <4>5. QED BY <4>3, <4>4
    <3>3. CASE ArriveEntries(i)
      BY <2>7, <3>3 DEF ArriveEntries
    <3>4. QED BY <2>1, <3>1, <3>2, <3>3 DEF Applies
  <2>8. ASSUME NEW l \in MainLists, m = l PROVE FreshRight(l)'
    <3>1. FreshRight(l) /\ l # "activity"
      BY <2>4 DEF MainLists
    <3>2. \A x \in AwaitedIn(loads', l) : Recent(x.reply, since')
      BY <2>2, <2>3, <3>1 DEF Overtook, FreshRight, Awaited
    <3>3. ASSUME ~UnderWayIn(loads', l) PROVE shown'[l].asOf >= since' \/ Excused(l)'
      <4>1. ~loads[i].old => loads[i] \in AwaitedIn(loads, l)
        BY <2>2, <2>8, <3>3 DEF Overtook
      <4>2. ~loads[i].old => Recent(loads[i].reply, since)
        BY <3>1, <4>1 DEF FreshRight, Awaited
      <4>3. QED BY <1>0, <2>3, <2>5, <2>7, <2>8, <3>1, <4>2
    <3>4. QED BY <3>2, <3>3 DEF FreshRight, Awaited
  <2>9. DetailRight'
    <3>1. ASSUME NEW k \in DOMAIN loads', loads'[k].list = "detail"
          PROVE  loads'[k].old \/ Recent(loads'[k].reply, since')
      <4>1. PICK j \in DOMAIN loads : loads'[k] = loads[j] \/ loads'[k] = MarkOld(loads[j])
        BY <2>2 DEF Overtook
      <4>2. loads[j] \in Loads
        BY <1>0, ElementOfSeq DEF DashboardTypeOK
      <4>3. CASE loads'[k] = loads[j]
        BY <2>3, <2>4, <3>1, <4>3 DEF DetailRight
      <4>4. CASE loads'[k] = MarkOld(loads[j])
        BY <4>2, <4>4, MarkedLoad
      <4>5. QED BY <4>1, <4>3, <4>4
    <3>2. ASSUME dialog' # 0, at = "admin"
          PROVE  shown'["detail"].asOf >= since' \/ Excused("detail")'
      <4>1. CASE m = "detail"
        <5>1. ~loads[i].old => Recent(loads[i].reply, since)
          BY <2>2, <2>4, <4>1 DEF DetailRight
        <5>2. QED BY <1>0, <2>3, <2>5, <2>7, <4>1, <5>1
      <4>2. CASE m # "detail"
        <5>1. dialog' = dialog
          BY <2>1, <4>2 DEF Applies, Arrive, ArriveEntries, Break
        <5>2. /\ shown'["detail"] = shown["detail"]
              /\ \A k \in Excusable : <<k, "detail">> \in excuses => <<k, "detail">> \in excuses'
          BY <1>0, <2>1, <2>2, <4>2, ArrivalKeeps
        <5>3. Excused("detail") => Excused("detail")'
          BY <1>0, <5>2, Serious DEF ExcusedIn, Excusable
        <5>4. QED BY <2>3, <2>4, <3>2, <5>1, <5>2, <5>3 DEF DetailRight
      <4>3. QED BY <4>1, <4>2
    <3>3. QED BY <2>3, <3>1, <3>2 DEF DetailRight
  <2>10. QED BY <2>6, <2>8, <2>9
<1>5. CASE UNCHANGED dashboardVars
  BY <1>5 DEF AnswersFresh, DetailRight, FreshRight, Served, Awaited, Visible, Excused, dashboardVars
<1>6. QED BY <1>1, <1>2, <1>3, <1>4, <1>5, StepKinds

-----------------------------------------------------------------------------
(* The history that is awaited, or shown, is that of the open passport.     *)
HistoryRight ==
    dialog # 0 /\ at = "passports" =>
       /\ \A x \in Awaited("history") : x.query.row = dialog
       /\ ~UnderWayIn(loads, "history") /\ Visible("history") =>
             shown["history"].query.row = dialog \/ Excused("history")

LEMMA HistoryRightKept ==
    ASSUME Ground, HistoryRight, [DashboardNext]_dashboardVars
    PROVE  HistoryRight'
<1>0. /\ Ground' /\ DashboardTypeOK /\ DashboardTypeOK' /\ OwnLists /\ OwnLists' /\ AnswersWhole
      /\ "history" \in Lists
  BY GroundKept DEF Ground, Lists
<1> SUFFICES ASSUME dialog' # 0, at' = "passports"
             PROVE  /\ \A x \in AwaitedIn(loads', "history") : x.query.row = dialog'
                    /\ ~UnderWayIn(loads', "history") /\ Visible("history")' =>
                          shown'["history"].query.row = dialog' \/ Excused("history")'
  BY DEF HistoryRight, Awaited
<1>c. /\ Excused("history") <=> ExcusedIn(excuses, "history")
      /\ Excused("history")' <=> ExcusedIn(excuses', "history")
  BY <1>0, Serious
<1>1. CASE NewPage
  BY <1>0, <1>1, NewPageFacts DEF Reset
<1>2. CASE UserStep
  <2>1. UsualStep /\ at = "passports" /\ "history" \in ListsOf(at)
    BY <1>0, <1>2, UserStepsAreUsual DEF UsualStep, ListsOf
  <2>2. CASE Kept("history")
    <3>1. dialog' = dialog
      BY <2>2 DEF Kept
    <3>2. ExcusedIn(excuses, "history") => ExcusedIn(excuses', "history")
      BY <2>2, KeptStaysExcused
    <3>3. QED BY <1>c, <2>1, <2>2, <3>1, <3>2 DEF Kept, Quiet, HistoryRight, Awaited, Visible
  <2>3. CASE \E q \in Queries : Sent("history", q)
    <3>1. PICK q \in Queries : Sent("history", q)
      BY <2>3
    <3>2. Load("history", q).query = q
      BY <1>0, NewLoad
    <3>3. QED BY <3>1, <3>2 DEF Sent
  <2>4. QED BY <2>1, <2>2, <2>3 DEF UsualStep
<1>3. CASE \E i : Serve(i)
  <2>1. PICK i : Serve(i)
    BY <1>3
  <2>2. PICK r : Answered(loads, i, r, loads')
    BY <1>0, <2>1, ServeFacts
  <2>3. UNCHANGED <<at, shown, errors, dialog, excuses>>
    BY <2>1 DEF Serve, data
  <2>4. \A x \in AwaitedIn(loads', "history") : \E y \in AwaitedIn(loads, "history") : x.query = y.query
    BY <2>2 DEF Answered
  <2>5. UnderWayIn(loads, "history") <=> UnderWayIn(loads', "history")
    BY <2>2 DEF Answered
  <2>6. QED BY <2>3, <2>4, <2>5 DEF HistoryRight, Awaited, Visible, Excused
<1>4. CASE \E i : Applies(i)
  <2>1. PICK i : Applies(i)
    BY <1>4
  <2>2. i \in DOMAIN loads /\ Overtook(loads, i, loads') /\ loads[i] \in Loads
    BY <1>0, <2>1, AppliesFacts
  <2>3. at' = at
    BY <2>1 DEF Applies, Arrive, ArriveEntries, Break, data
  <2>4. dialog' = dialog
    <3>1. loads[i].list # "detail"
      BY <2>2, <2>3 DEF Ground, OwnLists, ListsOf
    <3>2. QED BY <2>1, <3>1 DEF Applies, Arrive, ArriveEntries, Break
  <2>5. \A x \in AwaitedIn(loads', "history") : x \in AwaitedIn(loads, "history")
    BY <2>2 DEF Overtook
  <2>6. CASE loads[i].list # "history"
    <3>1. /\ Quiet(loads, loads', "history") /\ shown'["history"] = shown["history"]
          /\ "history" \in errors => "history" \in errors'
          /\ \A k \in Excusable : <<k, "history">> \in excuses => <<k, "history">> \in excuses'
      BY <1>0, <2>1, <2>2, <2>6, ArrivalKeeps
    <3>2. Excused("history") => Excused("history")'
      BY <1>c, <3>1 DEF ExcusedIn, Excusable
    <3>3. QED BY <2>3, <2>4, <2>5, <3>1, <3>2 DEF HistoryRight, Awaited, Visible, Quiet
  <2>7. CASE loads[i].list = "history"
    <3>1. ASSUME ~UnderWayIn(loads', "history")
          PROVE  shown'["history"].query.row = dialog' \/ Excused("history")'
      <4>1. CASE Break(i)
        BY <1>c, <2>7, <4>1, BrokenIsExcused
      <4>2. CASE Arrive(i)
        <5>1. /\ shown' = [shown EXCEPT !["history"] = OnScreen(loads[i].query, loads[i].reply)]
              /\ excuses' = Excuses(i)
          BY <2>7, <4>2 DEF Arrive
        <5>2. shown'["history"].query = loads[i].query
          BY <1>0, <5>1 DEF OnScreen, DashboardTypeOK
        <5>3. CASE loads[i].old
          <6>1. <<"overtaken", "history">> \in excuses'
            BY <1>0, <2>2, <2>7, <5>1, <5>3, ExcusesFacts
          <6>2. QED BY <1>c, <6>1 DEF ExcusedIn
        <5>4. CASE ~loads[i].old
          <6>1. loads[i] \in AwaitedIn(loads, "history")
            BY <2>2, <2>7, <3>1, <5>4 DEF Overtook
          <6>2. QED BY <2>3, <2>4, <5>2, <6>1 DEF HistoryRight, Awaited
        <5>5. QED BY <5>3, <5>4
      <4>3. CASE ArriveEntries(i)
        BY <2>7, <4>3 DEF ArriveEntries
      <4>4. QED BY <2>1, <4>1, <4>2, <4>3 DEF Applies
    <3>2. QED BY <2>3, <2>4, <2>5, <3>1 DEF HistoryRight, Awaited
  <2>8. QED BY <2>6, <2>7
<1>5. CASE UNCHANGED dashboardVars
  BY <1>5 DEF HistoryRight, Awaited, Visible, Excused, dashboardVars
<1>6. QED BY <1>1, <1>2, <1>3, <1>4, <1>5, StepKinds

-----------------------------------------------------------------------------
(* The page of a paged list exists, unless rows were removed or the page    *)
(* was chosen too early.                                                    *)
Unexcused(l)  == ~Has("early", l) /\ ~Has("shrunk", l)
SomeExcuse(l) == \E k \in Excusable : <<k, l>> \in excuses

Counted(l, q, r) ==
    /\ r.asOf <= writes
    /\ r.asOf = writes => r.total = Hit(q)
    /\ Unexcused(l) => r.total <= Hit(q)

PageRight(l) ==
    /\ \A q \in Queries, r \in Replies :
          (\E i \in DOMAIN loads : loads[i].list = l /\ loads[i].query = q /\ loads[i].reply = r)
             => Counted(l, q, r)
    /\ \A s \in Screens : shown[l] = s => Counted(l, s.query, s)
    /\ Unexcused(l) => \A q \in Queries : q = want => Fits(q, Hit(q))
    /\ Unexcused(l) => \A x \in Awaited(l) :
          x.query = want \/ ~Has("closure", l) =>
             /\ Fits(x.query, Hit(x.query))
             /\ Got(x) => Fits(x.query, x.reply.total)
    /\ ~UnderWayIn(loads, l) /\ Visible(l) =>
          \A s \in Screens : shown[l] = s => Fits(s.query, s.total) \/ SomeExcuse(l)

PagesRight == \A l \in Paged \cap ListsOf(at) : PageRight(l)

LEMMA HitsGrow ==
    ASSUME DashboardTypeOK, DashboardTypeOK', NEW l \in Paged \cap ListsOf(at), Unexcused(l)',
           UNCHANGED <<rows, off>> \/ Writes, NEW q
    PROVE  Hit(q) \in Nat /\ Hit(q)' \in Nat /\ Hit(q) <= Hit(q)'
<1>1. rows \subseteq rows' /\ off' = off
  <2>1. CASE UNCHANGED <<rows, off>>
    BY <2>1
  <2>2. CASE Writes
    <3>1. CASE excuses' = excuses \cup {<<"shrunk", Main(at)>>}
               /\ (at = "admin" => rows' = rows /\ off' = off)
      <4>1. at \in AllPages \cup {"none"}
        BY ListsKnown DEF DashboardTypeOK
      <4>2. (l = "products" /\ at = "products") \/ at = "admin"
        BY <4>1 DEF Paged, ListsOf, AllPages
      <4>3. Main(at) # l
        BY <3>1 DEF Unexcused, Has
      <4>4. QED BY <3>1, <4>2, <4>3 DEF Main
    <3>2. QED BY <2>2, <3>1 DEF Writes
  <2>3. QED BY <2>1, <2>2
<1>2. Hits(q) \subseteq Hits(q)'
  BY <1>1 DEF Hits
<1>3. IsFiniteSet(rows') /\ Hits(q)' \subseteq rows'
  <2>1. rows' \subseteq Stamps
    BY DEF DashboardTypeOK
  <2>2. IsFiniteSet(rows')
    BY <2>1, StampsFinite, FS_Subset
  <2>3. QED BY <2>2 DEF Hits
<1>4. IsFiniteSet(Hits(q)')
  BY <1>3, FS_Subset
<1> DEFINE A == Hits(q)
<1>5. IsFiniteSet(Hits(q)) /\ Cardinality(Hits(q)) <= Cardinality(Hits(q)')
  BY <1>2, <1>4, FS_Subset
<1>6. Cardinality(Hits(q)) \in Nat /\ Cardinality(Hits(q)') \in Nat
  BY <1>4, <1>5, FS_CardinalityType
<1>7. QED BY <1>5, <1>6 DEF Hit

LEMMA CountedStill ==
    ASSUME DashboardTypeOK, DashboardTypeOK', NEW l \in Paged \cap ListsOf(at),
           Unexcused(l)' => Unexcused(l), UNCHANGED <<rows, off, writes>> \/ Writes,
           NEW q, NEW r, r.asOf \in Nat, r.total \in Nat, Counted(l, q, r)
    PROVE  Counted(l, q, r)'
<1>1. writes \in Nat
  BY DashboardAssumption DEF DashboardTypeOK
<1>2. CASE UNCHANGED <<rows, off, writes>>
  <2>1. Hit(q)' = Hit(q)
    BY <1>2 DEF Hit, Hits
  <2>2. QED BY <1>2, <2>1 DEF Counted
<1>3. CASE Writes
  <2>1. writes' = writes + 1
    BY <1>3 DEF Writes
  <2>2. r.asOf <= writes' /\ r.asOf # writes'
    BY <1>1, <2>1 DEF Counted
  <2>3. ASSUME Unexcused(l)' PROVE r.total <= Hit(q)'
    <3>1. Hit(q) \in Nat /\ Hit(q)' \in Nat /\ Hit(q) <= Hit(q)'
      BY <1>3, <2>3, HitsGrow
    <3>2. r.total <= Hit(q)
      BY <2>3 DEF Counted
    <3>3. QED BY <3>1, <3>2
  <2>4. QED BY <2>2, <2>3 DEF Counted
<1>4. QED BY <1>2, <1>3

(* Whatever is done to the list but an answer applied to it.                *)
LEMMA CountsStill ==
    ASSUME DashboardTypeOK, DashboardTypeOK', NEW l \in Paged \cap ListsOf(at), PageRight(l),
           Unexcused(l)' => Unexcused(l), UNCHANGED <<rows, off, writes>> \/ Writes, NoNewAnswers
    PROVE  /\ \A q \in Queries, r \in Replies :
                 (\E k \in DOMAIN loads' :
                     loads'[k].list = l /\ loads'[k].query = q /\ loads'[k].reply = r)
                    => Counted(l, q, r)'
           /\ \A s \in Screens : shown[l] = s => Counted(l, s.query, s)'
<1>1. ASSUME NEW q \in Queries, NEW r \in Replies, NEW k \in DOMAIN loads',
             loads'[k].list = l, loads'[k].query = q, loads'[k].reply = r
      PROVE  Counted(l, q, r)'
  <2>1. PICK j \in DOMAIN loads : loads'[k] = loads[j] \/ loads'[k] = MarkOld(loads[j])
    BY <1>1, NoValueAssumption DEF NoNewAnswers
  <2>2. loads[j] \in Loads
    BY ElementOfSeq DEF DashboardTypeOK
  <2>3. loads[j].list = l /\ loads[j].query = q /\ loads[j].reply = r
    BY <1>1, <2>1, <2>2, MarkedLoad
  <2>4. Counted(l, q, r)
    BY <2>3 DEF PageRight
  <2>5. r.asOf \in Nat /\ r.total \in Nat
    BY DEF Replies
  <2>6. QED BY <2>4, <2>5, CountedStill
<1>2. ASSUME NEW s \in Screens, shown[l] = s
      PROVE  Counted(l, s.query, s)'
  <2>1. s.asOf \in Nat /\ s.total \in Nat
    BY DEF Screens
  <2>2. Counted(l, s.query, s)
    BY <1>2 DEF PageRight
  <2>3. QED BY <2>1, <2>2, CountedStill
<1>3. QED BY <1>1, <1>2

LEMMA WantFits ==
    ASSUME DashboardTypeOK, DashboardTypeOK', NEW l \in Paged \cap ListsOf(at), PageRight(l),
           Unexcused(l)' => Unexcused(l), UNCHANGED <<rows, off>> \/ Writes,
           want' = want \/ want'.page = 1 \/ Turns(l), Unexcused(l)',
           NEW w \in Queries, w = want'
    PROVE  Fits(w, Hit(w)')
<1>0. /\ want \in Queries /\ w.page \in Nat \ {0} /\ want.page \in Nat \ {0} /\ Unexcused(l)
      /\ Hit(w) \in Nat /\ Hit(w)' \in Nat /\ Hit(w) <= Hit(w)'
      /\ Fits(want, Hit(want))
      /\ l \in Lists
  <2>1. want \in Queries /\ w.page \in Nat \ {0} /\ want.page \in Nat \ {0}
    BY DEF DashboardTypeOK, Queries
  <2>2. Hit(w) \in Nat /\ Hit(w)' \in Nat /\ Hit(w) <= Hit(w)'
    BY HitsGrow
  <2>3. Fits(want, Hit(want))
    BY <2>1 DEF PageRight
  <2>4. l \in Lists
    BY DEF Paged, Lists, AllPages, Sections
  <2>5. QED BY <2>1, <2>2, <2>3, <2>4
<1>1. SUFFICES Fits(w, Hit(w))
  BY <1>0, FitsMore
<1>2. CASE w = want
  BY <1>0, <1>2
<1>3. CASE w.page = 1
  BY <1>3 DEF Fits
<1>4. CASE w # want /\ w.page # 1
  <2>1. /\ shown[l] # Nothing /\ w = [want EXCEPT !.page = w.page]
        /\ w.page <= NumPages(shown[l].total) \/ w.page <= want.page
        /\ shown[l].query = want
    <3>1. /\ shown[l] # Nothing
          /\ want' = [want EXCEPT !.page = want'.page]
          /\ want'.page <= NumPages(shown[l].total) \/ want'.page <= want.page
          /\ excuses' = IF shown[l].query = want THEN excuses ELSE excuses \cup {<<"early", l>>}
      BY <1>4 DEF Turns
    <3>2. <<"early", l>> \notin excuses'
      BY DEF Unexcused, Has
    <3>3. shown[l].query = want
      BY <3>1, <3>2
    <3>4. QED BY <3>1, <3>3
  <2>2. Hit(w) = Hit(want)
    <3>1. w.term = want.term /\ w.filter = want.filter
      <4>1. \A p : [want EXCEPT !.page = p].term = want.term /\ [want EXCEPT !.page = p].filter = want.filter
        BY <1>0 DEF Queries
      <4>2. QED BY <2>1, <4>1
    <3>2. QED BY <3>1 DEF Hit, Hits
  <2>3. Hit(want) \in Nat /\ NumPages(Hit(want)) \in Nat
    BY <1>0, <2>2, MoreRowsMorePages
  <2>4. CASE w.page <= NumPages(shown[l].total)
    <3>1. shown[l] \in Screens
      BY <1>0, <2>1 DEF DashboardTypeOK
    <3>2. Counted(l, want, shown[l]) /\ shown[l].total \in Nat
      BY <2>1, <3>1 DEF PageRight, Screens
    <3>3. shown[l].total <= Hit(want)
      BY <1>0, <3>2 DEF Counted
    <3>4. NumPages(shown[l].total) \in Nat /\ NumPages(shown[l].total) <= NumPages(Hit(want))
      BY <2>3, <3>2, <3>3, MoreRowsMorePages
    <3>5. ~(w.page > NumPages(Hit(want)))
      BY <1>0, <2>3, <2>4, <3>4
    <3>6. QED BY <2>2, <3>5 DEF Fits, Beyond
  <2>5. CASE w.page <= want.page
    <3>1. want.page # 1
      BY <1>0, <1>4, <2>5
    <3>2. ~(want.page > NumPages(Hit(want)))
      BY <1>0, <3>1 DEF Fits, Beyond
    <3>3. ~(w.page > NumPages(Hit(want)))
      BY <1>0, <2>3, <2>5, <3>2
    <3>4. QED BY <2>2, <3>3 DEF Fits, Beyond
  <2>6. QED BY <2>1, <2>4, <2>5
<1>5. QED BY <1>2, <1>3, <1>4

LEMMA AwaitedLoads ==
    ASSUME DashboardTypeOK, NEW l, NEW x \in Awaited(l)
    PROVE  /\ x \in Loads /\ x.query \in Queries /\ x.list = l
           /\ Got(x) => x.reply \in Replies /\ x.reply.total \in Nat
<1>1. PICK k \in DOMAIN loads : x = loads[k] /\ IsLast(loads, l, k)
  BY DEF Awaited, AwaitedIn
<1>2. x \in Loads /\ x.list = l
  BY <1>1, ElementOfSeq DEF DashboardTypeOK, IsLast
<1>3. QED BY <1>2 DEF Loads, Got, Replies

LEMMA PageKept ==
    ASSUME DashboardTypeOK, DashboardTypeOK', NEW l \in Paged \cap ListsOf(at), PageRight(l), Kept(l),
           UNCHANGED <<rows, off, writes>> \/ Writes, NoNewAnswers
    PROVE  PageRight(l)'
<1>1. /\ \A k \in Excusable : <<k, l>> \in excuses => <<k, l>> \in excuses'
      /\ want' = want \/ want'.page = 1
  BY DEF Kept, Paged, Driven
<1>2. Unexcused(l)' => Unexcused(l)
  BY <1>1 DEF Unexcused, Has, Excusable
<1>3. /\ \A q \in Queries, r \in Replies :
            (\E k \in DOMAIN loads' :
                loads'[k].list = l /\ loads'[k].query = q /\ loads'[k].reply = r)
               => Counted(l, q, r)'
      /\ \A s \in Screens : shown'[l] = s => Counted(l, s.query, s)'
  BY <1>2, CountsStill DEF Kept
<1>4. Unexcused(l)' => \A q \in Queries : q = want' => Fits(q, Hit(q)')
  BY <1>1, <1>2, WantFits
<1>5. ASSUME Unexcused(l)', NEW x \in AwaitedIn(loads', l), x.query = want' \/ ~Has("closure", l)'
      PROVE  /\ Fits(x.query, Hit(x.query)')
             /\ Got(x) => Fits(x.query, x.reply.total)
  <2>1. x \in Awaited(l)
    BY DEF Kept, Quiet, Awaited
  <2>2. x.query \in Queries
    BY <2>1, AwaitedLoads
  <2>3. CASE x.query.page = 1
    BY <2>3 DEF Fits
  <2>4. CASE x.query.page # 1
    <3>1. x.query = want \/ ~Has("closure", l)
      BY <1>1, <1>5, <2>4 DEF Has, Excusable
    <3>2. Fits(x.query, Hit(x.query)) /\ (Got(x) => Fits(x.query, x.reply.total))
      BY <1>2, <1>5, <2>1, <3>1 DEF PageRight
    <3> DEFINE q == x.query
    <3> HIDE DEF q
    <3>3. Hit(q) \in Nat /\ Hit(q)' \in Nat /\ Hit(q) <= Hit(q)'
      BY <1>5, HitsGrow
    <3>4. Fits(q, Hit(q))
      BY <3>2 DEF q
    <3>5. q \in Queries
      BY <2>2 DEF q
    <3>6. Fits(q, Hit(q)')
      BY <3>3, <3>4, <3>5, FitsMore
    <3>7. QED BY <3>2, <3>6 DEF q
  <2>5. QED BY <2>3, <2>4
<1>6. ASSUME ~UnderWayIn(loads', l), Visible(l)', NEW s \in Screens, shown'[l] = s
      PROVE  Fits(s.query, s.total) \/ SomeExcuse(l)'
  <2>1. ~UnderWayIn(loads, l) /\ Visible(l) /\ shown[l] = s
    BY <1>6 DEF Kept, Quiet, Visible
  <2>2. Fits(s.query, s.total) \/ SomeExcuse(l)
    BY <2>1 DEF PageRight
  <2>3. SomeExcuse(l) => SomeExcuse(l)'
    BY <1>1 DEF SomeExcuse
  <2>4. QED BY <2>2, <2>3
<1>7. QED BY <1>3, <1>4, <1>5, <1>6 DEF PageRight, Awaited

LEMMA PageSent ==
    ASSUME DashboardTypeOK, DashboardTypeOK', NEW l \in Paged \cap ListsOf(at), PageRight(l),
           NEW q \in Queries, Sent(l, q),
           UNCHANGED <<rows, off, writes>> \/ Writes, NoNewAnswers
    PROVE  PageRight(l)'
<1>0. l \in Lists
  BY DEF Paged, Lists, AllPages, Sections
<1>1. /\ excuses \subseteq excuses' /\ shown'[l] = shown[l]
      /\ AwaitedIn(loads', l) \subseteq {Load(l, q)} /\ UnderWayIn(loads', l)
      /\ \/ q = want' /\ Turns(l)
         \/ q # want' /\ want' = want /\ Has("closure", l)'
  BY DEF Sent, Paged, Has
<1>2. Unexcused(l)' => Unexcused(l)
  BY <1>1 DEF Unexcused, Has
<1>3. /\ \A p \in Queries, r \in Replies :
            (\E k \in DOMAIN loads' :
                loads'[k].list = l /\ loads'[k].query = p /\ loads'[k].reply = r)
               => Counted(l, p, r)'
      /\ \A s \in Screens : shown'[l] = s => Counted(l, s.query, s)'
  BY <1>1, <1>2, CountsStill
<1>4. Unexcused(l)' => \A w \in Queries : w = want' => Fits(w, Hit(w)')
  BY <1>1, <1>2, WantFits
<1>5. ASSUME Unexcused(l)', NEW x \in AwaitedIn(loads', l), x.query = want' \/ ~Has("closure", l)'
      PROVE  /\ Fits(x.query, Hit(x.query)')
             /\ Got(x) => Fits(x.query, x.reply.total)
  <2>1. x.query = q /\ ~Got(x)
    BY <1>0, <1>1, NewLoad
  <2>2. Fits(q, Hit(q)')
    BY <1>1, <1>4, <1>5, <2>1
  <2>3. QED BY <2>1, <2>2
<1>6. QED BY <1>1, <1>3, <1>4, <1>5 DEF PageRight, Awaited

LEMMA PageServed ==
    ASSUME DashboardTypeOK, DashboardTypeOK', NEW l \in Paged \cap ListsOf(at), PageRight(l),
           NEW i \in DOMAIN loads, loads[i] \in Loads,
           NEW r \in {AnswerTo(loads[i].list, loads[i].query), Failed},
           Answered(loads, i, r, loads'),
           UNCHANGED <<rows, off, writes, want, shown, errors, excuses>>
    PROVE  PageRight(l)'
<1>a. \A q : Hit(q)' = Hit(q)
  BY DEF Hit, Hits
<1>b. (Unexcused(l)' <=> Unexcused(l)) /\ (Has("closure", l)' <=> Has("closure", l))
  BY DEF Unexcused, Has
<1>c. \A q, a : Counted(l, q, a)' <=> Counted(l, q, a)
  BY <1>a, <1>b DEF Counted
<1>d. (SomeExcuse(l)' <=> SomeExcuse(l)) /\ (Visible(l)' <=> Visible(l))
  BY DEF SomeExcuse, Visible
<1>1. /\ loads'[i].list = loads[i].list /\ loads'[i].query = loads[i].query /\ loads'[i].reply = r
      /\ loads[i].query \in Queries /\ loads[i].list \in Lists
      /\ \A j \in DOMAIN loads : j # i => loads'[j] = loads[j]
      /\ DOMAIN loads' = DOMAIN loads
  BY DEF Answered, Loads
<1>2. ASSUME loads[i].list = l, r # Failed
      PROVE  r.asOf = writes /\ r.total = Hit(loads[i].query)
  BY <1>1, <1>2, AnswerFacts
<1>3. ASSUME NEW q \in Queries, NEW a \in Replies, NEW k \in DOMAIN loads',
             loads'[k].list = l, loads'[k].query = q, loads'[k].reply = a
      PROVE  Counted(l, q, a)
  <2>1. CASE k = i
    <3>1. a.asOf = writes /\ a.total = Hit(q)
      BY <1>1, <1>2, <1>3, <2>1, NoValueAssumption
    <3>2. Hit(q) \in Nat /\ writes \in Nat
      BY HitsFinite, DashboardAssumption DEF DashboardTypeOK
    <3>3. QED BY <3>1, <3>2 DEF Counted
  <2>2. CASE k # i
    BY <1>1, <1>3, <2>2 DEF PageRight
  <2>3. QED BY <2>1, <2>2
<1>4. ASSUME Unexcused(l), NEW x \in AwaitedIn(loads', l), x.query = want \/ ~Has("closure", l)
      PROVE  /\ Fits(x.query, Hit(x.query))
             /\ Got(x) => Fits(x.query, x.reply.total)
  <2>1. CASE x \in AwaitedIn(loads, l)
    BY <1>4, <2>1 DEF PageRight, Awaited
  <2>2. CASE x = loads'[i] /\ loads[i] \in AwaitedIn(loads, l)
    <3>1. loads[i].list = l /\ x.query = loads[i].query /\ x.reply = r
      BY <1>1, <2>2, AwaitedLoads DEF Awaited
    <3>2. Fits(x.query, Hit(x.query))
      BY <1>4, <2>2, <3>1 DEF PageRight, Awaited
    <3>3. Got(x) => x.reply.total = Hit(x.query)
      BY <1>2, <3>1 DEF Got
    <3>4. QED BY <3>2, <3>3
  <2>3. QED BY <2>1, <2>2 DEF Answered
<1>5. UnderWayIn(loads', l) <=> UnderWayIn(loads, l)
  BY DEF Answered
<1>6. PageRight(l)' <=>
       /\ \A q \in Queries, a \in Replies :
             (\E k \in DOMAIN loads' : loads'[k].list = l /\ loads'[k].query = q /\ loads'[k].reply = a)
                => Counted(l, q, a)'
       /\ \A s \in Screens : shown'[l] = s => Counted(l, s.query, s)'
       /\ Unexcused(l)' => \A q \in Queries : q = want' => Fits(q, Hit(q)')
       /\ Unexcused(l)' => \A x \in AwaitedIn(loads', l) :
             x.query = want' \/ ~Has("closure", l)' =>
                /\ Fits(x.query, Hit(x.query)')
                /\ Got(x) => Fits(x.query, x.reply.total)
       /\ ~UnderWayIn(loads', l) /\ Visible(l)' =>
             \A s \in Screens : shown'[l] = s => Fits(s.query, s.total) \/ SomeExcuse(l)'
  BY DEF PageRight, Awaited
<1>7. \A s \in Screens : shown'[l] = s => Counted(l, s.query, s)'
  BY <1>c DEF PageRight
<1>8. Unexcused(l)' => \A q \in Queries : q = want' => Fits(q, Hit(q)')
  BY <1>a, <1>b DEF PageRight
<1>9. ~UnderWayIn(loads', l) /\ Visible(l)' =>
         \A s \in Screens : shown'[l] = s => Fits(s.query, s.total) \/ SomeExcuse(l)'
  BY <1>d, <1>5 DEF PageRight
<1>10. Unexcused(l)' => \A x \in AwaitedIn(loads', l) :
          x.query = want' \/ ~Has("closure", l)' =>
             /\ Fits(x.query, Hit(x.query)')
             /\ Got(x) => Fits(x.query, x.reply.total)
  BY <1>a, <1>b, <1>4
<1>11. \A q \in Queries, a \in Replies :
          (\E k \in DOMAIN loads' : loads'[k].list = l /\ loads'[k].query = q /\ loads'[k].reply = a)
             => Counted(l, q, a)'
  BY <1>c, <1>3
<1>12. QED BY <1>6, <1>7, <1>8, <1>9, <1>10, <1>11

LEMMA PageBroken ==
    ASSUME DashboardTypeOK, DashboardTypeOK', NEW l \in Paged \cap ListsOf(at), PageRight(l),
           NEW i \in DOMAIN loads, Break(i), loads[i].list = l, Overtook(loads, i, loads')
    PROVE  PageRight(l)'
<1>1. /\ UNCHANGED <<rows, off, writes, want, shown>>
      /\ excuses \subseteq excuses' /\ ExcusedIn(excuses', l)
  BY BrokenIsExcused DEF Break, data, Paged
<1>2. Unexcused(l)' => Unexcused(l)
  BY <1>1 DEF Unexcused, Has
<1>3. NoNewAnswers
  BY DEF Overtook, NoNewAnswers
<1>4. /\ \A p \in Queries, r \in Replies :
            (\E k \in DOMAIN loads' :
                loads'[k].list = l /\ loads'[k].query = p /\ loads'[k].reply = r)
               => Counted(l, p, r)'
      /\ \A s \in Screens : shown'[l] = s => Counted(l, s.query, s)'
  BY <1>1, <1>2, <1>3, CountsStill
<1>5. Unexcused(l)' => \A w \in Queries : w = want' => Fits(w, Hit(w)')
  BY <1>1, <1>2, WantFits
<1>6. \A q : Hit(q)' = Hit(q)
  BY <1>1 DEF Hit, Hits
<1>7. ASSUME Unexcused(l)', NEW x \in AwaitedIn(loads', l), x.query = want' \/ ~Has("closure", l)'
      PROVE  /\ Fits(x.query, Hit(x.query)')
             /\ Got(x) => Fits(x.query, x.reply.total)
  <2>1. x \in Awaited(l) /\ (x.query = want \/ ~Has("closure", l))
    BY <1>1, <1>7 DEF Overtook, Awaited, Has
  <2>2. Fits(x.query, Hit(x.query)) /\ (Got(x) => Fits(x.query, x.reply.total))
    BY <1>2, <1>7, <2>1 DEF PageRight
  <2>3. QED BY <1>6, <2>2
<1>8. SomeExcuse(l)'
  BY <1>1 DEF SomeExcuse, ExcusedIn, Excusable
<1>9. QED BY <1>4, <1>5, <1>7, <1>8 DEF PageRight, Awaited

LEMMA PageArrived ==
    ASSUME DashboardTypeOK, DashboardTypeOK', NEW l \in Paged \cap ListsOf(at), PageRight(l),
           NEW i \in DOMAIN loads, Arrive(i), loads[i].list = l, loads[i] \in Loads,
           Overtook(loads, i, loads')
    PROVE  PageRight(l)'
<1>1. PICK q \in Queries, r \in Replies :
         loads[i].query = q /\ loads[i].reply = r /\ Got(loads[i])
  BY DEF Arrive, Loads, Got
<1>2. /\ UNCHANGED <<rows, off, writes, want>>
      /\ shown' = [shown EXCEPT ![l] = OnScreen(q, r)]
      /\ excuses' = Excuses(i)
  BY <1>1 DEF Arrive, data
<1>3. l \in Lists /\ l \notin {"overview", "oversight"}
  BY DEF Paged, Lists, AllPages, Sections
<1>4. \A s : shown'[l] = s => s.query = q /\ s.asOf = r.asOf /\ s.total = r.total
  BY <1>2, <1>3 DEF OnScreen, DashboardTypeOK
<1>5. \A p : Hit(p)' = Hit(p)
  BY <1>2 DEF Hit, Hits
<1>6. Counted(l, q, r) /\ r.asOf \in Nat /\ r.total \in Nat
  BY <1>1 DEF PageRight, Replies
<1>7. ~loads[i].old /\ ~UnderWayIn(loads', l) =>
         /\ loads[i] \in Awaited(l)
         /\ Unexcused(l) /\ (q = want \/ ~Has("closure", l)) => Fits(q, r.total)
  BY <1>1 DEF Overtook, Awaited, PageRight
<1>8. CASE excuses \subseteq excuses'
  <2>1. Unexcused(l)' => Unexcused(l)
    BY <1>8 DEF Unexcused, Has
  <2>2. NoNewAnswers
    BY DEF Overtook, NoNewAnswers
  <2>3. \A p \in Queries, a \in Replies :
            (\E k \in DOMAIN loads' :
                loads'[k].list = l /\ loads'[k].query = p /\ loads'[k].reply = a)
               => Counted(l, p, a)'
    BY <1>2, <2>1, <2>2, CountsStill
  <2>4. \A s \in Screens : shown'[l] = s => Counted(l, s.query, s)'
    <3>1. Counted(l, q, r)'
      BY <1>2, <1>6, <2>1, CountedStill
    <3>2. QED BY <1>4, <3>1 DEF Counted
  <2>5. Unexcused(l)' => \A w \in Queries : w = want' => Fits(w, Hit(w)')
    BY <1>2, <2>1, WantFits
  <2>6. ASSUME Unexcused(l)', NEW x \in AwaitedIn(loads', l), x.query = want' \/ ~Has("closure", l)'
        PROVE  /\ Fits(x.query, Hit(x.query)')
               /\ Got(x) => Fits(x.query, x.reply.total)
    <3>1. x \in Awaited(l) /\ (x.query = want \/ ~Has("closure", l))
      BY <1>2, <1>8, <2>6 DEF Overtook, Awaited, Has
    <3>2. Fits(x.query, Hit(x.query)) /\ (Got(x) => Fits(x.query, x.reply.total))
      BY <2>1, <2>6, <3>1 DEF PageRight
    <3>3. QED BY <1>5, <3>2
  <2>7. ~UnderWayIn(loads', l) => Fits(q, r.total) \/ SomeExcuse(l)'
    <3>1. CASE loads[i].old
      <4>1. <<"overtaken", l>> \in excuses'
        BY <1>2, <1>3, <3>1, ExcusesFacts
      <4>2. QED BY <4>1 DEF SomeExcuse, Excusable
    <3>2. CASE ~loads[i].old
      <4>1. (Unexcused(l) /\ ~Has("closure", l)) \/ SomeExcuse(l)
        BY DEF Unexcused, Has, SomeExcuse, Excusable
      <4>2. SomeExcuse(l) => SomeExcuse(l)'
        BY <1>8 DEF SomeExcuse
      <4>3. QED BY <1>7, <3>2, <4>1, <4>2
    <3>3. QED BY <3>1, <3>2
  <2>8. \A s \in Screens : ~UnderWayIn(loads', l) /\ shown'[l] = s
                               => Fits(s.query, s.total) \/ SomeExcuse(l)'
    BY <1>4, <2>7
  <2>9. QED BY <2>3, <2>4, <2>5, <2>6, <2>8 DEF PageRight, Awaited
<1>9. CASE ~loads[i].old /\ Alone(loads, i) /\ Current(i)
  <2>1. q = want
    BY <1>1, <1>9 DEF Current, Paged
  <2>2. ~UnderWayIn(loads', l)
    BY <1>9 DEF Overtook
  <2>3. \A k \in {"early", "shrunk"} :
           Has(k, l) /\ (Beyond(q, r.total) \/ r.asOf # writes) => <<k, l>> \in excuses'
    BY <1>1, <1>2, ExcusesFacts DEF Has
  <2>4. Unexcused(l)' => Unexcused(l) \/ (~Beyond(q, r.total) /\ r.asOf = writes)
    BY <2>3 DEF Unexcused, Has
  <2>5. Hit(q) \in Nat
    BY HitsFinite
  <2>6. Unexcused(l)' => r.total <= Hit(q) /\ Fits(q, Hit(q)) /\ Fits(q, r.total)
    <3>1. ASSUME Unexcused(l) PROVE r.total <= Hit(q) /\ Fits(q, Hit(q)) /\ Fits(q, r.total)
      BY <1>6, <1>7, <1>9, <2>1, <2>2, <3>1 DEF Counted, PageRight
    <3>2. ASSUME ~Beyond(q, r.total), r.asOf = writes
          PROVE  r.total <= Hit(q) /\ Fits(q, Hit(q)) /\ Fits(q, r.total)
      <4>1. r.total = Hit(q)
        BY <1>6, <3>2 DEF Counted
      <4>2. r.total <= Hit(q)
        BY <2>5, <4>1
      <4>3. QED BY <3>2, <4>1, <4>2 DEF Fits
    <3>3. QED BY <2>4, <3>1, <3>2
  <2>7. Counted(l, q, r)'
    <3>1. Unexcused(l)' => r.total <= Hit(q)'
      BY <1>5, <2>6
    <3>2. r.asOf <= writes' /\ (r.asOf = writes' => r.total = Hit(q)')
      BY <1>2, <1>5, <1>6 DEF Counted
    <3>3. QED BY <3>1, <3>2 DEF Counted
  <2>8. \A s \in Screens : shown'[l] = s => Counted(l, s.query, s)'
    BY <1>4, <2>7 DEF Counted
  <2>9. Unexcused(l)' => \A w \in Queries : w = want' => Fits(w, Hit(w)')
    BY <1>2, <1>5, <2>1, <2>6
  <2>10. Fits(q, r.total) \/ SomeExcuse(l)'
    BY <2>6 DEF Unexcused, Has, SomeExcuse, Excusable
  <2>11. \A s \in Screens : shown'[l] = s => Fits(s.query, s.total) \/ SomeExcuse(l)'
    BY <1>4, <2>10
  <2>12. AwaitedIn(loads', l) = {}
    BY <2>2 DEF UnderWayIn, AwaitedIn, IsLast
  <2>13. QED BY <2>2, <2>8, <2>9, <2>11, <2>12 DEF PageRight, Awaited, UnderWayIn
<1>10. QED BY <1>2, <1>8, <1>9, ExcusesFacts

LEMMA PagesRightKept ==
    ASSUME Ground, PagesRight, [DashboardNext]_dashboardVars
    PROVE  PagesRight'
<1>0. Ground' /\ DashboardTypeOK /\ DashboardTypeOK' /\ OwnLists /\ OwnLists' /\ AnswersWhole
  BY GroundKept DEF Ground
<1> SUFFICES ASSUME NEW l \in Paged, l \in ListsOf(at') PROVE PageRight(l)'
  BY DEF PagesRight
<1>a. l \in Lists /\ l # "detail"
  BY DEF Paged, Lists, AllPages, Sections
<1>1. CASE NewPage
  <2>1. shown'[l] = Nothing /\ want' = Plain
    BY <1>0, <1>1, <1>a, NewPageFacts DEF Reset
  <2>2. \A s \in Screens : shown'[l] # s
    BY <2>1, NoValueAssumption
  <2>3. \A k \in DOMAIN loads' : loads'[k].reply = Nothing
    BY <1>0, <1>1, NewPageFacts
  <2>4. \A k \in DOMAIN loads', r \in Replies : loads'[k].reply # r
    BY <2>3, NoValueAssumption
  <2>5. \A q : q = Plain => q.page = 1
    BY DEF Plain
  <2>6. \A x \in AwaitedIn(loads', l) : x.query = Plain /\ x.reply = Nothing
    BY <1>0, <1>1, NewPageFacts
  <2>7. \A x \in AwaitedIn(loads', l) : x.query.page = 1 /\ ~Got(x)
    BY <2>5, <2>6 DEF Got
  <2>8. QED BY <2>1, <2>2, <2>4, <2>5, <2>7 DEF PageRight, Fits, Awaited
<1>2. CASE UserStep
  <2>1. UsualStep /\ at' = at /\ l \in ListsOf(at)
    BY <1>0, <1>2, UserStepsAreUsual DEF UsualStep
  <2>2. PageRight(l) /\ NoNewAnswers /\ (UNCHANGED <<rows, off, writes>> \/ Writes)
    BY <2>1 DEF PagesRight, UsualStep
  <2>3. Kept(l) \/ \E q \in Queries : Sent(l, q)
    BY <2>1 DEF UsualStep
  <2>4. QED BY <1>0, <2>1, <2>2, <2>3, PageKept, PageSent
<1>3. CASE \E i : Serve(i)
  <2>1. PICK i : Serve(i)
    BY <1>3
  <2>2. UNCHANGED <<at, rows, off, writes, want, shown, errors, excuses>>
    BY <2>1 DEF Serve, data
  <2>3. i \in DOMAIN loads /\ loads[i] \in Loads
    BY <1>0, <2>1, ServeFacts
  <2>4. PICK r \in {AnswerTo(loads[i].list, loads[i].query), Failed} : Answered(loads, i, r, loads')
    BY <1>0, <2>1, ServeFacts
  <2>5. l \in Paged \cap ListsOf(at) /\ PageRight(l)
    BY <2>2 DEF PagesRight
  <2>6. QED BY <1>0, <2>2, <2>3, <2>4, <2>5, PageServed
<1>4. CASE \E i : Applies(i)
  <2>1. PICK i : Applies(i)
    BY <1>4
  <2>2. i \in DOMAIN loads /\ Overtook(loads, i, loads') /\ loads[i] \in Loads
    BY <1>0, <2>1, AppliesFacts
  <2>3. UNCHANGED <<at, rows, off, writes, want, section>>
    BY <2>1 DEF Applies, Arrive, ArriveEntries, Break, data
  <2>4. l \in Paged \cap ListsOf(at) /\ PageRight(l)
    BY <2>3 DEF PagesRight
  <2>5. CASE loads[i].list # l
    <3>1. l # "history"
      BY DEF Paged
    <3>2. Kept(l)
      BY <1>0, <1>a, <2>1, <2>2, <2>3, <2>5, <3>1, ArrivalKeeps DEF Kept
    <3>3. NoNewAnswers
      BY <2>2 DEF Overtook, NoNewAnswers
    <3>4. QED BY <1>0, <2>3, <2>4, <3>2, <3>3, PageKept
  <2>6. CASE loads[i].list = l
    <3>1. ~ArriveEntries(i)
      BY <2>6 DEF ArriveEntries, Paged
    <3>2. QED BY <1>0, <2>1, <2>2, <2>4, <2>6, <3>1, PageArrived, PageBroken DEF Applies
  <2>7. QED BY <2>5, <2>6
<1>5. CASE UNCHANGED dashboardVars
  <2>1. l \in Paged \cap ListsOf(at) /\ PageRight(l)
    BY <1>5 DEF PagesRight, dashboardVars
  <2>2. Kept(l) /\ NoNewAnswers /\ UNCHANGED <<rows, off, writes>>
    BY <1>5 DEF Kept, Quiet, NoNewAnswers, dashboardVars
  <2>3. QED BY <1>0, <2>1, <2>2, PageKept
<1>6. QED BY <1>0, <1>1, <1>2, <1>3, <1>4, <1>5, StepKinds

-----------------------------------------------------------------------------
(* The passports are all loaded at once, and the pages are cut out of them  *)
(* in the browser.                                                          *)
PassportsPlain ==
    at = "passports" =>
       /\ \A k \in DOMAIN loads : loads[k].list = "passports" => loads[k].query = Plain
       /\ task # Nothing => task.query = Plain

LEMMA PassportsAsked ==
    ASSUME DashboardTypeOK, OwnLists, PassportsPlain, UserStep, at = "passports", NEW k \in DOMAIN loads'
    PROVE  \/ loads'[k].list = "passports" => loads'[k].query = Plain
           \/ \E j \in DOMAIN loads : loads'[k] = loads[j] \/ loads'[k] = MarkOld(loads[j])
<1>0. /\ loads \in Seq(Loads) /\ Len(loads) \in Nat /\ DOMAIN loads = 1..Len(loads)
      /\ \A j \in DOMAIN loads : loads[j] \in Loads
  BY LenProperties, ElementOfSeq DEF DashboardTypeOK
<1>1. CASE loads' = loads
  BY <1>1
<1>2. CASE Controls
  <2>1. CASE KeepsLoads
    BY <1>1, <2>1 DEF KeepsLoads
  <2>2. CASE \E l \in Lists : AsksFor(l)
    <3>1. PICK l \in Lists : AsksFor(l)
      BY <2>2
    <3>2. PICK q \in Queries : loads' = Append(loads, Load(l, q)) /\ (l = "passports" => q = Plain)
      BY <3>1 DEF AsksFor
    <3>3. Appended(loads, l, q, loads')
      BY <1>0, <3>2, LoadAppended
    <3>4. Load(l, q).list = l /\ Load(l, q).query = q
      BY NewLoad
    <3>5. QED BY <3>2, <3>3, <3>4 DEF Appended
  <2>3. QED BY <1>2, <2>1, <2>2, ControlsAsk
<1>3. CASE OpenHistory
  <2>1. PICK r \in RowsOn : loads' = Append(loads, Load("history", [Plain EXCEPT !.row = r]))
    BY <1>3 DEF OpenHistory, Ask
  <2>2. r \in Nat
    BY <1>3, RowsShown DEF OpenHistory, On, Body
  <2> DEFINE q == [Plain EXCEPT !.row = r]
  <2>3. q \in Queries /\ "history" \in Lists
    BY <2>2, PlainQuery DEF Lists
  <2>4. loads' = Append(loads, Load("history", q))
    BY <2>1
  <2> HIDE DEF q
  <2>5. Appended(loads, "history", q, loads') /\ Load("history", q).list = "history"
    BY <1>0, <2>3, <2>4, LoadAppended, NewLoad
  <2>6. QED BY <2>5 DEF Appended
<1>4. CASE Finish /\ task.step # "failed"
  <2> DEFINE m == [j \in DOMAIN loads |-> [loads[j] EXCEPT !.old = @ \/ loads[j].list = "detail"]]
  <2>1. /\ loads' = Append(m, Load("passports", task.query)) /\ task.query = Plain
        /\ task # Nothing
    BY <1>4 DEF Finish, Stage, Main, PassportsPlain
  <2>2. \A j \in DOMAIN loads : m[j] \in Loads /\ (m[j] = loads[j] \/ m[j] = MarkOld(loads[j]))
    <3>1. SUFFICES ASSUME NEW j \in DOMAIN loads
                   PROVE  m[j] \in Loads /\ (m[j] = loads[j] \/ m[j] = MarkOld(loads[j]))
      OBVIOUS
    <3>2. \A x \in Loads : [x EXCEPT !.old = x.old \/ x.list = "detail"] \in {x, MarkOld(x)}
      BY DEF Loads, MarkOld
    <3>3. m[j] = [loads[j] EXCEPT !.old = loads[j].old \/ loads[j].list = "detail"]
      OBVIOUS
    <3>4. QED BY <1>0, <3>2, <3>3, MarkedLoad
  <2>3. m \in Seq(Loads) /\ Len(m) = Len(loads)
    <3>1. m \in [1..Len(loads) -> Loads]
      BY <1>0, <2>2
    <3> HIDE DEF m
    <3>2. QED BY <1>0, <3>1, IsASeq, LenProperties
  <2>4. /\ Load("passports", Plain) \in Loads /\ ~Load("passports", Plain).old
        /\ Load("passports", Plain).query = Plain
    BY PlainQuery, NewLoad DEF Lists, AllPages
  <2> HIDE DEF m
  <2>5. Joined(loads, m, Load("passports", Plain), loads')
    <3>1. \A new \in Loads : ~new.old => Joined(loads, m, new, Append(m, new))
      BY <1>0, <2>2, <2>3, LoadSent
    <3>2. QED BY <2>1, <2>4, <3>1
  <2>6. QED BY <2>4, <2>5 DEF Joined
<1>5. QED
  <2>1. Refresh => FALSE
    BY DEF Refresh, On
  <2>2. ChooseRange => FALSE
    BY DEF ChooseRange, On
  <2>3. FilterPassports \/ CloseDialog \/ Click \/ Invite \/ Confirm \/ ServeTask \/ Colleague
           \/ (Finish /\ task.step = "failed") => loads' = loads
    BY DEF FilterPassports, CloseDialog, Click, Invite, Confirm, ServeTask, Colleague, Finish
  <2>4. QED BY <1>1, <1>2, <1>3, <1>4, <2>1, <2>2, <2>3 DEF UserStep

LEMMA PassportsPlainKept ==
    ASSUME Ground, PassportsPlain, [DashboardNext]_dashboardVars
    PROVE  PassportsPlain'
<1>0. Ground' /\ DashboardTypeOK /\ DashboardTypeOK' /\ OwnLists /\ OwnLists' /\ AnswersWhole
  BY GroundKept DEF Ground
<1>1. SUFFICES ASSUME at' = "passports"
               PROVE  /\ \A k \in DOMAIN loads' : loads'[k].list = "passports" => loads'[k].query = Plain
                      /\ task' # Nothing => task'.query = Plain
  BY DEF PassportsPlain
<1>2. \A j \in DOMAIN loads : loads[j] \in Loads
  BY <1>0, ElementOfSeq DEF DashboardTypeOK
<1>3. CASE NewPage
  BY <1>0, <1>3, NewPageFacts DEF Reset
<1>4. CASE UserStep
  <2>1. UsualStep /\ at = "passports"
    BY <1>0, <1>1, <1>4, UserStepsAreUsual DEF UsualStep
  <2>2. ASSUME NEW k \in DOMAIN loads', loads'[k].list = "passports" PROVE loads'[k].query = Plain
    <3>1. ASSUME NEW j \in DOMAIN loads, loads'[k] = loads[j] \/ loads'[k] = MarkOld(loads[j])
          PROVE  loads'[k].query = Plain
      <4>1. loads[j].list = "passports" /\ loads'[k].query = loads[j].query
        BY <1>2, <2>2, <3>1, MarkedLoad
      <4>2. QED BY <2>1, <4>1 DEF PassportsPlain
    <3>2. QED BY <1>0, <1>4, <2>1, <2>2, <3>1, PassportsAsked
  <2>3. task' # Nothing => task'.query = Plain
    BY <2>1 DEF UsualStep, PassportsPlain, Reload
  <2>4. QED BY <2>2, <2>3
<1>5. CASE \E i : Serve(i)
  <2>1. PICK i : Serve(i)
    BY <1>5
  <2>2. UNCHANGED <<at, task>>
    BY <2>1 DEF Serve, data
  <2>3. i \in DOMAIN loads
    BY <1>0, <2>1, ServeFacts
  <2>4. PICK r : Answered(loads, i, r, loads')
    BY <1>0, <2>1, ServeFacts
  <2>5. \A k \in DOMAIN loads' : k \in DOMAIN loads /\ loads'[k].list = loads[k].list
                                 /\ loads'[k].query = loads[k].query
    BY <2>4 DEF Answered
  <2>6. QED BY <1>1, <2>2, <2>5 DEF PassportsPlain
<1>6. CASE \E i : Applies(i)
  <2>1. PICK i : Applies(i)
    BY <1>6
  <2>2. UNCHANGED <<at, task>>
    BY <2>1 DEF Applies, Arrive, ArriveEntries, Break, data
  <2>3. Overtook(loads, i, loads')
    BY <1>0, <2>1, AppliesFacts
  <2>4. ASSUME NEW k \in DOMAIN loads'
        PROVE  \E j \in DOMAIN loads : loads'[k].list = loads[j].list /\ loads'[k].query = loads[j].query
    <3>1. PICK j \in DOMAIN loads : loads'[k] = loads[j] \/ loads'[k] = MarkOld(loads[j])
      BY <2>3 DEF Overtook
    <3>2. QED BY <1>2, <3>1, MarkedLoad
  <2>5. QED BY <1>1, <2>2, <2>4 DEF PassportsPlain
<1>7. CASE UNCHANGED dashboardVars
  BY <1>1, <1>7 DEF PassportsPlain, dashboardVars
<1>8. QED BY <1>0, <1>3, <1>4, <1>5, <1>6, <1>7, StepKinds

Left(q, S, o) == {x \in S : q.filter => x \notin o}
CutFits(q, S, o) == Fits(q, Cardinality(Left(q, S, o)))

Shows(q, r) ==
    /\ r.asOf <= writes
    /\ r.asOf = writes => r.ids = rows /\ r.off = off
    /\ IsFiniteSet(r.ids)
    /\ Unexcused("passports") => CutFits(q, r.ids, r.off)

PassportsRight ==
    at = "passports" =>
       \A q \in Queries : q = want =>
          /\ \A r \in Replies :
                (\E i \in DOMAIN loads : loads[i].list = "passports" /\ loads[i].reply = r) => Shows(q, r)
          /\ \A s \in Screens : shown["passports"] = s => Shows(q, s)
          /\ Unexcused("passports") => CutFits(q, rows, off)

LEMMA CutFitsMore ==
    ASSUME NEW q \in Queries, NEW S, NEW T, NEW o, S \subseteq T, IsFiniteSet(T), CutFits(q, S, o)
    PROVE  CutFits(q, T, o)
<1> DEFINE A == Left(q, S, o)
           B == Left(q, T, o)
<1>1. A \subseteq B /\ B \subseteq T
  BY DEF Left
<1> HIDE DEF A, B
<1>2. IsFiniteSet(B)
  BY <1>1, FS_Subset
<1>3. IsFiniteSet(A) /\ Cardinality(A) <= Cardinality(B)
  BY <1>1, <1>2, FS_Subset
<1>4. Cardinality(A) \in Nat /\ Cardinality(B) \in Nat
  BY <1>2, <1>3, FS_CardinalityType
<1>5. QED BY <1>3, <1>4, FitsMore DEF CutFits, A, B

(* Whatever happens but a filter, a page or an answer.                      *)
LEMMA PassportsStay ==
    ASSUME DashboardTypeOK, DashboardTypeOK', PassportsRight, at = "passports", want' = want,
           Unexcused("passports")' => Unexcused("passports"), NoNewAnswers,
           UNCHANGED <<rows, off, writes>> \/ Writes,
           \A q \in Queries, s \in Screens : q = want /\ shown'["passports"] = s => Shows(q, s)
    PROVE  PassportsRight'
<1>1. /\ writes \in Nat /\ IsFiniteSet(rows) /\ IsFiniteSet(rows')
  <2>1. writes \in Nat /\ IsFiniteSet(rows)
    BY HitsFinite, DashboardAssumption DEF DashboardTypeOK
  <2>2. rows' \subseteq Stamps
    BY DEF DashboardTypeOK
  <2>3. QED BY <2>1, <2>2, StampsFinite, FS_Subset
<1>2. SUFFICES ASSUME NEW q \in Queries, q = want
               PROVE  /\ \A r \in Replies :
                            (\E i \in DOMAIN loads' : loads'[i].list = "passports" /\ loads'[i].reply = r)
                               => Shows(q, r)'
                      /\ \A s \in Screens : shown'["passports"] = s => Shows(q, s)'
                      /\ Unexcused("passports")' => CutFits(q, rows', off')
  BY DEF PassportsRight, CutFits, Left
<1>3. ASSUME NEW r, r.asOf \in Nat, Shows(q, r)
      PROVE  Shows(q, r)'
  <2>1. Unexcused("passports")' => CutFits(q, r.ids, r.off)
    BY <1>3 DEF Shows
  <2>2. r.asOf <= writes' /\ (r.asOf = writes' => r.ids = rows' /\ r.off = off')
    <3>1. CASE UNCHANGED <<rows, off, writes>>
      BY <1>3, <3>1 DEF Shows
    <3>2. CASE writes' = writes + 1
      <4>1. r.asOf <= writes' /\ r.asOf # writes'
        BY <1>1, <1>3, <3>2 DEF Shows
      <4>2. QED BY <4>1
    <3>3. QED BY <3>1, <3>2 DEF Writes
  <2>3. IsFiniteSet(r.ids)
    BY <1>3 DEF Shows
  <2>4. QED BY <2>1, <2>2, <2>3 DEF Shows, CutFits, Left
<1>4. ASSUME NEW r \in Replies, NEW i \in DOMAIN loads', loads'[i].list = "passports", loads'[i].reply = r
      PROVE  Shows(q, r)'
  <2>1. PICK j \in DOMAIN loads : loads'[i] = loads[j] \/ loads'[i] = MarkOld(loads[j])
    BY <1>4, NoValueAssumption DEF NoNewAnswers
  <2>2. loads[j] \in Loads
    BY ElementOfSeq DEF DashboardTypeOK
  <2>3. loads[j].list = "passports" /\ loads[j].reply = r
    BY <1>4, <2>1, <2>2, MarkedLoad
  <2>4. Shows(q, r)
    BY <1>2, <2>3 DEF PassportsRight
  <2>5. QED BY <1>3, <2>4 DEF Replies
<1>5. ASSUME NEW s \in Screens, shown'["passports"] = s PROVE Shows(q, s)'
  BY <1>2, <1>3, <1>5 DEF Screens
<1>6. ASSUME Unexcused("passports")' PROVE CutFits(q, rows', off')
  <2>1. CutFits(q, rows, off)
    BY <1>2, <1>6 DEF PassportsRight
  <2>2. CASE UNCHANGED <<rows, off, writes>>
    BY <2>1, <2>2
  <2>3. CASE rows \subseteq rows' /\ off' = off
    BY <1>1, <2>1, <2>3, CutFitsMore
  <2>4. CASE excuses' = excuses \cup {<<"shrunk", Main(at)>>}
    BY <1>6, <2>4 DEF Unexcused, Has, Main
  <2>5. QED BY <2>2, <2>3, <2>4 DEF Writes
<1>7. QED BY <1>4, <1>5, <1>6

LEMMA PassportsFiltered ==
    ASSUME DashboardTypeOK, DashboardTypeOK', OwnLists, PassportsRight, FilterPassports
    PROVE  PassportsRight'
<1>1. /\ at = "passports" /\ at' = at
      /\ UNCHANGED <<rows, off, writes, shown, loads>>
      /\ want \in Queries /\ want.page \in Nat \ {0}
  BY DEF FilterPassports, On, controls, DashboardTypeOK, Queries
<1>2. CASE /\ want' = [want EXCEPT !.filter = ~@, !.page = 1]
           /\ excuses' = excuses \ {<<"early", "passports">>, <<"shrunk", "passports">>}
  <2>1. want'.page = 1
    BY <1>1, <1>2 DEF Queries
  <2>2. ASSUME NEW q \in Queries, q = want', NEW S, NEW o PROVE CutFits(q, S, o)
    BY <2>1, <2>2 DEF CutFits, Fits
  <2>3. ASSUME NEW q \in Queries, q = want', NEW r,
               r.asOf <= writes /\ (r.asOf = writes => r.ids = rows /\ r.off = off) /\ IsFiniteSet(r.ids)
        PROVE  Shows(q, r)'
    <3>1. CutFits(q, r.ids, r.off)
      BY <2>2, <2>3
    <3>2. QED BY <1>1, <2>3, <3>1 DEF Shows, CutFits, Left
  <2>4. ASSUME NEW r \in Replies, \E i \in DOMAIN loads : loads[i].list = "passports" /\ loads[i].reply = r
        PROVE  r.asOf <= writes /\ (r.asOf = writes => r.ids = rows /\ r.off = off) /\ IsFiniteSet(r.ids)
    BY <1>1, <2>4 DEF PassportsRight, Shows
  <2>5. ASSUME NEW s \in Screens, shown["passports"] = s
        PROVE  s.asOf <= writes /\ (s.asOf = writes => s.ids = rows /\ s.off = off) /\ IsFiniteSet(s.ids)
    BY <1>1, <2>5 DEF PassportsRight, Shows
  <2>6. \A q \in Queries : q = want' => CutFits(q, rows', off')
    BY <2>2
  <2>7. QED BY <1>1, <2>3, <2>4, <2>5, <2>6 DEF PassportsRight, CutFits, Left
<1>3. CASE /\ shown["passports"] # Nothing
           /\ \E n \in 1..NumPages(Cardinality(Filtered)) : want' = [want EXCEPT !.page = n]
           /\ excuses' = IF shown["passports"].asOf = writes /\ ~UnderWay("passports") THEN excuses
                         ELSE excuses \cup {<<"early", "passports">>}
  <2>0. UNCHANGED <<rows, off, writes, shown, loads, at>>
    BY <1>1
  <2>a. \A r \in Replies, q \in Queries : Shows(q, r)' <=>
            /\ r.asOf <= writes /\ (r.asOf = writes => r.ids = rows /\ r.off = off) /\ IsFiniteSet(r.ids)
            /\ Unexcused("passports")' => CutFits(q, r.ids, r.off)
    BY <2>0 DEF Shows, CutFits, Left
  <2>b. \A r \in Screens, q \in Queries : Shows(q, r)' <=>
            /\ r.asOf <= writes /\ (r.asOf = writes => r.ids = rows /\ r.off = off) /\ IsFiniteSet(r.ids)
            /\ Unexcused("passports")' => CutFits(q, r.ids, r.off)
    BY <2>0 DEF Shows, CutFits, Left
  <2>4. ASSUME NEW r \in Replies, \E i \in DOMAIN loads : loads[i].list = "passports" /\ loads[i].reply = r
        PROVE  r.asOf <= writes /\ (r.asOf = writes => r.ids = rows /\ r.off = off) /\ IsFiniteSet(r.ids)
    BY <1>1, <2>4 DEF PassportsRight, Shows
  <2>5. ASSUME NEW s \in Screens, shown["passports"] = s
        PROVE  s.asOf <= writes /\ (s.asOf = writes => s.ids = rows /\ s.off = off) /\ IsFiniteSet(s.ids)
    BY <1>1, <2>5 DEF PassportsRight, Shows
  <2>6. CASE ~(shown["passports"].asOf = writes /\ ~UnderWay("passports"))
    <3>1. ~Unexcused("passports")'
      BY <1>3, <2>6 DEF Unexcused, Has
    <3>2. QED BY <2>0, <2>a, <2>b, <2>4, <2>5, <3>1 DEF PassportsRight
  <2>7. CASE shown["passports"].asOf = writes /\ ~UnderWay("passports")
    <3>1. PICK n \in 1..NumPages(Cardinality(Filtered)) : want' = [want EXCEPT !.page = n]
      BY <1>3
    <3>2. PICK s \in Screens : shown["passports"] = s
      BY <1>3 DEF DashboardTypeOK, Lists, AllPages
    <3>3. s.ids = rows /\ s.off = off
      BY <2>5, <2>7, <3>2
    <3>4. Filtered = Left(want, rows, off)
      BY <3>2, <3>3 DEF Filtered, Left
    <3>5. ASSUME NEW q \in Queries, q = want' PROVE CutFits(q, rows, off)
      <4>1. q.filter = want.filter /\ q.page = n
        BY <1>1, <3>1, <3>5 DEF Queries
      <4>2. Left(q, rows, off) = Left(want, rows, off)
        BY <4>1 DEF Left
      <4>3. Cardinality(Left(q, rows, off)) \in Nat
        <5>1. IsFiniteSet(rows)
          BY HitsFinite
        <5>2. Left(q, rows, off) \subseteq rows
          BY DEF Left
        <5>3. IsFiniteSet(Left(q, rows, off))
          BY <5>1, <5>2, FS_Subset
        <5>4. QED BY <5>3, FS_CardinalityType
      <4> DEFINE c == Cardinality(Left(q, rows, off))
      <4>4. c \in Nat /\ n \in 1..NumPages(c)
        BY <3>1, <3>4, <4>2, <4>3
      <4> HIDE DEF c
      <4>5. NumPages(c) \in Nat
        BY <4>4, MoreRowsMorePages
      <4>6. ~(n > NumPages(c))
        BY <4>4, <4>5
      <4>7. QED BY <4>1, <4>6 DEF CutFits, Fits, Beyond, c
    <3>6. \A q \in Queries : q = want' => Shows(q, s)'
      BY <2>b, <2>5, <3>2, <3>3, <3>5
    <3>7. \A k \in DOMAIN loads : loads[k].list # "passports"
      BY <2>7 DEF UnderWay
    <3>8. \A q \in Queries : q = want' => CutFits(q, rows', off')
      BY <2>0, <3>5
    <3>9. QED BY <2>0, <3>2, <3>6, <3>7, <3>8 DEF PassportsRight, CutFits, Left
  <2>8. QED BY <2>6, <2>7
<1>4. QED BY <1>2, <1>3 DEF FilterPassports

LEMMA PassportsServed ==
    ASSUME DashboardTypeOK, OwnLists, AnswersWhole, PassportsPlain, PassportsRight, at = "passports",
           NEW i, Serve(i)
    PROVE  PassportsRight'
<1>1. /\ UNCHANGED <<at, rows, off, writes, want, shown, excuses>>
      /\ i \in DOMAIN loads /\ loads[i] \in Loads
  BY ServeFacts DEF Serve, data
<1>2. PICK r \in {AnswerTo(loads[i].list, loads[i].query), Failed} : Answered(loads, i, r, loads')
  BY ServeFacts
<1>3. \A q, a : Shows(q, a)' <=> Shows(q, a)
  BY <1>1 DEF Shows, Unexcused, Has, CutFits, Left
<1>4. SUFFICES ASSUME NEW q \in Queries, q = want
               PROVE  /\ \A a \in Replies :
                            (\E k \in DOMAIN loads' : loads'[k].list = "passports" /\ loads'[k].reply = a)
                               => Shows(q, a)
                      /\ \A s \in Screens : shown["passports"] = s => Shows(q, s)
                      /\ Unexcused("passports") => CutFits(q, rows, off)
  <2>1. Unexcused("passports")' <=> Unexcused("passports")
    BY <1>1 DEF Unexcused, Has
  <2>2. \A q \in Queries : CutFits(q, rows, off)' <=> CutFits(q, rows, off)
    BY <1>1 DEF CutFits, Left
  <2>3. QED BY <1>1, <1>3, <2>1, <2>2 DEF PassportsRight
<1>5. ASSUME NEW a \in Replies, NEW k \in DOMAIN loads', loads'[k].list = "passports", loads'[k].reply = a
      PROVE  Shows(q, a)
  <2>1. CASE k = i
    <3>1. a = r /\ loads[i].list = "passports"
      BY <1>1, <1>2, <1>5, <2>1 DEF Answered
    <3>2. a = AnswerTo("passports", Plain)
      BY <1>1, <1>5, <3>1, NoValueAssumption DEF PassportsPlain
    <3>3. a.asOf = writes /\ a.ids = rows /\ a.off = off
      BY <3>2, AnswerFacts, PlainQuery DEF Lists, AllPages
    <3>4. writes \in Nat
      BY DashboardAssumption DEF DashboardTypeOK
    <3>5. Unexcused("passports") => CutFits(q, rows, off)
      BY <1>4 DEF PassportsRight
    <3>6. IsFiniteSet(rows)
      BY HitsFinite
    <3>7. QED BY <3>3, <3>4, <3>5, <3>6 DEF Shows
  <2>2. CASE k # i
    <3>1. k \in DOMAIN loads /\ loads[k].list = "passports" /\ loads[k].reply = a
      BY <1>2, <1>5, <2>2 DEF Answered
    <3>2. QED BY <1>4, <3>1 DEF PassportsRight
  <2>3. QED BY <2>1, <2>2
<1>6. QED BY <1>4, <1>5 DEF PassportsRight

LEMMA PassportsRightKept ==
    ASSUME Ground, PassportsPlain, PassportsRight, [DashboardNext]_dashboardVars
    PROVE  PassportsRight'
<1>0. Ground' /\ DashboardTypeOK /\ DashboardTypeOK' /\ OwnLists /\ OwnLists' /\ AnswersWhole
  BY GroundKept DEF Ground
<1>1. CASE at' # "passports"
  BY <1>1 DEF PassportsRight
<1>2. CASE at' = "passports" /\ NewPage
  <2>1. shown'["passports"] = Nothing /\ want' = Plain
    BY <1>0, <1>2, NewPageFacts DEF Reset, Lists, AllPages
  <2>2. \A s \in Screens : shown'["passports"] # s
    BY <2>1, NoValueAssumption
  <2>3. \A k \in DOMAIN loads' : loads'[k].reply = Nothing
    BY <1>0, <1>2, NewPageFacts
  <2>4. \A k \in DOMAIN loads', r \in Replies : loads'[k].reply # r
    BY <2>3, NoValueAssumption
  <2>5. \A q \in Queries : q = want' => CutFits(q, rows', off')
    BY <2>1, PlainQuery DEF CutFits, Fits
  <2>6. QED BY <2>2, <2>4, <2>5 DEF PassportsRight, CutFits, Left
<1>3. CASE at' = "passports" /\ UserStep /\ ~FilterPassports
  <2>1. UsualStep /\ at = "passports"
    BY <1>0, <1>3, UserStepsAreUsual DEF UsualStep
  <2>2. want' = want /\ excuses \subseteq excuses'
    BY <1>3, <2>1 DEF UsualStep
  <2>3. Unexcused("passports")' => Unexcused("passports")
    BY <2>2 DEF Unexcused, Has
  <2>4. shown'["passports"] = shown["passports"]
    <3>1. "passports" \in ListsOf(at)
      BY <2>1 DEF ListsOf
    <3>2. QED BY <2>1, <3>1 DEF UsualStep, Kept, Sent
  <2>5. \A q \in Queries, s \in Screens : q = want /\ shown'["passports"] = s => Shows(q, s)
    BY <2>1, <2>4 DEF PassportsRight
  <2>6. NoNewAnswers /\ (UNCHANGED <<rows, off, writes>> \/ Writes)
    BY <2>1 DEF UsualStep
  <2>7. QED BY <1>0, <2>1, <2>2, <2>3, <2>5, <2>6, PassportsStay
<1>4. CASE FilterPassports
  BY <1>0, <1>4, PassportsFiltered
<1>5. CASE at' = "passports" /\ \E i : Serve(i)
  <2>1. PICK i : Serve(i)
    BY <1>5
  <2>2. at = "passports"
    BY <1>5, <2>1 DEF Serve, data
  <2>3. QED BY <1>0, <2>1, <2>2, PassportsServed
<1>6. CASE at' = "passports" /\ \E i : Applies(i)
  <2>1. PICK i : Applies(i)
    BY <1>6
  <2>2. i \in DOMAIN loads /\ Overtook(loads, i, loads') /\ loads[i] \in Loads
    BY <1>0, <2>1, AppliesFacts
  <2>3. at = "passports" /\ UNCHANGED <<at, rows, off, writes, want>>
    BY <1>6, <2>1 DEF Applies, Arrive, ArriveEntries, Break, data
  <2>4. NoNewAnswers
    BY <2>2 DEF Overtook, NoNewAnswers
  <2>5. "passports" \in Lists
    BY DEF Lists, AllPages
  <2>6. Unexcused("passports")' => Unexcused("passports")
    <3>1. \A k \in {"early", "shrunk"} : <<k, "passports">> \in excuses => <<k, "passports">> \in excuses'
      <4>1. CASE Break(i)
        BY <4>1 DEF Break, WithExcuse
      <4>2. CASE excuses' = Excuses(i)
        BY <1>0, <2>2, <2>5, <4>2, ExcusesFacts DEF Excusable
      <4>3. QED BY <2>1, <4>1, <4>2 DEF Applies, Arrive, ArriveEntries
    <3>2. QED BY <3>1 DEF Unexcused, Has
  <2>7. ASSUME NEW q \in Queries, NEW s \in Screens, q = want, shown'["passports"] = s
        PROVE  Shows(q, s)
    <3>1. CASE shown'["passports"] = shown["passports"]
      BY <2>3, <2>7, <3>1 DEF PassportsRight
    <3>2. CASE Arrive(i) /\ loads[i].list = "passports"
      <4>1. PICK r \in Replies : loads[i].reply = r
        BY <2>2, <3>2 DEF Arrive, Loads
      <4>2. shown'["passports"] = OnScreen(loads[i].query, r)
        BY <1>0, <2>5, <3>2, <4>1 DEF Arrive, DashboardTypeOK
      <4>3. s.ids = r.ids /\ s.off = r.off /\ s.asOf = r.asOf
        BY <2>7, <4>2 DEF OnScreen
      <4>4. Shows(q, r)
        BY <2>2, <2>3, <2>7, <3>2, <4>1 DEF PassportsRight
      <4>5. QED BY <4>3, <4>4 DEF Shows
    <3>3. QED
      <4>1. CASE loads[i].list # "passports"
        BY <1>0, <2>1, <2>2, <2>5, <3>1, <4>1, ArrivalKeeps
      <4>2. CASE loads[i].list = "passports"
        <5>1. ArriveEntries(i) \/ Break(i) => shown' = shown
          BY DEF ArriveEntries, Break
        <5>2. QED BY <2>1, <3>1, <3>2, <4>2, <5>1 DEF Applies
      <4>3. QED BY <4>1, <4>2
  <2>8. QED BY <1>0, <2>3, <2>4, <2>6, <2>7, PassportsStay
<1>7. CASE at' = "passports" /\ UNCHANGED dashboardVars
  <2>1. at = "passports" /\ UNCHANGED <<rows, off, writes, want, shown, loads, excuses>>
    BY <1>7 DEF dashboardVars
  <2>2. NoNewAnswers /\ (Unexcused("passports")' => Unexcused("passports"))
    BY <2>1 DEF NoNewAnswers, Unexcused, Has
  <2>3. QED BY <1>0, <2>1, <2>2, PassportsStay DEF PassportsRight
<1>8. QED BY <1>0, <1>1, <1>2, <1>3, <1>4, <1>5, <1>6, <1>7, StepKinds

-----------------------------------------------------------------------------
ScreenInv ==
    /\ Ground /\ QueriesRight /\ AnswersFresh /\ HistoryRight
    /\ PagesRight /\ PassportsPlain /\ PassportsRight

LEMMA ScreenInvInitially ==
    DashboardInit => ScreenInv
<1>1. SUFFICES ASSUME DashboardInit PROVE ScreenInv
  OBVIOUS
<1>2. /\ at = "none" /\ loads = <<>> /\ shown = [l \in Lists |-> Nothing] /\ dialog = 0
      /\ task = Nothing /\ DOMAIN <<>> = {}
  BY <1>1 DEF DashboardInit
<1>3. \A l \in Lists : Awaited(l) = {} /\ ~Visible(l)
  BY <1>2 DEF Awaited, AwaitedIn, Visible
<1>4. QueriesRight
  BY <1>3 DEF QueriesRight, QueryRight, Driven, Lists, AllPages, Sections
<1>5. AnswersFresh
  BY <1>2, <1>3 DEF AnswersFresh, DetailRight, FreshRight, MainLists, Lists, AllPages, Sections
<1>6. HistoryRight /\ PagesRight /\ PassportsPlain /\ PassportsRight
  BY <1>2 DEF HistoryRight, PagesRight, ListsOf, PassportsPlain, PassportsRight
<1>7. QED BY <1>1, <1>4, <1>5, <1>6, GroundInitially DEF ScreenInv

LEMMA ScreenInvKept ==
    ScreenInv /\ [DashboardNext]_dashboardVars => ScreenInv'
BY GroundKept, QueriesRightKept, AnswersFreshKept, HistoryRightKept, PagesRightKept,
   PassportsPlainKept, PassportsRightKept DEF ScreenInv

LEMMA NoSuchPage ==
    ASSUME NEW q \in Queries, NEW n \in Nat, Fits(q, n), Beyond(q, n)
    PROVE  n = 0
<1>1. q.page = 1
  BY DEF Fits
<1>2. NumPages(n) \in Nat /\ (n >= 1 => NumPages(n) >= 1)
  BY MoreRowsMorePages
<1>3. 1 > NumPages(n)
  BY <1>1 DEF Beyond
<1>4. QED BY <1>2, <1>3

LEMMA ScreenFollows ==
    ScreenInv => ScreenAnswersControls
<1> SUFFICES ASSUME ScreenInv PROVE ScreenAnswersControls
  OBVIOUS
<1>0. /\ DashboardTypeOK /\ OwnLists /\ QueriesRight /\ AnswersFresh /\ HistoryRight
      /\ PagesRight /\ PassportsPlain /\ PassportsRight
  BY DEF ScreenInv, Ground
<1>1. SUFFICES ASSUME Rest
      PROVE
       /\ \A l \in Driven :
             Visible(l) => shown[l].query = want \/ Excused(l) \/ (l = "audit" /\ section # l)
       /\ \A l \in MainLists : Visible(l) => shown[l].asOf >= since \/ Excused(l)
       /\ dialog # 0 /\ at = "admin" => shown["detail"].asOf >= since \/ Excused("detail")
       /\ dialog # 0 /\ at = "passports" /\ Visible("history") =>
             shown["history"].query.row = dialog \/ Excused("history")
       /\ \A l \in Paged :
             Visible(l) /\ Beyond(shown[l].query, shown[l].total) =>
                shown[l].total = 0 \/ \E e \in excuses : e[2] = l
       /\ at = "passports" /\ Visible("passports") =>
             \/ ~Beyond(want, Cardinality(Filtered)) \/ Filtered = {}
             \/ \E e \in excuses : e[2] = "passports" /\ e[1] \in {"early", "shrunk"}
  BY <1>0 DEF ScreenAnswersControls, Driven, MainLists, Paged
<1>2. loads = <<>> /\ task = Nothing /\ \A l : ~UnderWayIn(loads, l)
  BY <1>1 DEF Rest, UnderWayIn
<1>3. ~Served
  BY <1>2 DEF Served
<1>4. \A k, l : <<k, l>>[1] = k /\ <<k, l>>[2] = l
  OBVIOUS
<1>5. \A l \in Driven :
         Visible(l) => shown[l].query = want \/ Excused(l) \/ (l = "audit" /\ section # l)
  BY <1>0, <1>2 DEF QueriesRight, QueryRight, Elsewhere
<1>6. \A l \in MainLists : Visible(l) => shown[l].asOf >= since \/ Excused(l)
  BY <1>0, <1>2, <1>3 DEF AnswersFresh, FreshRight
<1>7. dialog # 0 /\ at = "admin" => shown["detail"].asOf >= since \/ Excused("detail")
  BY <1>0, <1>3 DEF AnswersFresh, DetailRight
<1>8. dialog # 0 /\ at = "passports" /\ Visible("history") =>
         shown["history"].query.row = dialog \/ Excused("history")
  BY <1>0, <1>2 DEF HistoryRight
<1>9. ASSUME NEW l \in Paged, Visible(l), Beyond(shown[l].query, shown[l].total)
      PROVE  shown[l].total = 0 \/ \E e \in excuses : e[2] = l
  <2>1. l \in Lists
    BY DEF Paged, Lists, AllPages, Sections
  <2>2. l \in ListsOf(at)
    BY <1>0, <1>9, <2>1 DEF OwnLists, Visible
  <2>3. PICK s \in Screens : shown[l] = s
    BY <1>0, <1>9, <2>1 DEF DashboardTypeOK, Visible
  <2>4. Fits(s.query, s.total) \/ SomeExcuse(l)
    BY <1>0, <1>2, <1>9, <2>2, <2>3 DEF PagesRight, PageRight
  <2>5. SomeExcuse(l) => \E e \in excuses : e[2] = l
    BY <1>4 DEF SomeExcuse
  <2>6. Fits(s.query, s.total) => s.total = 0
    BY <1>9, <2>3, NoSuchPage DEF Screens
  <2>7. QED BY <2>3, <2>4, <2>5, <2>6
<1>10. ASSUME at = "passports", Visible("passports"), Beyond(want, Cardinality(Filtered)),
              ~\E e \in excuses : e[2] = "passports" /\ e[1] \in {"early", "shrunk"}
       PROVE  Filtered = {}
  <2>1. PICK s \in Screens : shown["passports"] = s
    BY <1>0, <1>10 DEF DashboardTypeOK, Visible, Lists, AllPages
  <2>2. want \in Queries
    BY <1>0 DEF DashboardTypeOK
  <2>3. Unexcused("passports")
    BY <1>4, <1>10 DEF Unexcused, Has
  <2>4. Shows(want, s)
    BY <1>0, <1>10, <2>1, <2>2 DEF PassportsRight
  <2>5. Filtered = Left(want, s.ids, s.off) /\ Filtered \subseteq s.ids
    BY <2>1 DEF Filtered, Left
  <2>6. IsFiniteSet(Filtered) /\ Fits(want, Cardinality(Filtered))
    BY <2>3, <2>4, <2>5, FS_Subset DEF Shows, CutFits
  <2>7. Cardinality(Filtered) \in Nat
    BY <2>6, FS_CardinalityType
  <2>8. Cardinality(Filtered) = 0
    BY <1>10, <2>2, <2>6, <2>7, NoSuchPage
  <2>9. QED BY <2>6, <2>8, FS_EmptySet
<1>11. QED BY <1>5, <1>6, <1>7, <1>8, <1>9, <1>10

(* A page at rest shows what its controls ask for, on a page that there is, *)
(* and the history of the open passport, not older than its last operation, *)
(* or one of the code's own gaps is to blame: ScreenAnswersControls, for    *)
(* any number of rows, loads and writes.                                    *)
THEOREM ScreenAlwaysAnswersControls == DashboardSpec => []ScreenAnswersControls
<1>1. DashboardInit => ScreenInv
  BY ScreenInvInitially
<1>2. ScreenInv /\ [DashboardNext]_dashboardVars => ScreenInv'
  BY ScreenInvKept
<1>3. ScreenInv => ScreenAnswersControls
  BY ScreenFollows
<1>4. QED BY <1>1, <1>2, <1>3, PTL DEF DashboardSpec

-----------------------------------------------------------------------------
(* The entries of the activity page: each answer is a stretch of the log,   *)
(* and the answers on the screen are stretches that join.                   *)
AllOf(E) == UNION {E[i] : i \in DOMAIN E}

Part(q, ids, R, H) ==
    /\ ids \subseteq R
    /\ q.row # 0 => \A x \in ids : x < q.row
    /\ \A x \in ids, h \in H :
          x <= h /\ (IF q.row = 0 THEN \E s \in ids : h <= s ELSE h < q.row) => h \in ids

Fine(E, R, H, c) ==
    /\ AllOf(E) \subseteq R
    /\ \A i, j \in DOMAIN E : i < j => \A r \in E[i], s \in E[j] : s < r
    /\ \A r, s \in AllOf(E) : r..s \cap H \subseteq AllOf(E)
    /\ c # 0 => c \in AllOf(E) /\ \A r \in AllOf(E) : c <= r

(* A new row that counts is above all of them.                              *)
LEMMA PartAdded ==
    ASSUME NEW R \in SUBSET Nat, NEW n \in Nat, NEW H, NEW G, G \subseteq H \cup {n},
           NEW q \in Queries, NEW ids, Part(q, ids, R, H),
           n \in G => q.row <= n /\ \A x \in ids : x < n
    PROVE  Part(q, ids, R \cup {n}, G)
<1>1. ids \subseteq R /\ (q.row # 0 => \A x \in ids : x < q.row)
  BY DEF Part
<1>2. ASSUME NEW x \in ids, NEW h \in G, x <= h,
             IF q.row = 0 THEN \E s \in ids : h <= s ELSE h < q.row
      PROVE  h \in ids
  <2>1. h # n
    <3>1. ASSUME h = n PROVE FALSE
      <4>1. \A s \in ids : s \in Nat /\ s < n
        BY <1>1, <1>2, <3>1
      <4>2. \A s \in ids : ~(n <= s)
        BY <4>1
      <4>3. q.row \in Nat /\ ~(n < q.row)
        BY <1>2, <3>1 DEF Queries
      <4>4. QED BY <1>2, <3>1, <4>2, <4>3
    <3>2. QED BY <3>1
  <2>2. h \in H
    BY <1>2, <2>1
  <2>3. QED BY <1>2, <2>2 DEF Part
<1>3. QED BY <1>1, <1>2 DEF Part

LEMMA FineAdded ==
    ASSUME NEW R \in SUBSET Nat, NEW n \in Nat, NEW H, NEW G, G \subseteq H \cup {n},
           NEW E, NEW c, Fine(E, R, H, c), n \in G => \A x \in AllOf(E) : x < n
    PROVE  Fine(E, R \cup {n}, G, c)
<1>1. AllOf(E) \subseteq R
  BY DEF Fine
<1>2. ASSUME NEW r \in AllOf(E), NEW s \in AllOf(E), NEW h \in r..s, h \in G PROVE h \in AllOf(E)
  <2>1. s \in Nat /\ r \in Nat
    BY <1>1
  <2>2. h # n
    <3>1. ASSUME h = n PROVE FALSE
      <4>1. s < n
        BY <1>2, <3>1
      <4>2. QED BY <1>2, <2>1, <3>1, <4>1
    <3>2. QED BY <3>1
  <2>3. h \in H
    BY <1>2, <2>2
  <2>4. QED BY <1>2, <2>3 DEF Fine
<1>3. QED BY <1>1, <1>2 DEF Fine

LEMMA FineFirst ==
    ASSUME NEW R \in SUBSET Nat, NEW H, NEW q \in Queries, q.row = 0,
           NEW ids, Part(q, ids, R, H), NEW c, c = 0 \/ (c \in ids /\ \A x \in ids : c <= x)
    PROVE  Fine(<<ids>>, R, H, c)
<1> DEFINE E == <<ids>>
<1>1. DOMAIN E = {1} /\ E[1] = ids
  OBVIOUS
<1>2. AllOf(E) = ids
  BY <1>1 DEF AllOf
<1>3. \A i, j \in DOMAIN E : ~(i < j)
  BY <1>1
<1>4. ASSUME NEW r \in ids, NEW s \in ids, NEW h \in r..s, h \in H PROVE h \in ids
  <2>1. r \in Nat /\ s \in Nat
    BY DEF Part
  <2>2. r <= h /\ h <= s
    BY <2>1
  <2>3. QED BY <1>4, <2>2 DEF Part
<1>5. ids \subseteq R
  BY DEF Part
<1> HIDE DEF E
<1>6. Fine(E, R, H, c)
  BY <1>2, <1>3, <1>4, <1>5 DEF Fine
<1>7. QED BY <1>6 DEF E

LEMMA FineMore ==
    ASSUME NEW R \in SUBSET Nat, NEW H, NEW q \in Queries, q.row # 0,
           NEW ids \in SUBSET Nat, Part(q, ids, R, H),
           NEW E \in Seq(SUBSET Nat), Fine(E, R, H, q.row),
           NEW c, c = 0 \/ (c \in ids /\ \A x \in ids : c <= x)
    PROVE  Fine(Append(E, ids), R, H, c)
<1> DEFINE F == Append(E, ids)
           b == q.row
<1>1. /\ Len(E) \in Nat /\ DOMAIN E = 1..Len(E)
      /\ DOMAIN F = 1..(Len(E) + 1) /\ F[Len(E) + 1] = ids
      /\ \A i \in DOMAIN E : F[i] = E[i]
  BY AppendProperties, LenProperties
<1>2. AllOf(F) = AllOf(E) \cup ids
  <2> HIDE DEF F
  <2>1. \A i \in DOMAIN F : i \in DOMAIN E \/ i = Len(E) + 1
    BY <1>1
  <2>2. Len(E) + 1 \in DOMAIN F /\ \A i \in DOMAIN E : i \in DOMAIN F
    BY <1>1
  <2>3. QED BY <1>1, <2>1, <2>2 DEF AllOf
<1>3. /\ AllOf(E) \subseteq R /\ ids \subseteq R /\ b \in AllOf(E) /\ b \in Nat
      /\ \A r \in AllOf(E) : b <= r
      /\ \A x \in ids : x < b
  BY DEF Fine, Part, Queries
<1>4. \A r \in AllOf(E), x \in ids : x < r
  <2>1. SUFFICES ASSUME NEW r \in AllOf(E), NEW x \in ids PROVE x < r
    OBVIOUS
  <2>2. r \in Nat /\ x \in Nat /\ b <= r /\ x < b
    BY <1>3
  <2>3. QED BY <1>3, <2>2
<1>5. ASSUME NEW i \in DOMAIN F, NEW j \in DOMAIN F, i < j, NEW r \in F[i], NEW s \in F[j]
      PROVE  s < r
  <2>1. i \in DOMAIN E
    BY <1>1, <1>5
  <2>2. r \in E[i] /\ r \in AllOf(E)
    BY <1>1, <1>5, <2>1 DEF AllOf
  <2>3. CASE j \in DOMAIN E
    BY <1>1, <1>5, <2>1, <2>2, <2>3 DEF Fine
  <2>4. CASE j = Len(E) + 1
    BY <1>1, <1>4, <1>5, <2>2, <2>4
  <2>5. QED BY <1>1, <2>3, <2>4
<1>6. ASSUME NEW r \in AllOf(E) \cup ids, NEW s \in AllOf(E) \cup ids, NEW h \in r..s, h \in H
      PROVE  h \in AllOf(E) \cup ids
  <2>1. r \in Nat /\ s \in Nat /\ h \in Int /\ r <= h /\ h <= s
    <3>1. r \in R /\ s \in R
      BY <1>3
    <3>2. r \in Nat /\ s \in Nat
      BY <3>1
    <3>3. QED BY <3>2
  <2>2. CASE h >= b
    <3>1. s \notin ids
      <4>1. ASSUME s \in ids PROVE FALSE
        <5>1. s < b
          BY <1>3, <4>1
        <5>2. QED BY <1>3, <2>1, <2>2, <5>1
      <4>2. QED BY <4>1
    <3>2. s \in AllOf(E) /\ h \in b..s
      BY <1>3, <2>1, <2>2, <3>1
    <3>3. QED BY <1>3, <1>6, <3>2 DEF Fine
  <2>3. CASE h < b
    <3>1. r \in ids
      <4>1. ASSUME r \in AllOf(E) PROVE FALSE
        <5>1. b <= r
          BY <1>3, <4>1
        <5>2. QED BY <1>3, <2>1, <2>3, <5>1
      <4>2. QED BY <4>1
    <3>2. QED BY <1>6, <2>1, <2>3, <3>1 DEF Part
  <2>4. QED BY <1>3, <2>1, <2>2, <2>3
<1>7. ASSUME c # 0
      PROVE  c \in AllOf(E) \cup ids /\ \A r \in AllOf(E) \cup ids : c <= r
  <2>1. c \in ids /\ \A x \in ids : c <= x
    BY <1>7
  <2>2. ASSUME NEW r \in AllOf(E) PROVE c <= r
    <3>1. c < r /\ c \in Nat /\ r \in Nat
      BY <1>3, <1>4, <2>1
    <3>2. QED BY <3>1
  <2>3. QED BY <2>1, <2>2
<1> HIDE DEF F
<1>8. Fine(F, R, H, c)
  BY <1>2, <1>3, <1>5, <1>6, <1>7 DEF Fine
<1>9. QED BY <1>8 DEF F

RangeOvertaken == Has("overtaken", "activity")

(* The entries that have to be shown.                                       *)
Due(q) == Hits(q) \ belated

PartsRight ==
    /\ \A q \in Queries, r \in Replies, k \in DOMAIN loads :
          loads[k].query = q /\ loads[k].reply = r
             => r.ids \subseteq rows /\ (loads[k].old \/ Part(q, r.ids, rows, Due(q)))
    /\ \A k \in DOMAIN loads :
          /\ loads[k].old \/ (loads[k].query.filter = want.filter /\ ~loads[k].query.term)
          /\ loads[k].query.row # 0 => loads[k].query.row \in rows
    /\ cursor # 0 => cursor \in rows

(* One load may still change the entries: the first one, or the next.       *)
Unbroken ==
    ~RangeOvertaken =>
       /\ OneLeft(loads)
       /\ \A k \in DOMAIN loads :
             loads[k].old \/ IF loads[k].query.row = 0 THEN entries = Nothing
                             ELSE loads[k].query.row = cursor /\ busy
       /\ \A E \in Seq(SUBSET Nat), q \in Queries :
             entries = E /\ q = want => Fine(E, rows, Due(q), cursor)

EntriesRight == at = "activity" => PartsRight /\ Unbroken

LEMMA ActivitySteps ==
    ASSUME DashboardTypeOK, OwnLists, UserStep, at = "activity"
    PROVE  \/ UNCHANGED <<rows, off, want, loads, busy, entries, cursor, excuses, belated>>
           \/ AsksFor("activity")
           \/ ChooseRange
           \/ Add /\ UNCHANGED <<want, loads, busy, entries, cursor>>
<1>1. task = Nothing /\ dialog = 0 /\ Stage = "none"
  BY DEF OwnLists, Stage
<1>2. CASE Controls
  <2>1. CASE KeepsLoads
    BY <2>1 DEF KeepsLoads, Untouched, data
  <2>2. CASE \E l \in Lists : AsksFor(l)
    <3>1. PICK l \in Lists : AsksFor(l)
      BY <2>2
    <3>2. l = "activity"
      BY <3>1 DEF AsksFor, ListsOf
    <3>3. QED BY <3>1, <3>2
  <2>3. QED BY <1>2, <2>1, <2>2, ControlsAsk
<1>3. CASE Colleague
  <2>1. Add /\ UNCHANGED <<taskVars, loads, busy>>
    BY <1>3, OneMoreWriteIsUsual DEF OneMoreWrite
  <2>2. QED BY <2>1 DEF taskVars
<1>4. ~Refresh /\ ~FilterPassports /\ ~OpenHistory /\ ~CloseDialog /\ ~Click /\ ~Invite
      /\ ~Confirm /\ ~ServeTask /\ ~Finish
  BY <1>1 DEF Refresh, FilterPassports, OpenHistory, CloseDialog, Click, Invite, Confirm, ServeTask,
              Finish, On
<1>5. QED BY <1>2, <1>3, <1>4 DEF UserStep

LEMMA ActivityLoads ==
    ASSUME DashboardTypeOK, OwnLists, at = "activity", NEW i \in DOMAIN loads
    PROVE  loads[i].list = "activity"
BY DEF OwnLists, ListsOf

LEMMA EntriesAdded ==
    ASSUME DashboardTypeOK, OwnLists, at = "activity", EntriesRight, Add,
           UNCHANGED <<at, want, loads, busy, entries, cursor>>
    PROVE  EntriesRight'
<1>1. PICK n \in Stamps \ rows :
         /\ rows' = rows \cup {n}
         /\ belated' = IF \E s \in Read : n < s THEN belated \cup {n} ELSE belated
  BY DEF Add
<1>2. off' = off /\ excuses' = excuses /\ rows \in SUBSET Nat /\ n \in Nat
  BY HitsFinite, StampsFinite DEF Add
<1>3. \A q : Due(q)' \subseteq Due(q) \cup {n} /\ (n \in Due(q)' => ~\E s \in Read : n < s)
  BY <1>1, <1>2 DEF Due, Hits
<1>4. PartsRight /\ Unbroken
  BY DEF EntriesRight
<1>5. ASSUME NEW q \in Queries, NEW r \in Replies, NEW k \in DOMAIN loads,
             loads[k].query = q, loads[k].reply = r
      PROVE  r.ids \subseteq rows' /\ (loads[k].old \/ Part(q, r.ids, rows \cup {n}, Due(q)'))
  <2>1. r.ids \subseteq rows /\ (loads[k].old \/ Part(q, r.ids, rows, Due(q)))
    BY <1>4, <1>5 DEF PartsRight
  <2>2. r.ids \subseteq Read /\ q.row \in Read
    <3>1. k \in {j \in DOMAIN loads : loads[j].reply \notin {Nothing, Failed}}
      BY <1>5, NoValueAssumption
    <3>2. \A x \in r.ids :
             x \in UNION {loads[i].reply.ids : i \in {j \in DOMAIN loads : loads[j].reply \notin {Nothing, Failed}}}
      BY <1>5, <3>1
    <3>3. q.row \in {loads[i].query.row : i \in DOMAIN loads}
      BY <1>5
    <3> DEFINE R == UNION {loads[i].reply.ids :
                              i \in {j \in DOMAIN loads : loads[j].reply \notin {Nothing, Failed}}}
               C == {loads[i].query.row : i \in DOMAIN loads}
    <3>4. R \subseteq Read /\ C \subseteq Read
      BY DEF Read
    <3> HIDE DEF R, C
    <3>5. r.ids \subseteq R /\ q.row \in C
      BY <3>2, <3>3 DEF R, C
    <3>6. QED BY <3>4, <3>5
  <2>3. ASSUME n \in Due(q)' PROVE q.row <= n /\ \A x \in r.ids : x < n
    <3>1. \A s \in Read : ~(n < s)
      BY <1>3, <2>3
    <3>2. q.row \in Nat
      BY DEF Queries
    <3>3. \A x \in r.ids : x \in Nat /\ x # n
      BY <1>1, <1>2, <2>1
    <3>4. QED BY <1>2, <2>2, <3>1, <3>2, <3>3
  <2>4. QED BY <1>1, <1>2, <1>3, <2>1, <2>3, PartAdded
<1>6. PartsRight'
  <2>1. \A q \in Queries, r \in Replies, k \in DOMAIN loads' :
          loads'[k].query = q /\ loads'[k].reply = r
             => r.ids \subseteq rows' /\ (loads'[k].old \/ Part(q, r.ids, rows', Due(q)'))
    BY <1>1, <1>5
  <2>2. \A k \in DOMAIN loads' :
          /\ loads'[k].old \/ (loads'[k].query.filter = want'.filter /\ ~loads'[k].query.term)
          /\ loads'[k].query.row # 0 => loads'[k].query.row \in rows'
    BY <1>1, <1>4 DEF PartsRight
  <2>3. cursor' # 0 => cursor' \in rows'
    BY <1>1, <1>4 DEF PartsRight
  <2>4. QED BY <2>1, <2>2, <2>3 DEF PartsRight
<1>7. Unbroken'
  <2>1. SUFFICES ASSUME ~RangeOvertaken'
                 PROVE  /\ OneLeft(loads')
                        /\ \A k \in DOMAIN loads' :
                              loads'[k].old \/ IF loads'[k].query.row = 0 THEN entries' = Nothing
                                               ELSE loads'[k].query.row = cursor' /\ busy'
                        /\ \A E \in Seq(SUBSET Nat), q \in Queries :
                              entries' = E /\ q = want' => Fine(E, rows', Due(q)', cursor')
    BY DEF Unbroken
  <2>2. ~RangeOvertaken
    BY <1>2, <2>1 DEF RangeOvertaken, Has
  <2>3. OneLeft(loads')
    BY <1>4, <2>2 DEF Unbroken
  <2>4. \A k \in DOMAIN loads' :
           loads'[k].old \/ IF loads'[k].query.row = 0 THEN entries' = Nothing
                            ELSE loads'[k].query.row = cursor' /\ busy'
    BY <1>4, <2>2 DEF Unbroken
  <2>5. ASSUME NEW E \in Seq(SUBSET Nat), NEW q \in Queries, entries = E, q = want
        PROVE  Fine(E, rows \cup {n}, Due(q)', cursor)
    <3>1. Fine(E, rows, Due(q), cursor)
      BY <1>4, <2>2, <2>5 DEF Unbroken
    <3>2. AllOf(E) \subseteq Read
      BY <2>5, NoValueAssumption DEF Read, AllOf
    <3>3. ASSUME n \in Due(q)' PROVE \A x \in AllOf(E) : x < n
      <4>1. \A s \in Read : ~(n < s)
        BY <1>3, <3>3
      <4>2. \A x \in AllOf(E) : x \in Nat /\ x # n
        BY <1>1, <1>2, <3>1 DEF Fine
      <4>3. QED BY <1>2, <3>2, <4>1, <4>2
    <3>4. QED BY <1>2, <1>3, <3>1, <3>3, FineAdded
  <2>6. QED BY <1>1, <2>3, <2>4, <2>5
<1>8. QED BY <1>6, <1>7 DEF EntriesRight

(* What load x of afterwards has to fulfil.                                 *)
Joins(x) ==
    /\ x.old \/ (x.query.filter = want'.filter /\ ~x.query.term)
    /\ x.query.row # 0 => x.query.row \in rows
    /\ \A q \in Queries, r \in Replies :
          x.query = q /\ x.reply = r => r.ids \subseteq rows /\ (x.old \/ Part(q, r.ids, rows, Due(q)'))

LEMMA PartsKept ==
    ASSUME DashboardTypeOK, PartsRight, UNCHANGED <<rows, off>>, cursor' # 0 => cursor' \in rows,
           \A k \in DOMAIN loads' :
              \/ \E j \in DOMAIN loads : loads'[k] = MarkOld(loads[j])
              \/ \E j \in DOMAIN loads : loads'[k] = loads[j] /\ UNCHANGED <<want, belated>>
              \/ Joins(loads'[k])
    PROVE  PartsRight'
<1>1. \A j \in DOMAIN loads : loads[j] \in Loads
  BY ElementOfSeq DEF DashboardTypeOK
<1>2. ASSUME NEW k \in DOMAIN loads' PROVE Joins(loads'[k])
  <2>1. ASSUME NEW j \in DOMAIN loads, loads'[k] = MarkOld(loads[j])
        PROVE  Joins(loads'[k])
    <3>1. loads'[k].query = loads[j].query /\ loads'[k].reply = loads[j].reply /\ loads'[k].old
      BY <1>1, <2>1, MarkedLoad
    <3>2. QED BY <3>1 DEF PartsRight, Joins
  <2>2. ASSUME NEW j \in DOMAIN loads, loads'[k] = loads[j], UNCHANGED <<want, belated>>
        PROVE  Joins(loads'[k])
    <3>1. \A q : Due(q)' = Due(q)
      BY <2>2 DEF Due, Hits
    <3>2. QED BY <2>2, <3>1 DEF PartsRight, Joins
  <2>3. QED BY <2>1, <2>2
<1>3. QED BY <1>2 DEF PartsRight, Joins

LEMMA EntriesSent ==
    ASSUME DashboardTypeOK, OwnLists, at = "activity", EntriesRight, AsksFor("activity")
    PROVE  EntriesRight'
<1>0. "activity" \in Lists /\ loads \in Seq(Loads) /\ want \in Queries /\ ~want.term
      /\ cursor \in Nat
  BY DEF Lists, AllPages, DashboardTypeOK, OwnLists
<1>1. PICK q \in Queries : loads' = Append(loads, Load("activity", q)) /\ q = [want EXCEPT !.row = cursor]
  BY DEF AsksFor
<1>2. /\ UNCHANGED <<at, rows, off, want, entries, cursor, excuses, belated>>
      /\ cursor # 0 /\ ~busy /\ busy'
  BY DEF AsksFor, Untouched, Driven, Paged, data
<1>3. q.filter = want.filter /\ ~q.term /\ q.row = cursor
  BY <1>0, <1>1 DEF Queries
<1>4. PartsRight /\ Unbroken
  BY DEF EntriesRight
<1> DEFINE x == Load("activity", q)
<1>5. x.query = q /\ x.reply = Nothing /\ ~x.old
  BY <1>0, NewLoad
<1> HIDE DEF x
<1>6. /\ Len(loads) \in Nat /\ DOMAIN loads = 1..Len(loads) /\ DOMAIN loads' = 1..(Len(loads) + 1)
      /\ loads'[Len(loads) + 1] = x
      /\ \A k \in DOMAIN loads : loads'[k] = loads[k]
  BY <1>0, <1>1, AppendProperties, LenProperties DEF x
<1>7. PartsRight'
  <2>1. cursor \in rows
    BY <1>2, <1>4 DEF PartsRight
  <2>2. ASSUME NEW k \in DOMAIN loads'
        PROVE  \/ \E j \in DOMAIN loads : loads'[k] = loads[j] /\ UNCHANGED <<want, belated>>
               \/ Joins(loads'[k])
    <3>1. CASE k \in DOMAIN loads
      BY <1>2, <1>6, <3>1
    <3>2. CASE k = Len(loads) + 1
      <4>1. loads'[k] = x /\ \A r \in Replies : x.reply # r
        BY <1>5, <1>6, <3>2, NoValueAssumption
      <4>2. QED BY <1>2, <1>3, <1>5, <2>1, <4>1 DEF Joins
    <3>3. QED BY <1>6, <2>2, <3>1, <3>2
  <2>3. QED BY <1>2, <1>4, <2>1, <2>2, PartsKept
<1>8. Unbroken'
  <2>1. SUFFICES ASSUME ~RangeOvertaken'
                 PROVE  /\ OneLeft(loads')
                        /\ \A k \in DOMAIN loads' :
                              loads'[k].old \/ IF loads'[k].query.row = 0 THEN entries' = Nothing
                                               ELSE loads'[k].query.row = cursor' /\ busy'
                        /\ \A E \in Seq(SUBSET Nat), p \in Queries :
                              entries' = E /\ p = want' => Fine(E, rows', Due(p)', cursor')
    BY DEF Unbroken
  <2>2. ~RangeOvertaken
    BY <1>2, <2>1 DEF RangeOvertaken, Has
  <2>3. \A k \in DOMAIN loads : loads[k].old
    BY <1>2, <1>4, <2>2 DEF Unbroken, OwnLists
  <2>4. OneLeft(loads')
    BY <1>6, <2>3 DEF OneLeft
  <2>5. ASSUME NEW k \in DOMAIN loads', ~loads'[k].old
        PROVE  loads'[k].query.row = cursor /\ cursor # 0
    BY <1>2, <1>3, <1>5, <1>6, <2>3, <2>5
  <2>6. ASSUME NEW E \in Seq(SUBSET Nat), NEW p \in Queries, entries = E, p = want
        PROVE  Fine(E, rows', Due(p)', cursor')
    <3>1. Due(p)' = Due(p)
      BY <1>2 DEF Due, Hits
    <3>2. Fine(E, rows, Due(p), cursor)
      BY <1>4, <2>2, <2>6 DEF Unbroken
    <3>3. QED BY <1>2, <3>1, <3>2
  <2>7. QED BY <1>2, <2>4, <2>5, <2>6
<1>9. QED BY <1>7, <1>8 DEF EntriesRight

LEMMA EntriesRestarted ==
    ASSUME DashboardTypeOK, DashboardTypeOK', OwnLists, OwnLists', EntriesRight, ChooseRange
    PROVE  EntriesRight'
<1>1. /\ at = "activity" /\ entries' = Nothing /\ cursor' = 0
      /\ UNCHANGED <<at, rows, off>>
      /\ want' \in Queries /\ want'.row = 0 /\ ~want'.term
  BY DEF ChooseRange, On, data, DashboardTypeOK, OwnLists
<1>2. /\ OneLeft(loads')
      /\ \A k \in DOMAIN loads' :
            loads'[k] = Load("activity", want') \/ (k \in DOMAIN loads /\ loads'[k] = MarkOld(loads[k]))
  BY ChooseRangeIsUsual
<1> DEFINE x == Load("activity", want')
<1>3. x.query = want' /\ x.reply = Nothing
  BY <1>1, NewLoad DEF Lists, AllPages
<1> HIDE DEF x
<1>4. \A k \in DOMAIN loads' : loads'[k] = x \/ (k \in DOMAIN loads /\ loads'[k] = MarkOld(loads[k]))
  BY <1>2 DEF x
<1>5. PartsRight'
  <2>1. \A r \in Replies : x.reply # r
    BY <1>3, NoValueAssumption
  <2>2. PartsRight
    BY <1>1 DEF EntriesRight
  <2>3. ASSUME NEW k \in DOMAIN loads'
        PROVE  \/ \E j \in DOMAIN loads : loads'[k] = MarkOld(loads[j])
               \/ Joins(loads'[k])
    <3>1. CASE loads'[k] = x
      BY <1>1, <1>3, <2>1, <3>1 DEF Joins
    <3>2. QED BY <1>4, <3>1
  <2>4. QED BY <1>1, <2>2, <2>3, PartsKept
<1>6. Unbroken'
  <2>1. \A k \in DOMAIN loads' : loads'[k].old \/ loads'[k].query.row = 0
    <3>1. \A j \in DOMAIN loads : loads[j] \in Loads
      BY ElementOfSeq DEF DashboardTypeOK
    <3>2. QED BY <1>1, <1>3, <1>4, <3>1, MarkedLoad
  <2>2. \A E \in Seq(SUBSET Nat) : entries' # E
    BY <1>1, NoValueAssumption
  <2>3. SUFFICES ASSUME ~RangeOvertaken'
                 PROVE  /\ OneLeft(loads')
                        /\ \A k \in DOMAIN loads' :
                              loads'[k].old \/ IF loads'[k].query.row = 0 THEN entries' = Nothing
                                               ELSE loads'[k].query.row = cursor' /\ busy'
                        /\ \A E \in Seq(SUBSET Nat), p \in Queries :
                              entries' = E /\ p = want' => Fine(E, rows', Due(p)', cursor')
    BY DEF Unbroken
  <2>4. QED BY <1>1, <1>2, <2>1, <2>2
<1>7. QED BY <1>5, <1>6 DEF EntriesRight

LEMMA EntriesServed ==
    ASSUME DashboardTypeOK, OwnLists, AnswersWhole, at = "activity", EntriesRight, NEW i, Serve(i)
    PROVE  EntriesRight'
<1>1. /\ UNCHANGED <<at, rows, off, want, entries, cursor, busy, excuses, belated>>
      /\ i \in DOMAIN loads /\ loads[i] \in Loads
  BY ServeFacts DEF Serve, data
<1>2. PICK r \in {AnswerTo(loads[i].list, loads[i].query), Failed} : Answered(loads, i, r, loads')
  BY ServeFacts
<1>3. PartsRight /\ Unbroken
  BY DEF EntriesRight
<1>4. /\ DOMAIN loads' = DOMAIN loads
      /\ \A k \in DOMAIN loads : k # i => loads'[k] = loads[k]
      /\ \A k \in DOMAIN loads : loads'[k].query = loads[k].query /\ loads'[k].old = loads[k].old
      /\ loads'[i].reply = r
  <2>1. /\ DOMAIN loads' = DOMAIN loads
        /\ \A k \in DOMAIN loads : k # i => loads'[k] = loads[k]
        /\ loads'[i].query = loads[i].query /\ loads'[i].old = loads[i].old
        /\ loads'[i].reply = r
    BY <1>2 DEF Answered
  <2>2. QED BY <2>1
<1>5. ASSUME NEW q \in Queries, NEW a \in Replies, loads[i].query = q, r = a
      PROVE  a.ids \subseteq rows /\ Part(q, a.ids, rows, Due(q))
  <2> DEFINE S == Older(Hits(q), q.row)
  <2>1. a = AnswerTo("activity", q)
    BY <1>1, <1>5, ActivityLoads, NoValueAssumption
  <2>2. a.ids = Slice(S, 1)
    BY <2>1, AnswerFacts DEF Lists, AllPages
  <2>3. S \subseteq Hits(q) /\ Hits(q) \subseteq rows /\ (q.row # 0 => \A s \in S : s < q.row)
    BY HitsFinite DEF Older
  <2>4. IsFiniteSet(Hits(q)) /\ rows \subseteq Nat
    BY HitsFinite
  <2>5. \A h \in Hits(q) : (q.row = 0 \/ h < q.row) => h \in S
    BY DEF Older
  <2> HIDE DEF S
  <2>6. Slice(S, 1) \subseteq S /\ \A x \in Slice(S, 1), s \in S : x <= s => s \in Slice(S, 1)
    <3>1. 1 \in Nat \ {0}
      OBVIOUS
    <3>2. IsFiniteSet(S) /\ S \subseteq Nat
      BY <2>3, <2>4, FS_Subset
    <3>3. QED BY <3>1, <3>2, SliceFacts
  <2>7. QED BY <2>2, <2>3, <2>5, <2>6 DEF Part, Due
<1>7. \A q : Due(q)' = Due(q)
  BY <1>1 DEF Due, Hits
<1>6. PartsRight'
  <2>1. ASSUME NEW k \in DOMAIN loads'
        PROVE  \/ \E j \in DOMAIN loads : loads'[k] = loads[j] /\ UNCHANGED <<want, belated>>
               \/ Joins(loads'[k])
    <3>1. CASE k = i
      BY <1>1, <1>3, <1>4, <1>5, <1>7, <3>1 DEF PartsRight, Joins
    <3>2. CASE k # i
      BY <1>1, <1>4, <3>2
    <3>3. QED BY <3>1, <3>2
  <2>2. cursor' # 0 => cursor' \in rows
    BY <1>1, <1>3 DEF PartsRight
  <2>3. QED BY <1>1, <1>3, <2>1, <2>2, PartsKept
<1>8. Unbroken'
  <2>1. RangeOvertaken' <=> RangeOvertaken
    BY <1>1 DEF RangeOvertaken, Has
  <2>3. OneLeft(loads) => OneLeft(loads')
    BY <1>4 DEF OneLeft
  <2>4. QED BY <1>1, <1>3, <1>4, <1>7, <2>1, <2>3 DEF Unbroken
<1>9. QED BY <1>6, <1>8 DEF EntriesRight

LEMMA EntriesApplied ==
    ASSUME DashboardTypeOK, DashboardTypeOK', OwnLists, AnswersWhole, at = "activity", EntriesRight,
           NEW i, Applies(i)
    PROVE  EntriesRight'
<1>1. /\ i \in DOMAIN loads /\ loads[i] \in Loads /\ Overtook(loads, i, loads')
      /\ loads[i].list = "activity"
      /\ UNCHANGED <<at, rows, off, want, belated>>
      /\ "activity" \in Lists
  BY AppliesFacts, ActivityLoads DEF Applies, Arrive, ArriveEntries, Break, data, Lists, AllPages
<1>2. ~Arrive(i)
  BY <1>1 DEF Arrive
<1>3. PartsRight /\ Unbroken
  BY DEF EntriesRight
<1>4. \A k \in DOMAIN loads' : \E j \in DOMAIN loads \ {i} :
         loads'[k] = loads[j] \/ loads'[k] = MarkOld(loads[j])
  BY <1>1 DEF Overtook
<1>5. \A q : Due(q)' = Due(q)
  BY <1>1 DEF Due, Hits
<1>6. loads[i].old => RangeOvertaken'
  <2>1. CASE Break(i)
    BY <1>1, <2>1 DEF Break, WithExcuse, RangeOvertaken, Has
  <2>2. CASE ArriveEntries(i)
    <3>1. excuses' = Excuses(i)
      BY <2>2 DEF ArriveEntries
    <3>2. QED BY <1>1, <3>1, ExcusesFacts DEF RangeOvertaken, Has
  <2>3. QED BY <1>2, <2>1, <2>2 DEF Applies
<1>7. OneLeft(loads) /\ ~RangeOvertaken' => OneLeft(loads') /\ \A k \in DOMAIN loads' : loads'[k].old
  BY <1>1, <1>6 DEF Overtook
<1>8. CASE Break(i)
  <2>1. UNCHANGED <<entries, cursor>> /\ (RangeOvertaken => RangeOvertaken')
    BY <1>8 DEF Break, WithExcuse, RangeOvertaken, Has
  <2>2. PartsRight'
    <3>1. cursor' # 0 => cursor' \in rows
      BY <1>3, <2>1 DEF PartsRight
    <3>2. QED BY <1>1, <1>3, <1>4, <3>1, PartsKept
  <2>3. Unbroken'
    <3>1. SUFFICES ASSUME ~RangeOvertaken'
                   PROVE  /\ OneLeft(loads')
                          /\ \A k \in DOMAIN loads' :
                                loads'[k].old \/ IF loads'[k].query.row = 0 THEN entries' = Nothing
                                                 ELSE loads'[k].query.row = cursor' /\ busy'
                          /\ \A E \in Seq(SUBSET Nat), p \in Queries :
                                entries' = E /\ p = want' => Fine(E, rows', Due(p)', cursor')
      BY DEF Unbroken
    <3>2. ~RangeOvertaken
      BY <2>1, <3>1
    <3>3. OneLeft(loads') /\ \A k \in DOMAIN loads' : loads'[k].old
      BY <1>3, <1>7, <3>1, <3>2 DEF Unbroken
    <3>4. ASSUME NEW E \in Seq(SUBSET Nat), NEW p \in Queries, entries = E, p = want
          PROVE  Fine(E, rows', Due(p)', cursor')
      <4>1. Fine(E, rows, Due(p), cursor)
        BY <1>3, <3>2, <3>4 DEF Unbroken
      <4>2. QED BY <1>1, <1>5, <2>1, <4>1
    <3>5. QED BY <1>1, <2>1, <3>3, <3>4
  <2>4. QED BY <2>2, <2>3 DEF EntriesRight
<1>9. CASE ArriveEntries(i)
  <2>1. PICK q \in Queries, a \in Replies : loads[i].query = q /\ loads[i].reply = a /\ Got(loads[i])
    BY <1>1, <1>9 DEF ArriveEntries, Loads, Got
  <2>2. /\ entries' = IF q.row # 0 /\ entries # Nothing THEN Append(entries, a.ids) ELSE <<a.ids>>
        /\ cursor' = IF a.total > PageSize
                     THEN CHOOSE r \in a.ids : \A s \in a.ids : r <= s ELSE 0
        /\ excuses' = Excuses(i)
    BY <1>9, <2>1 DEF ArriveEntries
  <2>3. /\ a.ids \subseteq rows /\ (loads[i].old \/ Part(q, a.ids, rows, Due(q))) /\ a.ids \subseteq Nat /\ rows \subseteq Nat
        /\ IsFiniteSet(a.ids) /\ (a.total > PageSize => a.ids # {})
    <3>1. a.ids \subseteq rows /\ (loads[i].old \/ Part(q, a.ids, rows, Due(q)))
      BY <1>1, <1>3, <2>1 DEF PartsRight
    <3>2. IsFiniteSet(a.ids) /\ (a.total > PageSize => a.ids # {})
      BY <1>1, <2>1 DEF AnswersWhole
    <3>3. a.ids \subseteq Nat
      BY DEF Replies
    <3>4. QED BY <3>1, <3>2, <3>3, HitsFinite
  <2>4. cursor' = 0 \/ (cursor' \in a.ids /\ \A x \in a.ids : cursor' <= x)
    <3>1. CASE a.total > PageSize
      <4>1. \E r \in a.ids : \A s \in a.ids : r <= s
        BY <2>3, <3>1, LeastExists
      <4>2. QED BY <2>2, <3>1, <4>1
    <3>2. CASE ~(a.total > PageSize)
      BY <2>2, <3>2
    <3>3. QED BY <3>1, <3>2
  <2>6. PartsRight'
    <3>1. cursor' # 0 => cursor' \in rows
      BY <2>3, <2>4
    <3>2. QED BY <1>1, <1>3, <1>4, <3>1, PartsKept
  <2>7. Unbroken'
    <3>1. SUFFICES ASSUME ~RangeOvertaken'
                   PROVE  /\ OneLeft(loads')
                          /\ \A k \in DOMAIN loads' : loads'[k].old
                          /\ \A p \in Queries : p = want => Fine(entries', rows, Due(p), cursor')
      <4>1. ASSUME OneLeft(loads'), \A k \in DOMAIN loads' : loads'[k].old,
                   \A p \in Queries : p = want => Fine(entries', rows, Due(p), cursor')
            PROVE  /\ OneLeft(loads')
                   /\ \A k \in DOMAIN loads' :
                         loads'[k].old \/ IF loads'[k].query.row = 0 THEN entries' = Nothing
                                          ELSE loads'[k].query.row = cursor' /\ busy'
                   /\ \A E \in Seq(SUBSET Nat), p \in Queries :
                         entries' = E /\ p = want' => Fine(E, rows', Due(p)', cursor')
        BY <1>1, <1>5, <4>1
      <4>2. QED BY <4>1 DEF Unbroken
    <3>2. ~loads[i].old /\ q.filter = want.filter /\ ~q.term /\ ~want.term
      BY <1>1, <1>3, <1>6, <2>1, <3>1 DEF PartsRight, OwnLists
    <3>3. \A p \in Queries : p = want => Due(p) = Due(q)
      BY <3>2 DEF Due, Hits
    <3>4. CASE q.row = 0 /\ entries' = <<a.ids>>
      <4>1. Fine(<<a.ids>>, rows, Due(q), cursor')
        BY <2>3, <2>4, <3>2, <3>4, FineFirst
      <4>2. OneLeft(loads') /\ \A k \in DOMAIN loads' : loads'[k].old
        <5>1. CASE ~RangeOvertaken
          BY <1>3, <1>7, <3>1, <5>1 DEF Unbroken
        <5>2. CASE Alone(loads, i)
          <6>1. ~UnderWayIn(loads', "activity")
            BY <1>1, <5>2 DEF Overtook
          <6>2. \A j \in DOMAIN loads : loads[j] \in Loads /\ loads[j].list = "activity"
            BY ActivityLoads, ElementOfSeq DEF DashboardTypeOK
          <6>3. \A k \in DOMAIN loads' : loads'[k].list = "activity"
            BY <1>4, <6>2, MarkedLoad
          <6>4. \A k \in DOMAIN loads' : FALSE
            BY <6>1, <6>3 DEF UnderWayIn
          <6>5. QED BY <6>4 DEF OneLeft
        <5>3. QED
          <6>1. excuses \subseteq excuses' \/ Alone(loads, i)
            BY <1>1, <2>2, ExcusesFacts
          <6>2. QED BY <3>1, <5>1, <5>2, <6>1 DEF RangeOvertaken, Has
      <4>3. QED BY <3>3, <3>4, <4>1, <4>2
    <3>5. CASE q.row # 0
      <4>1. ~RangeOvertaken
        <5>1. excuses \subseteq excuses' \/ Current(i)
          BY <1>1, <2>2, ExcusesFacts
        <5>2. ~Current(i)
          BY <1>1, <2>1, <3>5 DEF Current
        <5>3. QED BY <3>1, <5>1, <5>2 DEF RangeOvertaken, Has
      <4>2. OneLeft(loads') /\ \A k \in DOMAIN loads' : loads'[k].old
        BY <1>3, <1>7, <3>1, <4>1 DEF Unbroken
      <4>3. q.row = cursor /\ cursor # 0
        BY <1>1, <1>3, <2>1, <3>2, <3>5, <4>1 DEF Unbroken
      <4>4. PICK E \in Seq(SUBSET Nat) : entries = E /\ entries # Nothing
        BY <4>3 DEF OwnLists, DashboardTypeOK
      <4>5. want \in Queries
        BY DEF DashboardTypeOK
      <4>6. Fine(E, rows, Due(want), cursor)
        BY <1>3, <4>1, <4>4, <4>5 DEF Unbroken
      <4>7. Fine(E, rows, Due(q), q.row)
        BY <3>3, <4>3, <4>5, <4>6
      <4>8. Fine(Append(E, a.ids), rows, Due(q), cursor')
        BY <2>3, <2>4, <3>2, <3>5, <4>7, FineMore
      <4>9. entries' = Append(E, a.ids)
        BY <2>2, <3>5, <4>4
      <4>10. QED BY <3>3, <4>2, <4>8, <4>9
    <3>6. QED BY <2>2, <3>4, <3>5
  <2>8. QED BY <2>6, <2>7 DEF EntriesRight
<1>10. QED BY <1>2, <1>8, <1>9 DEF Applies

LEMMA EntriesRightKept ==
    ASSUME Ground, EntriesRight, [DashboardNext]_dashboardVars
    PROVE  EntriesRight'
<1>0. Ground' /\ DashboardTypeOK /\ DashboardTypeOK' /\ OwnLists /\ OwnLists' /\ AnswersWhole
  BY GroundKept DEF Ground
<1>1. CASE at' # "activity"
  BY <1>1 DEF EntriesRight
<1>2. CASE at' = "activity" /\ NewPage
  <2>1. /\ want' = Plain /\ entries' = Nothing /\ cursor' = 0
        /\ \A k \in DOMAIN loads' : loads'[k].query = Plain /\ loads'[k].reply = Nothing
        /\ \A j, k \in DOMAIN loads' : j = k
    BY <1>0, <1>2, NewPageFacts DEF Reset
  <2>2. \A k \in DOMAIN loads', r \in Replies : loads'[k].reply # r
    BY <2>1, NoValueAssumption
  <2>3. \A E \in Seq(SUBSET Nat) : entries' # E
    BY <2>1, NoValueAssumption
  <2>4. \A k \in DOMAIN loads' :
           loads'[k].query.row = 0 /\ loads'[k].query.filter = want'.filter /\ ~loads'[k].query.term
    BY <2>1, PlainQuery
  <2>5. PartsRight'
    BY <2>1, <2>2, <2>4 DEF PartsRight
  <2>6. OneLeft(loads')
    BY <2>1 DEF OneLeft
  <2>7. Unbroken'
    BY <2>1, <2>3, <2>4, <2>6 DEF Unbroken
  <2>8. QED BY <2>5, <2>7 DEF EntriesRight
<1>3. CASE at' = "activity" /\ UserStep
  <2>1. UsualStep /\ at = "activity" /\ at' = at
    BY <1>0, <1>3, UserStepsAreUsual DEF UsualStep
  <2>2. CASE UNCHANGED <<rows, off, want, loads, busy, entries, cursor, excuses, belated>>
    BY <2>1, <2>2 DEF EntriesRight, PartsRight, Unbroken, RangeOvertaken, Has, Due, Hits
  <2>3. CASE Add /\ UNCHANGED <<want, loads, busy, entries, cursor>>
    BY <1>0, <2>1, <2>3, EntriesAdded
  <2>4. QED BY <1>0, <1>3, <2>1, <2>2, <2>3, ActivitySteps, EntriesSent, EntriesRestarted
<1>4. CASE at' = "activity" /\ \E i : Serve(i)
  <2>1. PICK i : Serve(i)
    BY <1>4
  <2>2. at = "activity"
    BY <1>4, <2>1 DEF Serve, data
  <2>3. QED BY <1>0, <2>1, <2>2, EntriesServed
<1>5. CASE at' = "activity" /\ \E i : Applies(i)
  <2>1. PICK i : Applies(i)
    BY <1>5
  <2>2. at = "activity"
    BY <1>5, <2>1 DEF Applies, Arrive, ArriveEntries, Break, data
  <2>3. QED BY <1>0, <2>1, <2>2, EntriesApplied
<1>6. CASE UNCHANGED dashboardVars
  BY <1>6 DEF EntriesRight, PartsRight, Unbroken, RangeOvertaken, Has, Due, Hits, dashboardVars
<1>7. QED BY <1>0, <1>1, <1>2, <1>3, <1>4, <1>5, <1>6, StepKinds

LEMMA EntriesJoin ==
    Ground /\ EntriesRight => EntriesOnce
<1>1. SUFFICES ASSUME Ground, EntriesRight, entries # Nothing, <<"overtaken", "activity">> \notin excuses
               PROVE  /\ \A i, j \in DOMAIN entries :
                            i < j => \A r \in entries[i], s \in entries[j] : s < r
                      /\ \A r, s \in AllOf(entries) : r..s \cap Hits(want) \subseteq AllOf(entries) \cup belated
  BY DEF EntriesOnce, AllOf
<1>2. at = "activity" /\ want \in Queries /\ entries \in Seq(SUBSET Nat)
  BY <1>1 DEF Ground, OwnLists, DashboardTypeOK
<1>3. Fine(entries, rows, Due(want), cursor)
  BY <1>1, <1>2 DEF EntriesRight, Unbroken, RangeOvertaken, Has
<1>4. QED BY <1>3 DEF Fine, Due

(* The entries of the activity page are a stretch of the log, newest first, *)
(* each one once, and none is left out but those that committed when the    *)
(* page had read younger ones, unless an answer for the previous range came *)
(* late: EntriesOnce, in whatever order transactions commit.                *)
THEOREM EntriesAppearOnce == DashboardSpec => []EntriesOnce
<1>1. DashboardInit => Ground /\ EntriesRight
  BY GroundInitially DEF DashboardInit, EntriesRight
<1>2. Ground /\ EntriesRight /\ [DashboardNext]_dashboardVars => Ground' /\ EntriesRight'
  BY GroundKept, EntriesRightKept
<1>3. Ground /\ EntriesRight => EntriesOnce
  BY EntriesJoin
<1>4. QED BY <1>1, <1>2, <1>3, PTL DEF DashboardSpec
=============================================================================
