----------------------------- MODULE MediaProofs -----------------------------
(* Proofs about Media, for any sets of files and tasks: the types, when a    *)
(* clean-up deletes a file that is named, and when an upload is forgotten.   *)
EXTENDS Media, SequenceTheorems, TLAPS

(* Who attaches a file has uploaded it.                                      *)
AttachHasKey ==
    \A t \in Tasks : kind[t] = "attach" /\ request[t] = "running" => mine[t] \in Files

Typed == TypeOK /\ AttachHasKey

(* A file that is named will be found by a clean-up that has not found it,   *)
(* in a table still to be read, unless it was overtaken or moved; a clean-up *)
(* that deletes has read all tables and found nothing.                       *)
WillBeFound(c) ==
    \/ c.found
    \/ c.file \in overtaken \cup moved
    \/ c.unread = Tables
    \/ c.file \in Referenced => \E table \in c.unread : Finds(c.file, table)

LooksWell ==
    \A t \in Tasks : tab[t] \in {"cleaning", "deleting"} =>
        /\ WillBeFound(cleanup[t])
        /\ tab[t] = "deleting" => cleanup[t].unread = {} /\ ~cleanup[t].found

Safe == Typed /\ LooksWell /\ MissingOnlyByRace

-----------------------------------------------------------------------------
(* The initial states are typed.                                             *)
LEMMA InitTyped == Init => Typed
<1> SUFFICES ASSUME Init PROVE Typed
  OBVIOUS
<1>1. stored \subseteq Files /\ logo \in Key
  BY MediaAssumption DEF Init, Key
<1>2. versions \in Seq(Version)
  BY EmptySeq DEF Init
<1>3. cleanup \in [Tasks -> [file: Key, unread: SUBSET Tables, found: BOOLEAN]]
  BY DEF Init, NoCleanup, Key
<1>4. QED
  BY <1>1, <1>2, <1>3 DEF Init, Typed, TypeOK, AttachHasKey, Key, Working, Ended

(* A task that ends stays typed.                                             *)
LEMMA EndTyped ==
    ASSUME Typed, NEW t \in Tasks, NEW step \in Ended, End(t, step)
    PROVE  /\ tab' \in [Tasks -> Working \cup Ended]
           /\ old' \in [Tasks -> Key]
           /\ cleanup' \in [Tasks -> [file: Key, unread: SUBSET Tables, found: BOOLEAN]]
           /\ \A u \in Tasks : tab'[u] \in {"cleaning", "deleting"} => cleanup'[u].file \in Files
BY DEF Typed, TypeOK, End, Goto, Ended, Key, NoCleanup

(* So does one that asks for a clean-up.                                     *)
LEMMA CleanUpTyped ==
    ASSUME Typed, NEW t \in Tasks, NEW f \in Key, NEW step \in Ended, CleanUp(t, f, step)
    PROVE  /\ tab' \in [Tasks -> Working \cup Ended]
           /\ old' \in [Tasks -> Key]
           /\ cleanup' \in [Tasks -> [file: Key, unread: SUBSET Tables, found: BOOLEAN]]
           /\ \A u \in Tasks : tab'[u] \in {"cleaning", "deleting"} => cleanup'[u].file \in Files
<1>1. CASE f = NoFile
  BY <1>1, EndTyped DEF CleanUp
<1>2. CASE f # NoFile
  <2>1. /\ tab' = [tab EXCEPT ![t] = "cleaning"]
        /\ cleanup' = [cleanup EXCEPT ![t] = [file |-> f, unread |-> Tables, found |-> FALSE]]
        /\ old' = old
    BY <1>2 DEF CleanUp, Goto, NoCleanup
  <2>2. f \in Files BY <1>2 DEF Key
  <2>3. tab' \in [Tasks -> Working \cup Ended] BY <2>1 DEF Typed, TypeOK, Working
  <2>4. cleanup' \in [Tasks -> [file: Key, unread: SUBSET Tables, found: BOOLEAN]]
    BY <2>1 DEF Typed, TypeOK
  <2>5. ASSUME NEW u \in Tasks, tab'[u] \in {"cleaning", "deleting"}
        PROVE  cleanup'[u].file \in Files
    BY <2>1, <2>2, <2>5 DEF Typed, TypeOK
  <2>6. QED BY <2>1, <2>3, <2>4, <2>5 DEF Typed, TypeOK
<1>3. QED BY <1>1, <1>2

(* Every step stays typed.                                                   *)
LEMMA NextTyped == Typed /\ [Next]_vars => Typed'
<1> SUFFICES ASSUME Typed, [Next]_vars PROVE Typed'
  OBVIOUS
<1>0. CASE UNCHANGED vars
  BY <1>0 DEF Typed, TypeOK, AttachHasKey, vars, ghosts
<1>1. CASE \E t \in Tasks : BrowserStep(t)
  <2> PICK t \in Tasks : BrowserStep(t) BY <1>1
  <2>1. CASE OpenSettings(t)
    BY <2>1 DEF OpenSettings, Goto, Typed, TypeOK, ghosts, AttachHasKey, Working, Key
  <2>2. CASE Upload(t)
    <3> PICK f \in Files \ Used : stored' = stored \cup {f} /\ mine' = [mine EXCEPT ![t] = f]
      BY <2>2 DEF Upload
    <3>1. CASE Goto(t, "waiting") /\ request' = [request EXCEPT ![t] = "running"]
               /\ UNCHANGED <<old, cleanup>>
      BY <2>2, <3>1 DEF Upload, Goto, Typed, TypeOK, ghosts, AttachHasKey, Working, Key
    <3>2. CASE End(t, "unanswered") /\ UNCHANGED request
      <4>1. /\ tab' \in [Tasks -> Working \cup Ended]
            /\ old' \in [Tasks -> Key]
            /\ cleanup' \in [Tasks -> [file: Key, unread: SUBSET Tables, found: BOOLEAN]]
            /\ \A u \in Tasks : tab'[u] \in {"cleaning", "deleting"} => cleanup'[u].file \in Files
        BY <3>2, EndTyped DEF Ended
      <4>2. QED BY <2>2, <3>2, <4>1 DEF Upload, Typed, TypeOK, ghosts, AttachHasKey, Key
    <3>3. QED BY <2>2, <3>1, <3>2 DEF Upload
  <2>3. CASE DropLogo(t)
    BY <2>3 DEF DropLogo, Goto, Typed, TypeOK, ghosts, AttachHasKey, Working
  <2>4. CASE Succeed(t)
    <3>1. (IF kind[t] = "attach" THEN NoFile ELSE old[t]) \in Key BY DEF Typed, TypeOK, Key
    <3>2. QED BY <2>4, <3>1, CleanUpTyped DEF Succeed, Typed, TypeOK, ghosts, AttachHasKey, Ended
  <2>5. CASE GiveUp(t)
    <3>1. mine[t] \in Key BY DEF Typed, TypeOK
    <3>2. QED BY <2>5, <3>1, CleanUpTyped DEF GiveUp, Typed, TypeOK, ghosts, AttachHasKey, Ended
  <2>6. CASE Close(t)
    BY <2>6, EndTyped DEF Close, Typed, TypeOK, ghosts, AttachHasKey, Ended
  <2>7. QED BY <2>1, <2>2, <2>3, <2>4, <2>5, <2>6 DEF BrowserStep
<1>2. CASE \E t \in Tasks : RequestStep(t)
  <2> PICK t \in Tasks : RequestStep(t) BY <1>2
  <2>1. CASE CommitAttach(t)
    BY <2>1 DEF CommitAttach, Reference, Typed, TypeOK, AttachHasKey
  <2>2. CASE CommitLogo(t)
    BY <2>2 DEF CommitLogo, Reference, Dereference, Typed, TypeOK, ghosts, AttachHasKey, Key
  <2>3. CASE Refuse(t)
    BY <2>3 DEF Refuse, Typed, TypeOK, ghosts, AttachHasKey
  <2>4. CASE Detach(t)
    BY <2>4 DEF Detach, Dereference, Goto, Key, Typed, TypeOK, AttachHasKey, Ended
  <2>5. CASE PublishRead(t)
    BY <2>5 DEF PublishRead, Goto, Typed, TypeOK, ghosts, AttachHasKey, Working, Key
  <2>6. CASE PublishCommit(t)
    <3>1. [files |-> rows, logo |-> old[t]] \in Version BY DEF Typed, TypeOK, Version
    <3>2. versions' \in Seq(Version)
      BY <2>6, <3>1, AppendProperties DEF PublishCommit, Typed, TypeOK
    <3>3. overtaken' \subseteq Files
      BY <2>6 DEF PublishCommit, Reference, NamedBy, Typed, TypeOK, Key
    <3>4. QED BY <2>6, <3>2, <3>3, EndTyped DEF PublishCommit, Typed, TypeOK, ghosts, AttachHasKey, Ended
  <2>7. CASE Unpublish(t)
    BY <2>7 DEF Unpublish, Goto, Typed, TypeOK, ghosts, AttachHasKey, Ended
  <2>8. QED BY <2>1, <2>2, <2>3, <2>4, <2>5, <2>6, <2>7 DEF RequestStep
<1>3. CASE \E t \in Tasks : CleanUpStep(t)
  <2> PICK t \in Tasks : CleanUpStep(t) BY <1>3
  <2>1. CASE Look(t)
    <3> PICK table \in cleanup[t].unread :
          LET unread == cleanup[t].unread \ {table}
              found  == cleanup[t].found \/ Finds(cleanup[t].file, table)
          IN IF unread = {} /\ found THEN End(t, "refused")
             ELSE /\ IF unread = {} THEN Goto(t, "deleting") ELSE UNCHANGED tab
                  /\ cleanup' = [cleanup EXCEPT ![t].unread = unread, ![t].found = found]
                  /\ UNCHANGED old
      BY <2>1 DEF Look
    <3> DEFINE unread == cleanup[t].unread \ {table}
               found  == cleanup[t].found \/ Finds(cleanup[t].file, table)
    <3>1. found \in BOOLEAN BY DEF Typed, TypeOK, Finds
    <3>2. unread \subseteq Tables BY DEF Typed, TypeOK
    <3>3. CASE unread = {} /\ found
      BY <2>1, <3>3, EndTyped DEF Look, Typed, TypeOK, ghosts, AttachHasKey, Ended
    <3>4. CASE ~(unread = {} /\ found)
      <4> HIDE DEF unread, found
      <4>1. cleanup' = [cleanup EXCEPT ![t].unread = unread, ![t].found = found]
        BY <3>4 DEF unread, found
      <4>2. /\ cleanup' \in [Tasks -> [file: Key, unread: SUBSET Tables, found: BOOLEAN]]
            /\ \A u \in Tasks : cleanup'[u].file = cleanup[u].file
        BY <4>1, <3>1, <3>2 DEF Typed, TypeOK
      <4>3. tab' \in {tab, [tab EXCEPT ![t] = "deleting"]} /\ UNCHANGED old
        BY <3>4 DEF unread, found, Goto
      <4>4. QED BY <2>1, <4>2, <4>3 DEF Look, Typed, TypeOK, ghosts, AttachHasKey, Working
    <3>5. QED BY <3>3, <3>4
  <2>2. CASE Delete(t)
    BY <2>2, EndTyped DEF Delete, Typed, TypeOK, ghosts, AttachHasKey, Ended
  <2>3. CASE CleanUpFails(t)
    BY <2>3, EndTyped DEF CleanUpFails, Typed, TypeOK, ghosts, AttachHasKey, Ended
  <2>4. QED BY <2>1, <2>2, <2>3 DEF CleanUpStep
<1>4. QED BY <1>0, <1>1, <1>2, <1>3 DEF Next

(* TypeOK holds in every reachable state.                                    *)
THEOREM TypeCorrect == Spec => []TypeOK
<1>1. Typed => TypeOK BY DEF Typed
<1>2. QED BY InitTyped, NextTyped, <1>1, PTL DEF Spec

-----------------------------------------------------------------------------
(* A key is referenced exactly when one of the tables has it.                *)
LEMMA ReferencedIsFound ==
    ASSUME NEW f \in Files
    PROVE  f \in Referenced <=> \E table \in Tables : Finds(f, table)
BY MediaAssumption DEF Referenced, Finds, Tables

(* Only keys are referenced.                                                 *)
LEMMA ReferencedTyped ==
    ASSUME NEW r \in SUBSET Files, NEW l \in Key, NEW vs \in Seq(Version)
    PROVE  r \cup ({l} \ {NoFile}) \cup UNION {NamedBy(vs[i]) : i \in DOMAIN vs} \subseteq Files
<1>1. \A i \in DOMAIN vs : vs[i] \in Version
  BY ElementOfSeq
<1>2. \A i \in DOMAIN vs : NamedBy(vs[i]) \subseteq Files
  BY <1>1 DEF NamedBy, Version, Key
<1>3. QED BY <1>2 DEF Key

(* The steps that change neither a table nor a clean-up preserve both        *)
(* invariants.                                                               *)
LEMMA QuietStep ==
    ASSUME Safe, Typed', stored \subseteq stored',
           UNCHANGED <<rows, logo, versions, ghosts>>,
           \A t \in Tasks : tab'[t] \in {"cleaning", "deleting"} =>
               tab'[t] = tab[t] /\ cleanup'[t] = cleanup[t]
    PROVE  LooksWell' /\ MissingOnlyByRace'
<1>1. (\A f, table : Finds(f, table)' = Finds(f, table)) /\ Referenced' = Referenced
  BY DEF Finds, Referenced
<1>2. LooksWell'
  <2> SUFFICES ASSUME NEW t \in Tasks, tab'[t] \in {"cleaning", "deleting"}
               PROVE  /\ WillBeFound(cleanup[t])'
                      /\ tab'[t] = "deleting" => cleanup'[t].unread = {} /\ ~cleanup'[t].found
    BY DEF LooksWell
  <2>1. WillBeFound(cleanup[t]) BY DEF Safe, LooksWell
  <2>2. WillBeFound(cleanup[t])' BY <1>1, <2>1 DEF WillBeFound, ghosts
  <2>3. QED BY <2>2 DEF Safe, LooksWell
<1>3. MissingOnlyByRace'
  BY <1>1 DEF Safe, MissingOnlyByRace, ghosts
<1>4. QED BY <1>2, <1>3

(* A step that adds references to these keys and announces them, and removes *)
(* no reference but this key's from this table, which it announces too,      *)
(* preserves both invariants: a clean-up that has begun is told.             *)
LEMMA ReferenceStep ==
    ASSUME Safe, Typed', NEW files \in SUBSET Files, NEW key \in Key, NEW lost \in Tables,
           Reference(files), moved \subseteq moved', stored' = stored,
           \A f \in Files, table \in Tables : Finds(f, table)' => Finds(f, table) \/ f \in files,
           \A f \in Files, table \in Tables : Finds(f, table) =>
               \/ Finds(f, table)'
               \/ f = key /\ table = lost /\ f \notin files /\ Dereference(key, lost),
           \A t \in Tasks : tab'[t] \in {"cleaning", "deleting"} =>
               tab'[t] = tab[t] /\ cleanup'[t] = cleanup[t]
    PROVE  LooksWell' /\ MissingOnlyByRace'
<1>0. overtaken \subseteq overtaken' /\ moved \subseteq moved'
  BY DEF Reference
<1>1. \A f \in Files : f \in Referenced' <=> \E table \in Tables : Finds(f, table)'
  BY MediaAssumption DEF Referenced, Finds, Tables
<1>2. LooksWell'
  <2> SUFFICES ASSUME NEW t \in Tasks, tab'[t] \in {"cleaning", "deleting"}
               PROVE  /\ WillBeFound(cleanup[t])'
                      /\ tab'[t] = "deleting" => cleanup'[t].unread = {} /\ ~cleanup'[t].found
    BY DEF LooksWell
  <2>1. /\ tab'[t] = tab[t] /\ cleanup'[t] = cleanup[t] /\ cleanup[t].file \in Files
        /\ cleanup[t].unread \subseteq Tables /\ cleanup[t].found \in BOOLEAN
    BY DEF Safe, Typed, TypeOK
  <2> SUFFICES WillBeFound(cleanup[t])'
    BY <2>1 DEF Safe, LooksWell
  <2> DEFINE f == cleanup[t].file
             unread == cleanup[t].unread
  <2>2. WillBeFound(cleanup[t]) BY <2>1 DEF Safe, LooksWell
  <2>3. CASE cleanup[t].found \/ f \in overtaken \cup moved \/ unread = Tables
    BY <1>0, <2>1, <2>3 DEF WillBeFound
  <2>4. CASE f \notin Referenced' BY <2>1, <2>4 DEF WillBeFound
  <2>5. CASE unread # Tables /\ f \notin Referenced /\ f \in Referenced'
    <3>1. f \in files BY <1>1, <2>1, <2>5, ReferencedIsFound
    <3>2. Begun(f) BY <2>1, <2>5 DEF Begun
    <3>3. f \in overtaken' BY <2>5, <3>1, <3>2 DEF Reference
    <3>4. QED BY <2>1, <3>3 DEF WillBeFound
  <2>6. CASE ~cleanup[t].found /\ f \in Referenced' /\ \E table \in unread : Finds(f, table)
    <3>1. PICK table \in unread : Finds(f, table) BY <2>6
    <3>2. CASE Finds(f, table)'
      BY <2>1, <3>1, <3>2 DEF WillBeFound
    <3>3. CASE ~Finds(f, table)'
      <4>1. f = key /\ table = lost /\ f \notin files /\ Dereference(key, lost)
        BY <2>1, <3>1, <3>3
      <4>2. PICK other \in Tables : Finds(f, other)' BY <1>1, <2>1, <2>6
      <4>3. CASE other \in unread
        BY <2>1, <4>2, <4>3 DEF WillBeFound
      <4>4. CASE other \notin unread
        <5>1. Finds(f, other) BY <2>1, <4>1, <4>2
        <5>2. SlipsPast(f, lost) BY <2>1, <2>6, <3>1, <4>1, <4>4, <5>1 DEF SlipsPast
        <5>3. f \in moved' BY <4>1, <5>2 DEF Dereference
        <5>4. QED BY <2>1, <5>3 DEF WillBeFound
      <4>5. QED BY <4>3, <4>4
    <3>4. QED BY <3>2, <3>3
  <2>7. QED BY <2>1, <2>3, <2>4, <2>5, <2>6, <2>2 DEF WillBeFound
<1>3. MissingOnlyByRace'
  <2> SUFFICES ASSUME NEW f, f \in Referenced', f \notin stored
               PROVE  f \in overtaken' \cup moved'
    BY DEF MissingOnlyByRace
  <2>1. f \in Files
    <3>1. rows' \in SUBSET Files /\ logo' \in Key /\ versions' \in Seq(Version)
      BY DEF Typed, TypeOK
    <3>2. Referenced' \subseteq Files
      BY <3>1, ReferencedTyped DEF Referenced
    <3>3. QED BY <3>2
  <2>2. CASE f \in Referenced
    BY <1>0, <2>2 DEF Safe, MissingOnlyByRace
  <2>3. CASE f \notin Referenced
    <3>1. f \in files BY <1>1, <2>1, <2>3, ReferencedIsFound
    <3>2. QED BY <2>3, <3>1 DEF Reference, Begun
  <2>4. QED BY <2>2, <2>3
<1>4. QED BY <1>2, <1>3

(* A task that ends has no clean-up any more, and nobody else's changes.     *)
LEMMA EndQuiet ==
    ASSUME Typed, NEW t \in Tasks, NEW step \in Ended, End(t, step)
    PROVE  \A u \in Tasks : tab'[u] \in {"cleaning", "deleting"} =>
               tab'[u] = tab[u] /\ cleanup'[u] = cleanup[u]
BY DEF Typed, TypeOK, End, Goto, Ended

(* Nor does anything but a new clean-up, which has looked nowhere yet.       *)
LEMMA CleanUpSafe ==
    ASSUME Safe, Typed', NEW t \in Tasks, NEW f \in Key, NEW step \in Ended, CleanUp(t, f, step),
           UNCHANGED <<stored, rows, logo, versions, ghosts>>
    PROVE  LooksWell' /\ MissingOnlyByRace'
<1>1. CASE f = NoFile
  <2>1. End(t, step) BY <1>1 DEF CleanUp
  <2>2. QED BY <2>1, EndQuiet, QuietStep DEF Safe
<1>2. CASE f # NoFile
  <2>1. /\ tab' = [tab EXCEPT ![t] = "cleaning"]
        /\ cleanup' = [cleanup EXCEPT ![t] = [file |-> f, unread |-> Tables, found |-> FALSE]]
    BY <1>2 DEF CleanUp, Goto, NoCleanup
  <2>2. cleanup'[t].unread = Tables /\ tab'[t] = "cleaning"
    BY <2>1 DEF Safe, Typed, TypeOK
  <2>3. \A u \in Tasks \ {t} : tab'[u] = tab[u] /\ cleanup'[u] = cleanup[u]
    BY <2>1 DEF Safe, Typed, TypeOK
  <2>4. (\A g, table : Finds(g, table)' = Finds(g, table)) /\ Referenced' = Referenced
    BY DEF Finds, Referenced
  <2>5. LooksWell'
    <3> SUFFICES ASSUME NEW u \in Tasks, tab'[u] \in {"cleaning", "deleting"}
                 PROVE  /\ WillBeFound(cleanup[u])'
                        /\ tab'[u] = "deleting" => cleanup'[u].unread = {} /\ ~cleanup'[u].found
      BY DEF LooksWell
    <3>1. CASE u = t BY <2>2, <3>1 DEF WillBeFound
    <3>2. CASE u # t
      <4>1. WillBeFound(cleanup[u]) BY <2>3, <3>2 DEF Safe, LooksWell
      <4>2. QED BY <2>3, <2>4, <3>2, <4>1 DEF Safe, LooksWell, WillBeFound, ghosts
    <3>3. QED BY <3>1, <3>2
  <2>6. MissingOnlyByRace'
    BY <2>4 DEF Safe, MissingOnlyByRace, ghosts
  <2>7. QED BY <2>5, <2>6
<1>3. QED BY <1>1, <1>2

(* Looking in one more table keeps what is known of the others.              *)
LEMMA LookSafe ==
    ASSUME Safe, Typed', NEW t \in Tasks, Look(t)
    PROVE  LooksWell' /\ MissingOnlyByRace'
<1> PICK table \in cleanup[t].unread :
      LET unread == cleanup[t].unread \ {table}
          found  == cleanup[t].found \/ Finds(cleanup[t].file, table)
      IN IF unread = {} /\ found THEN End(t, "refused")
         ELSE /\ IF unread = {} THEN Goto(t, "deleting") ELSE UNCHANGED tab
              /\ cleanup' = [cleanup EXCEPT ![t].unread = unread, ![t].found = found]
              /\ UNCHANGED old
  BY DEF Look
<1> DEFINE unread == cleanup[t].unread \ {table}
           found  == cleanup[t].found \/ Finds(cleanup[t].file, table)
<1>1. UNCHANGED <<stored, rows, logo, versions, ghosts>> /\ tab[t] = "cleaning"
  BY DEF Look
<1>2. CASE unread = {} /\ found
  <2>1. End(t, "refused") BY <1>2
  <2>2. QED BY <1>1, <2>1, EndQuiet, QuietStep DEF Safe, Ended
<1>3. CASE ~(unread = {} /\ found)
  <2>1. /\ cleanup'[t].unread = unread
        /\ cleanup'[t].found = found
        /\ cleanup'[t].file = cleanup[t].file
        /\ tab'[t] = IF unread = {} THEN "deleting" ELSE "cleaning"
        /\ \A u \in Tasks \ {t} : tab'[u] = tab[u] /\ cleanup'[u] = cleanup[u]
    BY <1>1, <1>3 DEF Safe, Typed, TypeOK, Goto
  <2>2. (\A g, tb : Finds(g, tb)' = Finds(g, tb)) /\ Referenced' = Referenced
    BY <1>1 DEF Finds, Referenced
  <2>3. WillBeFound(cleanup[t]) /\ cleanup[t].found \in BOOLEAN
    BY <1>1 DEF Safe, LooksWell, Typed, TypeOK
  <2>4. \/ found
        \/ cleanup[t].file \in overtaken \cup moved
        \/ cleanup[t].file \in Referenced => \E tb \in unread : Finds(cleanup[t].file, tb)
    <3>1. CASE cleanup[t].found BY <3>1
    <3>2. CASE cleanup[t].file \in overtaken \cup moved BY <3>2
    <3>3. CASE cleanup[t].unread = Tables
      <4>1. cleanup[t].file \in Files BY <1>1 DEF Safe, Typed, TypeOK
      <4>2. CASE Finds(cleanup[t].file, table) BY <4>2
      <4>3. CASE ~Finds(cleanup[t].file, table)
        BY <3>3, <4>1, <4>3, ReferencedIsFound
      <4>4. QED BY <4>2, <4>3
    <3>4. CASE cleanup[t].file \in Referenced =>
               \E tb \in cleanup[t].unread : Finds(cleanup[t].file, tb)
      BY <3>4
    <3>5. QED BY <2>3, <3>1, <3>2, <3>3, <3>4 DEF WillBeFound
  <2> HIDE DEF unread, found
  <2>5. WillBeFound(cleanup[t])'
    BY <1>1, <2>1, <2>2, <2>4 DEF WillBeFound, ghosts
  <2>6. tab'[t] = "deleting" => cleanup'[t].unread = {} /\ ~cleanup'[t].found
    BY <1>3, <2>1
  <2>7. ASSUME NEW u \in Tasks \ {t}, tab'[u] \in {"cleaning", "deleting"}
        PROVE  /\ WillBeFound(cleanup[u])'
               /\ tab'[u] = "deleting" => cleanup'[u].unread = {} /\ ~cleanup'[u].found
    <3>1. tab'[u] = tab[u] /\ cleanup'[u] = cleanup[u] BY <2>1
    <3>2. WillBeFound(cleanup[u]) BY <2>7, <3>1 DEF Safe, LooksWell
    <3>3. WillBeFound(cleanup[u])' BY <1>1, <2>2, <3>1, <3>2 DEF WillBeFound, ghosts
    <3>4. QED BY <2>7, <3>1, <3>3 DEF Safe, LooksWell
  <2>8. LooksWell' BY <2>5, <2>6, <2>7 DEF LooksWell
  <2>9. MissingOnlyByRace'
    BY <1>1, <2>2 DEF Safe, MissingOnlyByRace, ghosts
  <2>10. QED BY <2>8, <2>9
<1>4. QED BY <1>2, <1>3

(* A file that is deleted is named nowhere, or was overtaken or moved.       *)
LEMMA DeleteSafe ==
    ASSUME Safe, Typed', NEW t \in Tasks, Delete(t)
    PROVE  LooksWell' /\ MissingOnlyByRace'
<1>1. /\ UNCHANGED <<rows, logo, versions, ghosts>>
      /\ stored' = stored \ {cleanup[t].file}
      /\ End(t, "done")
      /\ tab[t] = "deleting"
  BY DEF Delete
<1>2. (\A g, table : Finds(g, table)' = Finds(g, table)) /\ Referenced' = Referenced
  BY <1>1 DEF Finds, Referenced
<1>3. LooksWell'
  <2> SUFFICES ASSUME NEW u \in Tasks, tab'[u] \in {"cleaning", "deleting"}
               PROVE  /\ WillBeFound(cleanup[u])'
                      /\ tab'[u] = "deleting" => cleanup'[u].unread = {} /\ ~cleanup'[u].found
    BY DEF LooksWell
  <2>1. tab'[u] = tab[u] /\ cleanup'[u] = cleanup[u]
    BY <1>1, EndQuiet DEF Safe, Ended
  <2>2. WillBeFound(cleanup[u]) BY <2>1 DEF Safe, LooksWell
  <2>3. WillBeFound(cleanup[u])' BY <1>1, <1>2, <2>1, <2>2 DEF WillBeFound, ghosts
  <2>4. QED BY <2>1, <2>3 DEF Safe, LooksWell
<1>4. WillBeFound(cleanup[t]) /\ ~cleanup[t].found /\ cleanup[t].unread = {}
  BY <1>1 DEF Safe, LooksWell
<1>5. cleanup[t].file \in overtaken \cup moved \/ cleanup[t].file \notin Referenced
  BY <1>4 DEF WillBeFound, Tables
<1>6. QED BY <1>1, <1>2, <1>3, <1>5 DEF Safe, MissingOnlyByRace, ghosts

-----------------------------------------------------------------------------
(* Every step preserves both invariants.                                     *)
LEMMA NextSafe == Safe /\ Typed' /\ [Next]_vars => LooksWell' /\ MissingOnlyByRace'
<1> SUFFICES ASSUME Safe, Typed', [Next]_vars PROVE LooksWell' /\ MissingOnlyByRace'
  OBVIOUS
<1>0. CASE UNCHANGED vars
  BY <1>0, QuietStep DEF vars
<1>1. CASE \E t \in Tasks : BrowserStep(t)
  <2> PICK t \in Tasks : BrowserStep(t) BY <1>1
  <2>1. CASE OpenSettings(t)
    BY <2>1, QuietStep DEF OpenSettings, Goto, Safe, Typed, TypeOK
  <2>2. CASE Upload(t)
    <3>1. stored \subseteq stored' /\ UNCHANGED <<rows, logo, versions, ghosts>>
      BY <2>2 DEF Upload
    <3>2. CASE End(t, "unanswered")
      BY <3>1, <3>2, EndQuiet, QuietStep DEF Safe, Ended
    <3>3. CASE Goto(t, "waiting") /\ UNCHANGED cleanup
      BY <3>1, <3>3, QuietStep DEF Goto, Safe, Typed, TypeOK
    <3>4. QED BY <2>2, <3>2, <3>3 DEF Upload
  <2>3. CASE DropLogo(t)
    BY <2>3, QuietStep DEF DropLogo, Goto, Safe, Typed, TypeOK
  <2>4. CASE Succeed(t)
    <3>1. (IF kind[t] = "attach" THEN NoFile ELSE old[t]) \in Key BY DEF Safe, Typed, TypeOK, Key
    <3>2. QED BY <2>4, <3>1, CleanUpSafe DEF Succeed, Ended
  <2>5. CASE GiveUp(t)
    <3>1. mine[t] \in Key BY DEF Safe, Typed, TypeOK
    <3>2. QED BY <2>5, <3>1, CleanUpSafe DEF GiveUp, Ended
  <2>6. CASE Close(t)
    BY <2>6, EndQuiet, QuietStep DEF Close, Ended, Safe
  <2>7. QED BY <2>1, <2>2, <2>3, <2>4, <2>5, <2>6 DEF BrowserStep
<1>2. CASE \E t \in Tasks : RequestStep(t)
  <2> PICK t \in Tasks : RequestStep(t) BY <1>2
  <2>1. CASE CommitAttach(t)
    <3>1. {mine[t]} \in SUBSET Files BY <2>1 DEF CommitAttach, Safe, Typed, AttachHasKey
    <3>2. \A f \in Files, table \in Tables :
            /\ Finds(f, table)' => Finds(f, table) \/ f \in {mine[t]}
            /\ Finds(f, table) => Finds(f, table)'
      BY <2>1 DEF CommitAttach, Finds
    <3>3. NoFile \in Key /\ "rows" \in Tables BY DEF Key, Tables
    <3>4. QED BY <2>1, <3>1, <3>2, <3>3, ReferenceStep DEF CommitAttach
  <2>2. CASE CommitLogo(t)
    <3> DEFINE new == {mine[t]} \ {NoFile}
    <3>1. new \in SUBSET Files /\ logo \in Key BY DEF Safe, Typed, TypeOK, Key
    <3>2. logo' = mine[t] /\ UNCHANGED <<stored, rows, versions, tab, cleanup>>
          /\ Reference(new) /\ Dereference(logo, "logo")
      BY <2>2 DEF CommitLogo
    <3>3. \A f \in Files, table \in Tables :
            /\ Finds(f, table)' => Finds(f, table) \/ f \in new
            /\ Finds(f, table) => Finds(f, table)' \/ (f = logo /\ table = "logo" /\ f \notin new)
      BY <3>2, MediaAssumption DEF Finds
    <3>4. moved \subseteq moved' /\ "logo" \in Tables
      BY <3>2 DEF Dereference, Tables
    <3> HIDE DEF new
    <3>5. QED BY <3>1, <3>2, <3>3, <3>4, ReferenceStep
  <2>3. CASE Refuse(t)
    BY <2>3, QuietStep DEF Refuse
  <2>4. CASE Detach(t)
    <3>1. PICK key \in rows : rows' = rows \ {key} /\ Dereference(key, "rows")
      BY <2>4 DEF Detach
    <3>2. \A f \in Files, table \in Tables :
            /\ Finds(f, table)' => Finds(f, table) \/ f \in {}
            /\ Finds(f, table) => Finds(f, table)' \/ (f = key /\ table = "rows" /\ f \notin {})
      BY <2>4, <3>1 DEF Detach, Finds
    <3>3. Reference({}) /\ stored' = stored BY <2>4 DEF Detach, Reference
    <3>4. \A u \in Tasks : tab'[u] \in {"cleaning", "deleting"} =>
            tab'[u] = tab[u] /\ cleanup'[u] = cleanup[u]
      BY <2>4 DEF Detach, Goto, Safe, Typed, TypeOK
    <3>5. key \in Key /\ "rows" \in Tables /\ {} \in SUBSET Files /\ moved \subseteq moved'
      BY <3>1 DEF Safe, Typed, TypeOK, Key, Tables, Dereference
    <3>6. QED BY <3>1, <3>2, <3>3, <3>4, <3>5, ReferenceStep
  <2>5. CASE PublishRead(t)
    BY <2>5, QuietStep DEF PublishRead, Goto, Safe, Typed, TypeOK
  <2>6. CASE PublishCommit(t)
    <3> DEFINE snapshot == [files |-> rows, logo |-> old[t]]
    <3>1. snapshot \in Version BY DEF Safe, Typed, TypeOK, Version
    <3>2. NamedBy(snapshot) \in SUBSET Files BY <3>1 DEF NamedBy, Version, Key
    <3>3. UNCHANGED <<rows, logo, stored, moved>> /\ versions' = Append(versions, snapshot)
          /\ Reference(NamedBy(snapshot)) /\ End(t, "done")
      BY <2>6 DEF PublishCommit
    <3> HIDE DEF snapshot
    <3>4. ASSUME NEW i \in DOMAIN versions'
          PROVE  versions'[i] = snapshot \/ (i \in DOMAIN versions /\ versions'[i] = versions[i])
      BY <3>1, <3>3, AppendProperties DEF Safe, Typed, TypeOK
    <3>5. \A f \in Files, table \in Tables : Finds(f, table)' => Finds(f, table) \/ f \in NamedBy(snapshot)
      BY <3>3, <3>4 DEF Finds, NamedBy
    <3>6. \A i \in DOMAIN versions : i \in DOMAIN versions' /\ versions'[i] = versions[i]
      BY <3>1, <3>3, AppendProperties DEF Safe, Typed, TypeOK
    <3>7. \A f \in Files, table \in Tables : Finds(f, table) => Finds(f, table)'
      BY <3>3, <3>6 DEF Finds
    <3>8. \A u \in Tasks : tab'[u] \in {"cleaning", "deleting"} =>
            tab'[u] = tab[u] /\ cleanup'[u] = cleanup[u]
      BY <3>3, EndQuiet DEF Safe, Ended
    <3>9. NoFile \in Key /\ "rows" \in Tables BY DEF Key, Tables
    <3>10. QED BY <3>2, <3>3, <3>5, <3>7, <3>8, <3>9, ReferenceStep
  <2>7. CASE Unpublish(t)
    BY <2>7, QuietStep DEF Unpublish, Goto, Safe, Typed, TypeOK
  <2>8. QED BY <2>1, <2>2, <2>3, <2>4, <2>5, <2>6, <2>7 DEF RequestStep
<1>3. CASE \E t \in Tasks : CleanUpStep(t)
  <2> PICK t \in Tasks : CleanUpStep(t) BY <1>3
  <2>1. CASE Look(t) BY <2>1, LookSafe
  <2>2. CASE Delete(t) BY <2>2, DeleteSafe
  <2>3. CASE CleanUpFails(t)
    BY <2>3, EndQuiet, QuietStep DEF CleanUpFails, Ended, Safe
  <2>4. QED BY <2>1, <2>2, <2>3 DEF CleanUpStep
<1>4. QED BY <1>0, <1>1, <1>2, <1>3 DEF Next

(* A file that is named is missing from storage only if nothing named it when *)
(* its clean-up began to look, or if it moved past that clean-up, from a      *)
(* table still to be read to one already read; for any number of tasks.       *)
THEOREM NamedFilesAreDeletedOnlyByRaces == Spec => []MissingOnlyByRace
<1>1. Init => Safe
  <2> SUFFICES ASSUME Init PROVE Safe
    OBVIOUS
  <2>1. Typed BY InitTyped
  <2>2. LooksWell BY DEF Init, LooksWell
  <2>3. Referenced = {logo} \ {NoFile} BY DEF Init, Referenced
  <2>4. MissingOnlyByRace BY <2>3 DEF Init, MissingOnlyByRace
  <2>5. QED BY <2>1, <2>2, <2>4 DEF Safe
<1>2. Safe /\ [Next]_vars => Safe'
  BY NextTyped, NextSafe DEF Safe
<1>3. Safe => MissingOnlyByRace BY DEF Safe
<1>4. QED BY <1>1, <1>2, <1>3, PTL DEF Spec
-----------------------------------------------------------------------------
(* The keys whose request has been committed, and the first logo: nothing    *)
(* else is ever referenced, nor read as the logo.                            *)
Attached == {FirstLogo, NoFile} \cup {mine[t] : t \in {u \in Tasks : request[u] = "committed"}}

(* A key belongs to the task that uploaded it.                               *)
OwnKeys ==
    /\ \A t \in Tasks : mine[t] # FirstLogo
    /\ \A t, u \in Tasks : mine[t] = mine[u] /\ mine[t] # NoFile => t = u
    /\ \A t \in Tasks : tab[t] \in {"start", "open"} => request[t] = "none" /\ mine[t] = NoFile
    /\ \A t \in Tasks : tab[t] = "committing" => mine[t] = NoFile

OnlyAttached == Referenced \subseteq Attached /\ \A t \in Tasks : old[t] \in Attached

(* A clean-up by a task whose request has not been committed is of its own   *)
(* key, and finds it nowhere.                                                *)
CleansOwn ==
    \A t \in Tasks : tab[t] \in {"cleaning", "deleting"} /\ request[t] # "committed" =>
        cleanup[t].file = mine[t] /\ ~cleanup[t].found

Kept == Typed /\ OwnKeys /\ OnlyAttached /\ CleansOwn /\ ForgottenForAReason

(* A key whose request has not been committed is nobody else's.              *)
LEMMA NotAttached ==
    ASSUME OwnKeys, NEW t \in Tasks, mine[t] # NoFile, request[t] # "committed"
    PROVE  mine[t] \notin Attached
BY DEF OwnKeys, Attached

(* Steps of a task that uploads nothing and commits nothing, adds no         *)
(* reference, and either goes on or ends well.                               *)
LEMMA StepKeeps ==
    ASSUME Kept, Typed', NEW t \in Tasks, UNCHANGED mine, stored' \subseteq stored,
           Referenced' \subseteq Attached,
           \A u \in Tasks : request[u] = "committed" => request'[u] = "committed",
           \A u \in Tasks \ {t} : /\ tab'[u] = tab[u] /\ cleanup'[u] = cleanup[u]
                                  /\ request'[u] = request[u] /\ old'[u] = old[u],
           old'[t] \in Attached,
           tab'[t] \in {"start", "open"} => tab[t] \in {"start", "open"} /\ request'[t] = request[t],
           tab'[t] = "committing" => tab[t] \in {"start", "open", "committing"},
           tab'[t] \in {"cleaning", "deleting"} /\ request'[t] # "committed" =>
               cleanup'[t].file = mine[t] /\ ~cleanup'[t].found,
           tab'[t] \in Working \cup {"unanswered", "closed", "uncleaned"} \/ mine[t] \notin stored' \/ request'[t] = "committed"
    PROVE  Kept'
<1>1. OwnKeys' BY DEF Kept, OwnKeys
<1>2. Attached \subseteq Attached' BY DEF Attached
<1>3. OnlyAttached' BY <1>2 DEF Kept, OnlyAttached
<1>4. CleansOwn' BY DEF Kept, CleansOwn
<1>5. ForgottenForAReason' BY DEF Kept, ForgottenForAReason
<1>6. QED BY <1>1, <1>3, <1>4, <1>5 DEF Kept

(* What is referenced when the tables do not change.                         *)
LEMMA SameReferences ==
    ASSUME UNCHANGED <<rows, logo, versions>>
    PROVE  Referenced' = Referenced
BY DEF Referenced

LEMMA EndTakesOne ==
    ASSUME Typed, NEW t \in Tasks, NEW step \in Ended, End(t, step)
    PROVE  /\ tab'[t] = step /\ old'[t] = NoFile
           /\ \A u \in Tasks \ {t} : tab'[u] = tab[u] /\ cleanup'[u] = cleanup[u] /\ old'[u] = old[u]
BY DEF Typed, TypeOK, End, Goto

(* A task that ends, for a reason to forget or leaving nothing behind.       *)
LEMMA EndKeeps ==
    ASSUME Kept, Typed', NEW t \in Tasks, NEW step \in Ended, End(t, step),
           UNCHANGED <<mine, request>>, stored' \subseteq stored, Referenced' \subseteq Attached,
           step \in {"unanswered", "closed", "uncleaned"} \/ mine[t] \notin stored' \/ request[t] = "committed"
    PROVE  Kept'
<1>1. /\ tab'[t] = step /\ old'[t] \in Attached
      /\ \A u \in Tasks \ {t} : tab'[u] = tab[u] /\ cleanup'[u] = cleanup[u] /\ old'[u] = old[u]
  BY EndTakesOne DEF Kept, Attached
<1>2. step \notin {"start", "open", "committing", "cleaning", "deleting"}
  BY DEF Ended
<1>3. QED BY <1>1, <1>2, StepKeeps

(* A task that asks for its own key to be cleaned up, or that has succeeded. *)
LEMMA CleanUpKeeps ==
    ASSUME Kept, Typed', NEW t \in Tasks, NEW f \in Key, NEW step \in Ended, CleanUp(t, f, step),
           UNCHANGED <<stored, rows, logo, versions, request, mine>>,
           f = mine[t] \/ request[t] = "committed"
    PROVE  Kept'
<1>1. Referenced' \subseteq Attached
  BY SameReferences DEF Kept, OnlyAttached
<1>2. CASE f = NoFile
  <2>1. mine[t] \notin stored \/ request[t] = "committed"
    BY <1>2, MediaAssumption DEF Kept, Typed, TypeOK
  <2>2. QED BY <1>1, <1>2, <2>1, EndKeeps DEF CleanUp
<1>3. CASE f # NoFile
  <2>1. /\ tab' = [tab EXCEPT ![t] = "cleaning"] /\ old' = old
        /\ cleanup' = [cleanup EXCEPT ![t] = [file |-> f, unread |-> Tables, found |-> FALSE]]
    BY <1>3 DEF CleanUp, Goto, NoCleanup
  <2>2. /\ tab'[t] = "cleaning" /\ cleanup'[t].file = f /\ cleanup'[t].found = FALSE
        /\ \A u \in Tasks \ {t} : tab'[u] = tab[u] /\ cleanup'[u] = cleanup[u]
    BY <2>1 DEF Kept, Typed, TypeOK
  <2>3. old'[t] \in Attached BY <2>1 DEF Kept, OnlyAttached
  <2>4. "cleaning" \in Working BY DEF Working
  <2>5. QED BY <1>1, <2>1, <2>2, <2>3, <2>4, StepKeeps
<1>4. QED BY <1>2, <1>3

(* Looking for one's own key in a table finds nothing.                       *)
LEMMA LookKeeps ==
    ASSUME Kept, Typed', NEW t \in Tasks, Look(t)
    PROVE  Kept'
<1>0. /\ Referenced' \subseteq Attached /\ tab[t] = "cleaning"
      /\ UNCHANGED <<stored, request, mine>>
      /\ Typed
  BY SameReferences DEF Kept, OnlyAttached, Look
<1>1. PICK table \in cleanup[t].unread :
        LET unread == cleanup[t].unread \ {table}
            found  == cleanup[t].found \/ Finds(cleanup[t].file, table)
        IN IF unread = {} /\ found THEN End(t, "refused")
           ELSE /\ IF unread = {} THEN Goto(t, "deleting") ELSE UNCHANGED tab
                /\ cleanup' = [cleanup EXCEPT ![t].unread = unread, ![t].found = found]
                /\ UNCHANGED old
  BY DEF Look
<1> DEFINE unread == cleanup[t].unread \ {table}
           found  == cleanup[t].found \/ Finds(cleanup[t].file, table)
<1>2. request[t] # "committed" => cleanup[t].file = mine[t] /\ ~found
  <2> SUFFICES ASSUME request[t] # "committed"
               PROVE  cleanup[t].file = mine[t] /\ ~Finds(mine[t], table) /\ ~cleanup[t].found
    OBVIOUS
  <2>1. cleanup[t].file = mine[t] /\ ~cleanup[t].found
    BY <1>0 DEF Kept, CleansOwn
  <2>2. mine[t] \in Files /\ table \in Tables
    BY <1>0, <2>1 DEF Typed, TypeOK
  <2>3. mine[t] \notin Referenced
    BY <2>2, NotAttached, MediaAssumption DEF Kept, OnlyAttached
  <2>4. QED BY <2>1, <2>2, <2>3, ReferencedIsFound
<1>3. CASE unread = {} /\ found
  <2>1. End(t, "refused") BY <1>1, <1>3
  <2>2. QED BY <1>0, <1>2, <1>3, <2>1, EndKeeps DEF Ended
<1>4. CASE ~(unread = {} /\ found)
  <2>1. /\ cleanup'[t].found = found
        /\ cleanup'[t].file = cleanup[t].file
        /\ tab'[t] \in {"cleaning", "deleting"}
        /\ \A u \in Tasks \ {t} : tab'[u] = tab[u] /\ cleanup'[u] = cleanup[u]
        /\ UNCHANGED old
    BY <1>0, <1>1, <1>4 DEF Typed, TypeOK, Goto
  <2> HIDE DEF unread, found
  <2>2. old'[t] \in Attached BY <2>1 DEF Kept, OnlyAttached
  <2>3. {"cleaning", "deleting"} \subseteq Working BY DEF Working
  <2>4. QED BY <1>0, <1>2, <2>1, <2>2, <2>3, StepKeeps
<1>5. QED BY <1>3, <1>4

(* A new key is nobody's, and referenced nowhere.                            *)
LEMMA UploadKeeps ==
    ASSUME Kept, Typed', NEW t \in Tasks, Upload(t)
    PROVE  Kept'
<1>0. Typed /\ OwnKeys /\ OnlyAttached /\ CleansOwn /\ ForgottenForAReason
  BY DEF Kept
<1>1. PICK f \in Files \ Used : stored' = stored \cup {f} /\ mine' = [mine EXCEPT ![t] = f]
  BY DEF Upload
<1>2. /\ UNCHANGED <<rows, logo, versions>> /\ tab[t] \in {"start", "open"}
      /\ request[t] = "none" /\ mine[t] = NoFile
  BY <1>0 DEF Upload, OwnKeys
<1>3. /\ mine'[t] = f /\ f # FirstLogo /\ f # NoFile
      /\ \A u \in Tasks \ {t} : mine'[u] = mine[u] /\ mine[u] # f
  BY <1>0, <1>1, MediaAssumption DEF Typed, TypeOK, Used
<1>4. /\ tab'[t] \in {"waiting", "unanswered"} /\ request'[t] # "committed"
      /\ \A u \in Tasks \ {t} : /\ tab'[u] = tab[u] /\ cleanup'[u] = cleanup[u]
                                /\ request'[u] = request[u] /\ old'[u] = old[u]
      /\ old'[t] \in {old[t], NoFile}
  <2>1. CASE Goto(t, "waiting") /\ request' = [request EXCEPT ![t] = "running"]
             /\ UNCHANGED <<old, cleanup>>
    BY <1>0, <2>1 DEF Goto, Typed, TypeOK
  <2>2. CASE End(t, "unanswered") /\ UNCHANGED request
    BY <1>0, <1>2, <2>2, EndTakesOne DEF Ended
  <2>3. QED BY <2>1, <2>2 DEF Upload
<1>5. OwnKeys' BY <1>0, <1>3, <1>4 DEF OwnKeys
<1>6. Attached' = Attached
  <2>1. {u \in Tasks : request'[u] = "committed"} = {u \in Tasks : request[u] = "committed"}
    BY <1>2, <1>4
  <2>2. t \notin {u \in Tasks : request[u] = "committed"} BY <1>2
  <2>3. QED BY <1>3, <2>1, <2>2 DEF Attached
<1>7. OnlyAttached'
  BY <1>0, <1>2, <1>4, <1>6, SameReferences DEF OnlyAttached, Attached
<1>8. CleansOwn' BY <1>0, <1>3, <1>4 DEF CleansOwn
<1>9. ForgottenForAReason'
  BY <1>0, <1>1, <1>3, <1>4 DEF ForgottenForAReason, Working
<1>10. QED BY <1>5, <1>7, <1>8, <1>9 DEF Kept

(* What requests reference from now on is what they have committed, or what  *)
(* was attached before.                                                      *)
LEMMA RequestKeeps ==
    ASSUME Kept, Typed', NEW t \in Tasks, RequestStep(t)
    PROVE  Kept'
<1>0. Typed /\ OwnKeys /\ OnlyAttached /\ CleansOwn /\ ForgottenForAReason
  BY DEF Kept
<1>1. CASE CommitAttach(t) \/ CommitLogo(t)
  <2>1. /\ request' = [request EXCEPT ![t] = "committed"]
        /\ UNCHANGED <<stored, versions, tab, mine, old, cleanup>>
        /\ Referenced' \subseteq Referenced \cup {mine[t]}
    BY <1>1 DEF CommitAttach, CommitLogo, Referenced
  <2>2. request'[t] = "committed" /\ \A u \in Tasks \ {t} : request'[u] = request[u]
    BY <1>0, <2>1 DEF Typed, TypeOK
  <2>3. request[t] # "none"
    BY <1>1 DEF CommitAttach, CommitLogo
  <2>4. Attached \subseteq Attached' /\ mine[t] \in Attached'
    BY <2>1, <2>2 DEF Attached
  <2>5. OwnKeys' BY <1>0, <2>1, <2>2, <2>3 DEF OwnKeys
  <2>6. OnlyAttached' BY <1>0, <2>1, <2>4 DEF OnlyAttached
  <2>7. CleansOwn' BY <1>0, <2>1, <2>2 DEF CleansOwn
  <2>8. ForgottenForAReason' BY <1>0, <2>1, <2>2 DEF ForgottenForAReason
  <2>9. QED BY <2>5, <2>6, <2>7, <2>8 DEF Kept
<1>2. CASE Refuse(t)
  <2>1. /\ request'[t] = "refused" /\ \A u \in Tasks \ {t} : request'[u] = request[u]
        /\ request[t] = "running"
        /\ UNCHANGED <<stored, rows, logo, versions, tab, mine, old, cleanup>>
    BY <1>0, <1>2 DEF Refuse, Typed, TypeOK
  <2>2. Attached' = Attached
    <3>1. {u \in Tasks : request'[u] = "committed"} = {u \in Tasks : request[u] = "committed"}
      BY <2>1
    <3>2. QED BY <2>1, <3>1 DEF Attached
  <2>3. OwnKeys' BY <1>0, <2>1 DEF OwnKeys
  <2>4. OnlyAttached' BY <1>0, <2>1, <2>2, SameReferences DEF OnlyAttached
  <2>5. CleansOwn' BY <1>0, <2>1 DEF CleansOwn
  <2>6. ForgottenForAReason' BY <1>0, <2>1 DEF ForgottenForAReason
  <2>7. QED BY <2>3, <2>4, <2>5, <2>6 DEF Kept
<1>3. CASE Detach(t) \/ Unpublish(t)
  <2>1. /\ UNCHANGED <<stored, logo, versions, request, mine, old, cleanup>>
        /\ rows' \subseteq rows /\ tab[t] = "start" /\ Goto(t, "done")
    BY <1>3 DEF Detach, Unpublish
  <2>2. Referenced' \subseteq Attached
    BY <1>0, <2>1 DEF OnlyAttached, Referenced
  <2>3. mine[t] \notin stored
    BY <1>0, <2>1, MediaAssumption DEF OwnKeys, Typed, TypeOK
  <2>4. tab'[t] = "done" /\ \A u \in Tasks \ {t} : tab'[u] = tab[u]
    BY <1>0, <2>1 DEF Goto, Typed, TypeOK
  <2>5. old'[t] \in Attached BY <1>0, <2>1 DEF OnlyAttached
  <2>6. QED BY <2>1, <2>2, <2>3, <2>4, <2>5, StepKeeps
<1>4. CASE PublishRead(t)
  <2>1. /\ UNCHANGED <<stored, rows, logo, versions, request, mine, cleanup>>
        /\ tab[t] = "start" /\ tab'[t] = "committing" /\ old'[t] = logo
        /\ \A u \in Tasks \ {t} : tab'[u] = tab[u] /\ old'[u] = old[u]
    BY <1>0, <1>4 DEF PublishRead, Goto, Typed, TypeOK
  <2>2. Referenced' \subseteq Attached /\ logo \in Attached
    BY <1>0, <2>1, SameReferences DEF OnlyAttached, Referenced, Attached
  <2>3. "committing" \in Working BY DEF Working
  <2>4. QED BY <2>1, <2>2, <2>3, StepKeeps
<1>5. CASE PublishCommit(t)
  <2> DEFINE snapshot == [files |-> rows, logo |-> old[t]]
  <2>1. snapshot \in Version BY <1>0 DEF Typed, TypeOK, Version
  <2>2. /\ UNCHANGED <<rows, logo, stored, request, mine>> /\ versions' = Append(versions, snapshot)
        /\ End(t, "done") /\ tab[t] = "committing"
    BY <1>5 DEF PublishCommit
  <2>3. NamedBy(snapshot) \subseteq Attached
    BY <1>0 DEF NamedBy, OnlyAttached, Referenced
  <2> HIDE DEF snapshot
  <2>4. ASSUME NEW i \in DOMAIN versions'
        PROVE  versions'[i] = snapshot \/ (i \in DOMAIN versions /\ versions'[i] = versions[i])
    BY <1>0, <2>1, <2>2, AppendProperties DEF Typed, TypeOK
  <2>5. Referenced' \subseteq Referenced \cup NamedBy(snapshot)
    BY <2>2, <2>4 DEF Referenced, NamedBy
  <2>6. mine[t] \notin stored'
    BY <1>0, <2>2, MediaAssumption DEF OwnKeys, Typed, TypeOK
  <2>7. QED BY <1>0, <2>2, <2>3, <2>5, <2>6, EndKeeps DEF OnlyAttached, Ended
<1>6. QED BY <1>1, <1>2, <1>3, <1>4, <1>5 DEF RequestStep

LEMMA NextKept == Kept /\ Typed' /\ [Next]_vars => Kept'
<1> SUFFICES ASSUME Kept, Typed', [Next]_vars PROVE Kept'
  OBVIOUS
<1>0. Typed /\ OwnKeys /\ OnlyAttached /\ CleansOwn /\ ForgottenForAReason
  BY DEF Kept
<1>1. CASE UNCHANGED vars
  BY <1>0, <1>1, SameReferences
     DEF vars, Kept, OwnKeys, OnlyAttached, Attached, CleansOwn, ForgottenForAReason
<1>2. ASSUME NEW t \in Tasks, BrowserStep(t) PROVE Kept'
  <2>1. CASE OpenSettings(t)
    <3>1. /\ UNCHANGED <<stored, rows, logo, versions, request, mine, cleanup>>
          /\ tab[t] = "start" /\ tab'[t] = "open" /\ old'[t] = logo
          /\ \A u \in Tasks \ {t} : tab'[u] = tab[u] /\ old'[u] = old[u]
      BY <1>0, <2>1 DEF OpenSettings, Goto, Typed, TypeOK
    <3>2. Referenced' \subseteq Attached /\ logo \in Attached
      BY <1>0, <3>1, SameReferences DEF OnlyAttached, Referenced, Attached
    <3>3. "open" \in Working BY DEF Working
    <3>4. QED BY <3>1, <3>2, <3>3, StepKeeps
  <2>2. CASE Upload(t) BY <2>2, UploadKeeps
  <2>3. CASE DropLogo(t)
    <3>1. /\ UNCHANGED <<stored, rows, logo, versions, mine, old, cleanup>>
          /\ tab[t] = "open" /\ tab'[t] = "waiting" /\ request'[t] = "running"
          /\ \A u \in Tasks \ {t} : tab'[u] = tab[u] /\ request'[u] = request[u]
          /\ request[t] = "none"
      BY <1>0, <2>3 DEF DropLogo, Goto, Typed, TypeOK, OwnKeys
    <3>2. Referenced' \subseteq Attached /\ old'[t] \in Attached
      BY <1>0, <3>1, SameReferences DEF OnlyAttached
    <3>3. "waiting" \in Working BY DEF Working
    <3>4. QED BY <3>1, <3>2, <3>3, StepKeeps
  <2>4. CASE Succeed(t)
    <3>1. (IF kind[t] = "attach" THEN NoFile ELSE old[t]) \in Key BY <1>0 DEF Typed, TypeOK, Key
    <3>2. QED BY <2>4, <3>1, CleanUpKeeps DEF Succeed, Ended
  <2>5. CASE GiveUp(t)
    <3>1. mine[t] \in Key BY <1>0 DEF Typed, TypeOK
    <3>2. QED BY <2>5, <3>1, CleanUpKeeps DEF GiveUp, Ended
  <2>6. CASE Close(t)
    <3>1. Referenced' \subseteq Attached
      BY <1>0, <2>6, SameReferences DEF Close, OnlyAttached
    <3>2. QED BY <2>6, <3>1, EndKeeps DEF Close, Ended
  <2>7. QED BY <1>2, <2>1, <2>2, <2>3, <2>4, <2>5, <2>6 DEF BrowserStep
<1>3. ASSUME NEW t \in Tasks, CleanUpStep(t) PROVE Kept'
  <2>1. CASE Look(t) BY <2>1, LookKeeps
  <2>2. CASE Delete(t)
    <3>1. /\ UNCHANGED <<rows, logo, versions, request, mine>>
          /\ stored' = stored \ {cleanup[t].file} /\ End(t, "done") /\ tab[t] = "deleting"
      BY <2>2 DEF Delete
    <3>2. Referenced' \subseteq Attached
      BY <1>0, <3>1, SameReferences DEF OnlyAttached
    <3>3. mine[t] \notin stored' \/ request[t] = "committed"
      BY <1>0, <3>1 DEF CleansOwn
    <3>4. QED BY <3>1, <3>2, <3>3, EndKeeps DEF Ended
  <2>3. CASE CleanUpFails(t)
    <3>1. Referenced' \subseteq Attached
      BY <1>0, <2>3, SameReferences DEF CleanUpFails, OnlyAttached
    <3>2. QED BY <2>3, <3>1, EndKeeps DEF CleanUpFails, Ended
  <2>4. QED BY <1>3, <2>1, <2>2, <2>3 DEF CleanUpStep
<1>4. QED BY <1>1, <1>2, <1>3, RequestKeeps DEF Next

(* What was stored and never attached is being worked on, or its key never   *)
(* reached the browser, its tab was closed or its clean-up failed, for any    *)
(* tasks, files and failures: no other path forgets an upload.                *)
THEOREM UploadsAreForgottenForAReason == Spec => []ForgottenForAReason
<1>1. Init => Kept
  <2> SUFFICES ASSUME Init PROVE Kept
    OBVIOUS
  <2>1. Typed BY InitTyped
  <2>2. Referenced = {logo} \ {NoFile} BY DEF Init, Referenced
  <2>3. OnlyAttached BY <2>2 DEF Init, OnlyAttached, Attached
  <2>4. OwnKeys /\ CleansOwn /\ ForgottenForAReason
    BY MediaAssumption DEF Init, OwnKeys, CleansOwn, ForgottenForAReason, Working
  <2>5. QED BY <2>1, <2>3, <2>4 DEF Kept
<1>2. Kept /\ [Next]_vars => Kept'
  BY NextTyped, NextKept DEF Kept
<1>3. Kept => ForgottenForAReason BY DEF Kept
<1>4. QED BY <1>1, <1>2, <1>3, PTL DEF Spec
=============================================================================
