-------------------------- MODULE PublicationProofs --------------------------
(***************************************************************************)
(* Theorems about Publication.tla, for any set of requests. Part 1: types  *)
(* and row locks. Part 2: versions, status, audit entries and the key, from*)
(* the locks. Part 3: the QR files that publish generates, installs and    *)
(* discards. Part 4: Publication implements PassportRegister.              *)
(***************************************************************************)
EXTENDS PublicationProperties, SequenceTheorems, TLAPS

-----------------------------------------------------------------------------
(* Part 1: types and row locks.                                             *)

(* What the helpers of the specification preserve.                          *)

LEMMA StepNames ==
    /\ {"start", "upsert", "makeQr", "lockProduct", "lockPassport", "readRow", "readKids", "commit",
        "discard", "unpublishPassport", "unpublishProduct", "checked", "keyShare", "write",
        "answered", "leaked", "crashed"} = Steps
    /\ AllKinds = {"publish", "unpublish", "update", "childWrite", "childAdd", "archive"}
  BY DEF Steps, Running, Ended, PublishSteps, UnpublishSteps, EditSteps, AllKinds

LEMMA BlankTyped == Blank \in Memory /\ NoContent \in Content
  BY DEF Blank, NoContent, Memory, Content, Editor, NeverSet

LEMMA GotoTyped ==
  ASSUME TypeOK, NEW r \in Requests, NEW s \in Steps, Goto(r, s)
  PROVE  pc' \in [Requests -> Steps]
  BY DEF TypeOK, Goto

LEMMA EndTyped ==
  ASSUME TypeOK, NEW r \in Requests, NEW s \in Steps, End(r, s)
  PROVE  pc' \in [Requests -> Steps] /\ mem' \in [Requests -> Memory]
  BY GotoTyped, BlankTyped DEF TypeOK, End

LEMMA AcquireTyped ==
  ASSUME TypeOK, NEW r \in Requests, NEW row \in {"product", "passport"}, Acquire(r, row)
  PROVE  rowLock' \in [{"product", "passport"} -> Editor]
  BY DEF TypeOK, Acquire, Editor

LEMMA ReleaseTyped ==
  ASSUME TypeOK, NEW r \in Requests, Release(r)
  PROVE  rowLock' \in [{"product", "passport"} -> Editor] /\ keyShare' \subseteq Requests
  BY DEF TypeOK, Release, Editor

LEMMA LogTyped ==
  ASSUME TypeOK, NEW r \in Requests, NEW v \in Nat, Log(r, v)
  PROVE  audit' \subseteq Entry
  BY PublicationAssumption DEF TypeOK, Log, Entry

LEMMA StampTyped ==
  ASSUME TypeOK, NEW r \in Requests, NEW t \in Instants, mem' = [mem EXCEPT ![r].at = t]
  PROVE  t \in Nat /\ mem' \in [Requests -> Memory]
  BY DEF TypeOK, Instants, Memory

-----------------------------------------------------------------------------
(* Type correctness, one lemma per kind of step.                            *)

LEMMA InitTypeOK == Init => TypeOK
  <1> SUFFICES ASSUME Init PROVE TypeOK
    OBVIOUS
  <1>1. product \in Product
    BY DEF Init, Product, Content, Editor
  <1>2. passport \in Passport
    BY DEF Init, Passport, Editor, NeverSet
  <1>3. rowLock \in [{"product", "passport"} -> Editor]
    BY DEF Init, Editor
  <1> QED
    BY <1>1, <1>2, <1>3, StepNames, BlankTyped DEF Init, TypeOK

LEMMA CommitTypeOK ==
  ASSUME TypeOK, NEW r \in Requests, NEW acked \in BOOLEAN, PublishCommit(r, acked)
  PROVE  TypeOK'
<1> DEFINE v == mem[r].version + 1
           snapshot == [row |-> mem[r].row, kids |-> mem[r].kids, at |-> mem[r].at]
<1>1. mem[r] \in Memory
  BY DEF TypeOK
<1>2. v \in Nat /\ snapshot \in Snapshot /\ ChosenQr(r) \in Editor
  BY <1>1 DEF Memory, Snapshot, ChosenQr
<1>3. passport' \in Passport
  BY <1>1, <1>2 DEF PublishCommit, PublishedPassport, TypeOK, Passport, Memory, NeverSet
<1>4. product' \in Product
  BY <1>1 DEF PublishCommit, PublishedProduct, TypeOK, Product, Memory
<1>5. DOMAIN history' \subseteq Nat /\ \A n \in DOMAIN history' : history'[n] \in Snapshot
  <2>1. AddVersion(v, snapshot)
    BY DEF PublishCommit
  <2> HIDE DEF v, snapshot
  <2> QED
    BY <1>2, <2>1 DEF AddVersion, TypeOK
<1>6. audit' \subseteq Entry
  BY <1>2, LogTyped DEF PublishCommit
<1>7. pc' \in [Requests -> Steps] /\ mem' \in [Requests -> Memory]
  BY StepNames, EndTyped, GotoTyped DEF PublishCommit, AfterCommit, TypeOK
<1> QED
  BY <1>3, <1>4, <1>5, <1>6, <1>7, ReleaseTyped DEF PublishCommit, TypeOK

LEMMA PublishTypeOK ==
  ASSUME TypeOK, NEW r \in Requests, Publish(r) \/ CommitUnacked(r)
  PROVE  TypeOK'
<1>0. mem[r] \in Memory
  BY DEF TypeOK
<1>1. CASE PublishCheck(r)
  BY <1>1, StepNames, GotoTyped DEF PublishCheck, TypeOK
<1>2. CASE PublishUpsert(r)
  <2>1. passport' \in Passport /\ mem' \in [Requests -> Memory]
    BY <1>2 DEF PublishUpsert, TypeOK, Passport, Memory
  <2> QED
    BY <1>2, <2>1, StepNames, GotoTyped DEF PublishUpsert, TypeOK
<1>3. CASE PublishMakeQr(r)
  <2>1. mem' \in [Requests -> Memory]
    BY <1>3 DEF PublishMakeQr, TypeOK, Memory, Editor
  <2> QED
    BY <1>3, <2>1, StepNames, GotoTyped DEF PublishMakeQr, TypeOK
<1>4. CASE PublishLockProduct(r)
  BY <1>4, StepNames, GotoTyped, AcquireTyped DEF PublishLockProduct, TypeOK
<1>5. CASE PublishLockPassport(r)
  <2>1. mem' \in [Requests -> Memory]
    BY <1>5 DEF PublishLockPassport, TypeOK, Passport, Memory
  <2> QED
    BY <1>5, <2>1, StepNames, GotoTyped, AcquireTyped DEF PublishLockPassport, TypeOK
<1>6. CASE PublishReadRow(r)
  <2>1. mem' \in [Requests -> Memory]
    BY <1>6 DEF PublishReadRow, TypeOK, Product, Memory
  <2> QED
    BY <1>6, <2>1, StepNames, GotoTyped DEF PublishReadRow, TypeOK
<1>7. CASE PublishReadKids(r)
  <2>1. PICK t \in Instants : now' = t /\ mem' = [mem EXCEPT ![r].kids = product.kids, ![r].at = t]
    BY <1>7 DEF PublishReadKids
  <2>2. t \in Nat /\ product.kids \in Content
    BY DEF TypeOK, Instants, Product
  <2>3. now' \in Nat /\ mem' \in [Requests -> Memory]
    BY <2>1, <2>2 DEF TypeOK, Memory
  <2> QED
    BY <1>7, <2>3, StepNames, GotoTyped DEF PublishReadKids, TypeOK
<1>8. CASE PublishCommit(r, TRUE) \/ PublishCommit(r, FALSE)
  BY <1>8, CommitTypeOK
<1>9. CASE PublishDiscard(r)
  BY <1>9, StepNames, EndTyped DEF PublishDiscard, TypeOK
<1> QED
  BY <1>1, <1>2, <1>3, <1>4, <1>5, <1>6, <1>7, <1>8, <1>9 DEF Publish, CommitUnacked

LEMMA UnpublishTypeOK ==
  ASSUME TypeOK, NEW r \in Requests, Unpublish(r)
  PROVE  TypeOK'
<1>1. CASE UnpublishCheck(r)
  BY <1>1, StepNames, GotoTyped, StampTyped DEF UnpublishCheck, TypeOK
<1>2. CASE UnpublishPassport(r)
  BY <1>2, StepNames, GotoTyped, AcquireTyped DEF UnpublishPassport, TypeOK
<1>3. CASE UnpublishProduct(r)
  <2>1. mem[r].at \in Nat
    BY DEF TypeOK, Memory
  <2>2. passport' \in Passport
    BY <1>3, <2>1 DEF UnpublishProduct, TypeOK, Passport
  <2>3. product' \in Product
    BY <1>3, <2>1 DEF UnpublishProduct, TypeOK, Product
  <2> QED
    BY <1>3, <2>2, <2>3, StepNames, EndTyped, ReleaseTyped, LogTyped DEF UnpublishProduct, TypeOK
<1> QED
  BY <1>1, <1>2, <1>3 DEF Unpublish

LEMMA EditedTyped ==
  ASSUME TypeOK, NEW r \in Requests, NEW p \in Edited(r)
  PROVE  p \in Product
<1>1. mem[r].at \in Nat
  BY DEF TypeOK, Memory
<1>2. Written(r) \subseteq Content
  BY DEF Written, Content, Editor
<1>3. product.kids \in Content
  BY DEF TypeOK, Product
<1>4. Touched(r) \in Product
  BY <1>1 DEF Touched, TypeOK, Product
<1>5. CASE p \in ArchivedDraft(r)
  BY <1>4, <1>5 DEF ArchivedDraft, Product
<1>6. CASE p \in UpdatedDraft(r)
  <2>1. PICK new \in [row: Written(r), kids: Written(r) \cup {product.kids}] :
            p = [Touched(r) EXCEPT !.row = new.row, !.kids = new.kids]
    BY <1>6 DEF UpdatedDraft
  <2>2. new.row \in Content /\ new.kids \in Content
    BY <1>2, <1>3
  <2> QED
    BY <1>4, <2>1, <2>2 DEF Product
<1>7. CASE p \in ChangedKids(r)
  <2>1. PICK kids \in Content : p = [Touched(r) EXCEPT !.kids = kids]
    BY <1>2, <1>7 DEF ChangedKids
  <2> QED
    BY <1>4, <2>1 DEF Product
<1> QED
  BY <1>5, <1>6, <1>7 DEF Edited

LEMMA EditTypeOK ==
  ASSUME TypeOK, NEW r \in Requests, Edit(r)
  PROVE  TypeOK'
<1>1. CASE EditCheck(r)
  BY <1>1, StepNames, GotoTyped DEF EditCheck, TypeOK
<1>2. CASE EditKeyShare(r)
  BY <1>2, StepNames, GotoTyped DEF EditKeyShare, TypeOK
<1>3. CASE EditStamp(r)
  BY <1>3, StepNames, GotoTyped, StampTyped DEF EditStamp, TypeOK
<1>4. CASE EditWrite(r)
  BY <1>4, StepNames, EditedTyped, EndTyped, ReleaseTyped, LogTyped DEF EditWrite, TypeOK
<1> QED
  BY <1>1, <1>2, <1>3, <1>4 DEF Edit

LEMMA FailureTypeOK ==
  ASSUME TypeOK, NEW r \in Requests, Fail(r) \/ MakeQrFails(r) \/ DiscardFails(r) \/ Crash(r)
  PROVE  TypeOK'
<1>1. CASE Fail(r)
  BY <1>1, StepNames, GotoTyped, EndTyped, ReleaseTyped DEF Fail, TypeOK
<1>2. CASE MakeQrFails(r)
  BY <1>2, StepNames, EndTyped DEF MakeQrFails, TypeOK
<1>3. CASE DiscardFails(r)
  BY <1>3, StepNames, EndTyped DEF DiscardFails, TypeOK
<1>4. CASE Crash(r)
  BY <1>4, StepNames, EndTyped, ReleaseTyped DEF Crash, TypeOK
<1> QED
  BY <1>1, <1>2, <1>3, <1>4

LEMMA NextTypeOK == TypeOK /\ [Next]_vars => TypeOK'
<1> SUFFICES ASSUME TypeOK, [Next]_vars PROVE TypeOK'
  OBVIOUS
<1>1. CASE UNCHANGED vars
  BY <1>1 DEF vars, TypeOK
<1>2. CASE \E r \in Requests : Step(r) \/ Fail(r) \/ MakeQrFails(r) \/ DiscardFails(r)
                               \/ Crash(r) \/ CommitUnacked(r)
  BY <1>2, PublishTypeOK, UnpublishTypeOK, EditTypeOK, FailureTypeOK DEF Step
<1> QED
  BY <1>1, <1>2 DEF Next, Quiescent

(* Every variable stays within its type, whatever the requests do.          *)
THEOREM TypeCorrect == Spec => []TypeOK
  BY InitTypeOK, NextTypeOK, PTL DEF Spec

-----------------------------------------------------------------------------
(* Locks *)

(* A statement that goes through found its row free.                        *)
LEMMA FreeRow ==
  ASSUME NEW r \in Requests, NEW step, At(r, step)
  PROVE  /\ step \in {"lockProduct", "unpublishProduct", "keyShare", "write"} =>
              rowLock["product"] = NoOne
         /\ step \in {"upsert", "lockPassport", "unpublishPassport"} =>
              rowLock["passport"] = NoOne
  BY DEF At, Blocking, Holder

LEMMA InitLocks == Init => LocksMatchSteps
  BY PublicationAssumption DEF Init, LocksMatchSteps, HoldsProduct, HoldsPassport

(* A request that moves on without taking or giving up a lock.              *)
LEMMA MoveKeepsLocks ==
  ASSUME TypeOK, LocksMatchSteps, NEW r \in Requests, NEW s \in Steps, Goto(r, s),
         UNCHANGED <<rowLock, keyShare, kind>>,
         s \in HoldsProduct <=> pc[r] \in HoldsProduct,
         s \in HoldsPassport <=> pc[r] \in HoldsPassport,
         r \in keyShare => s \in {"checked", "write"}
  PROVE  LocksMatchSteps'
  BY DEF TypeOK, LocksMatchSteps, Goto, HoldsProduct, HoldsPassport

(* A request that gives up everything and leaves its transaction.           *)
LEMMA ReleaseKeepsLocks ==
  ASSUME TypeOK, LocksMatchSteps, NEW r \in Requests, NEW s \in Steps, Goto(r, s), Release(r),
         UNCHANGED kind, s \notin HoldsProduct \cup HoldsPassport
  PROVE  LocksMatchSteps'
  BY PublicationAssumption DEF TypeOK, LocksMatchSteps, Goto, Release, HoldsProduct, HoldsPassport

LEMMA PublishLocks ==
  ASSUME TypeOK, LocksMatchSteps, NEW r \in Requests, Publish(r) \/ CommitUnacked(r)
  PROVE  LocksMatchSteps'
<1> USE StepNames DEF HoldsProduct, HoldsPassport
<1>0. r \in keyShare => pc[r] \in {"checked", "write"}
  BY DEF LocksMatchSteps
<1>1. CASE PublishCheck(r)
  BY <1>0, <1>1, MoveKeepsLocks DEF PublishCheck
<1>2. CASE PublishUpsert(r)
  BY <1>0, <1>2, MoveKeepsLocks DEF PublishUpsert, At
<1>3. CASE PublishMakeQr(r)
  BY <1>0, <1>3, MoveKeepsLocks DEF PublishMakeQr, At
<1>4. CASE PublishLockProduct(r)
  <2>1. rowLock["product"] = NoOne /\ pc[r] = "lockProduct"
    BY <1>4, FreeRow DEF PublishLockProduct, At
  <2> QED
    BY <1>0, <1>4, <2>1, PublicationAssumption
       DEF PublishLockProduct, Acquire, Goto, LocksMatchSteps, TypeOK
<1>5. CASE PublishLockPassport(r)
  <2>1. rowLock["passport"] = NoOne /\ pc[r] = "lockPassport"
    BY <1>5, FreeRow DEF PublishLockPassport, At
  <2> QED
    BY <1>0, <1>5, <2>1, PublicationAssumption
       DEF PublishLockPassport, Acquire, Goto, LocksMatchSteps, TypeOK
<1>6. CASE PublishReadRow(r)
  BY <1>0, <1>6, MoveKeepsLocks DEF PublishReadRow, At
<1>7. CASE PublishReadKids(r)
  BY <1>0, <1>7, MoveKeepsLocks DEF PublishReadKids, At
<1>8. CASE PublishCommit(r, TRUE) \/ PublishCommit(r, FALSE)
  BY <1>8, ReleaseKeepsLocks DEF PublishCommit, AfterCommit, End
<1>9. CASE PublishDiscard(r)
  BY <1>0, <1>9, MoveKeepsLocks DEF PublishDiscard, At, End
<1> QED
  BY <1>1, <1>2, <1>3, <1>4, <1>5, <1>6, <1>7, <1>8, <1>9 DEF Publish, CommitUnacked

LEMMA UnpublishLocks ==
  ASSUME TypeOK, LocksMatchSteps, NEW r \in Requests, Unpublish(r)
  PROVE  LocksMatchSteps'
<1> USE StepNames DEF HoldsProduct, HoldsPassport
<1>0. r \in keyShare => pc[r] \in {"checked", "write"}
  BY DEF LocksMatchSteps
<1>1. CASE UnpublishCheck(r)
  BY <1>0, <1>1, MoveKeepsLocks DEF UnpublishCheck
<1>2. CASE UnpublishPassport(r)
  <2>1. rowLock["passport"] = NoOne /\ pc[r] = "unpublishPassport"
    BY <1>2, FreeRow DEF UnpublishPassport, At
  <2> QED
    BY <1>0, <1>2, <2>1, PublicationAssumption
       DEF UnpublishPassport, Acquire, Goto, LocksMatchSteps, TypeOK
<1>3. CASE UnpublishProduct(r)
  BY <1>3, ReleaseKeepsLocks DEF UnpublishProduct, End
<1> QED
  BY <1>1, <1>2, <1>3 DEF Unpublish

LEMMA EditLocks ==
  ASSUME TypeOK, LocksMatchSteps, KindsMatchSteps, NEW r \in Requests, Edit(r)
  PROVE  LocksMatchSteps'
<1> USE StepNames DEF HoldsProduct, HoldsPassport
<1>0. r \in keyShare => pc[r] \in {"checked", "write"}
  BY DEF LocksMatchSteps
<1>1. CASE EditCheck(r)
  BY <1>0, <1>1, MoveKeepsLocks DEF EditCheck
<1>2. CASE EditKeyShare(r)
  BY <1>2 DEF EditKeyShare, At, Goto, LocksMatchSteps, KindsMatchSteps, AddsChild, TypeOK
<1>3. CASE EditStamp(r)
  BY <1>0, <1>3, MoveKeepsLocks DEF EditStamp, At
<1>4. CASE EditWrite(r)
  BY <1>4, ReleaseKeepsLocks DEF EditWrite, End
<1> QED
  BY <1>1, <1>2, <1>3, <1>4 DEF Edit

LEMMA FailureLocks ==
  ASSUME TypeOK, LocksMatchSteps, NEW r \in Requests,
         Fail(r) \/ MakeQrFails(r) \/ DiscardFails(r) \/ Crash(r)
  PROVE  LocksMatchSteps'
<1> USE StepNames DEF HoldsProduct, HoldsPassport
<1>0. r \in keyShare => pc[r] \in {"checked", "write"}
  BY DEF LocksMatchSteps
<1>1. CASE Fail(r)
  BY <1>1, ReleaseKeepsLocks DEF Fail, End
<1>2. CASE MakeQrFails(r)
  BY <1>0, <1>2, MoveKeepsLocks DEF MakeQrFails, End
<1>3. CASE DiscardFails(r)
  BY <1>0, <1>3, MoveKeepsLocks DEF DiscardFails, End
<1>4. CASE Crash(r)
  BY <1>4, ReleaseKeepsLocks DEF Crash, End
<1> QED
  BY <1>1, <1>2, <1>3, <1>4

-----------------------------------------------------------------------------
(* Generated QR files                                                       *)

LEMMA InitQrOwned == Init => QrOwned
<1> SUFFICES ASSUME Init, NEW r \in Requests PROVE mem[r].newQr = NoOne /\ r # NoOne /\ r \notin qrFiles
  BY DEF QrOwned
<1> QED
  BY PublicationAssumption DEF Init, Blank

(* A request that moves on, keeps its files and learns of no new one.       *)
LEMMA MoveKeepsQr ==
  ASSUME TypeOK, QrOwned, NEW r \in Requests, NEW s \in Steps, Goto(r, s), UNCHANGED qrFiles,
         \A q \in Requests : mem'[q].newQr = mem[q].newQr,
         pc[r] \in PublishSteps <=> s \in PublishSteps,
         r \in qrFiles => s \in (PublishSteps \ {"upsert", "makeQr"}) \cup Ended
  PROVE  QrOwned'
  BY DEF TypeOK, QrOwned, Goto

(* A request that ends.                                                     *)
LEMMA EndKeepsQr ==
  ASSUME TypeOK, QrOwned, NEW r \in Requests, NEW s \in Ended, End(r, s),
         qrFiles' \in {qrFiles, qrFiles \cup {r}, qrFiles \ {r}}
  PROVE  QrOwned'
<1>1. mem'[r].newQr = NoOne /\ pc'[r] = s
  BY DEF End, Goto, Blank, TypeOK
<1>2. \A q \in Requests \ {r} : mem'[q] = mem[q] /\ pc'[q] = pc[q] /\ (q \in qrFiles' <=> q \in qrFiles)
  BY DEF End, Goto, TypeOK
<1>3. s \notin PublishSteps
  BY DEF Ended, PublishSteps
<1> QED
  BY <1>1, <1>2, <1>3, PublicationAssumption DEF QrOwned

LEMMA NextQrOwned == TypeOK /\ QrOwned /\ [Next]_vars => QrOwned'
<1> SUFFICES ASSUME TypeOK, QrOwned, [Next]_vars PROVE QrOwned'
  OBVIOUS
<1> USE StepNames DEF PublishSteps, Ended
<1>1. CASE UNCHANGED vars
  BY <1>1 DEF vars, QrOwned
<1>2. ASSUME NEW r \in Requests, Publish(r) \/ CommitUnacked(r) PROVE QrOwned'
  <2>1. CASE PublishCheck(r)
    <3>1. CASE Goto(r, "upsert")
      BY <2>1, <3>1 DEF PublishCheck, QrOwned, TypeOK, Goto
    <3>2. CASE Goto(r, "answered")
      BY <2>1, <3>2 DEF PublishCheck, QrOwned, TypeOK, Goto
    <3> QED
      BY <2>1, <3>1, <3>2 DEF PublishCheck
  <2>2. CASE PublishUpsert(r)
    <3>1. \A q \in Requests : mem'[q].newQr = mem[q].newQr
      BY <2>2 DEF PublishUpsert, TypeOK, Memory
    <3> QED
      BY <2>2, <3>1, MoveKeepsQr DEF PublishUpsert, At, QrOwned
  <2>3. CASE PublishMakeQr(r)
    <3>1. mem'[r].newQr = r /\ pc'[r] = "lockProduct" /\ qrFiles' = qrFiles \cup {r}
      BY <2>3 DEF PublishMakeQr, Goto, TypeOK, Memory
    <3>2. \A q \in Requests \ {r} : mem'[q] = mem[q] /\ pc'[q] = pc[q]
      BY <2>3 DEF PublishMakeQr, Goto, TypeOK
    <3> QED
      BY <3>1, <3>2 DEF QrOwned
  <2>4. CASE PublishLockProduct(r)
    BY <2>4, MoveKeepsQr DEF PublishLockProduct, At
  <2>5. CASE PublishLockPassport(r)
    <3>1. \A q \in Requests : mem'[q].newQr = mem[q].newQr
      BY <2>5 DEF PublishLockPassport, TypeOK, Memory
    <3> QED
      BY <2>5, <3>1, MoveKeepsQr DEF PublishLockPassport, At
  <2>6. CASE PublishReadRow(r)
    <3>1. \A q \in Requests : mem'[q].newQr = mem[q].newQr
      BY <2>6 DEF PublishReadRow, TypeOK, Memory
    <3> QED
      BY <2>6, <3>1, MoveKeepsQr DEF PublishReadRow, At
  <2>7. CASE PublishReadKids(r)
    <3>1. \A q \in Requests : mem'[q].newQr = mem[q].newQr
      BY <2>7 DEF PublishReadKids, TypeOK, Memory
    <3> QED
      BY <2>7, <3>1, MoveKeepsQr DEF PublishReadKids, At
  <2>8. CASE PublishCommit(r, TRUE) \/ PublishCommit(r, FALSE)
    <3>1. pc[r] = "commit" /\ UNCHANGED qrFiles
      BY <2>8 DEF PublishCommit, At
    <3>2. CASE End(r, "answered")
      BY <3>1, <3>2, EndKeepsQr
    <3>3. CASE Goto(r, "discard") /\ UNCHANGED mem
      BY <3>1, <3>3, MoveKeepsQr
    <3> QED
      BY <2>8, <3>2, <3>3 DEF PublishCommit, AfterCommit
  <2>9. CASE PublishDiscard(r)
    <3>1. qrFiles' \in {qrFiles, qrFiles \ {r}}
      BY <2>9, PublicationAssumption DEF PublishDiscard, QrOwned, TypeOK
    <3> QED
      BY <2>9, <3>1, EndKeepsQr DEF PublishDiscard
  <2> QED
    BY <1>2, <2>1, <2>2, <2>3, <2>4, <2>5, <2>6, <2>7, <2>8, <2>9 DEF Publish, CommitUnacked
<1>3. ASSUME NEW r \in Requests, Unpublish(r) PROVE QrOwned'
  <2>1. CASE UnpublishCheck(r)
    <3>1. \A q \in Requests : mem'[q].newQr = mem[q].newQr
      BY <2>1 DEF UnpublishCheck, TypeOK, Memory
    <3> QED
      BY <2>1, <3>1, MoveKeepsQr DEF UnpublishCheck, QrOwned
  <2>2. CASE UnpublishPassport(r)
    BY <2>2, MoveKeepsQr DEF UnpublishPassport, At, QrOwned
  <2>3. CASE UnpublishProduct(r)
    BY <2>3, EndKeepsQr DEF UnpublishProduct
  <2> QED
    BY <1>3, <2>1, <2>2, <2>3 DEF Unpublish
<1>4. ASSUME NEW r \in Requests, Edit(r) PROVE QrOwned'
  <2>1. CASE EditCheck(r)
    BY <2>1, MoveKeepsQr DEF EditCheck, QrOwned
  <2>2. CASE EditKeyShare(r)
    BY <2>2, MoveKeepsQr DEF EditKeyShare, At, QrOwned
  <2>3. CASE EditStamp(r)
    <3>1. \A q \in Requests : mem'[q].newQr = mem[q].newQr
      BY <2>3 DEF EditStamp, TypeOK, Memory
    <3> QED
      BY <2>3, <3>1, MoveKeepsQr DEF EditStamp, At, QrOwned
  <2>4. CASE EditWrite(r)
    BY <2>4, EndKeepsQr DEF EditWrite
  <2> QED
    BY <1>4, <2>1, <2>2, <2>3, <2>4 DEF Edit
<1>5. ASSUME NEW r \in Requests, Fail(r) \/ MakeQrFails(r) \/ DiscardFails(r) \/ Crash(r)
      PROVE  QrOwned'
  <2>1. CASE Fail(r) /\ mem[r].newQr # NoOne
    <3>1. r \in qrFiles /\ pc[r] \in PublishSteps
      BY <2>1 DEF QrOwned
    <3> QED
      BY <2>1, <3>1, MoveKeepsQr DEF Fail
  <2>2. CASE Fail(r) /\ mem[r].newQr = NoOne
    BY <2>2, EndKeepsQr DEF Fail
  <2>3. CASE MakeQrFails(r)
    BY <2>3, EndKeepsQr DEF MakeQrFails
  <2>4. CASE DiscardFails(r)
    BY <2>4, EndKeepsQr DEF DiscardFails
  <2>5. CASE Crash(r)
    BY <2>5, EndKeepsQr DEF Crash
  <2> QED
    BY <1>5, <2>1, <2>2, <2>3, <2>4, <2>5
<1> QED
  BY <1>1, <1>2, <1>3, <1>4, <1>5 DEF Next, Step, Quiescent

-----------------------------------------------------------------------------
(* Kinds: a request only ever takes the steps of what it was sent for.      *)

LEMMA InitKinds == Init => KindsMatchSteps
  BY DEF Init, KindsMatchSteps, PublishSteps, UnpublishSteps, EditSteps

LEMMA MoveKeepsKinds ==
  ASSUME TypeOK, KindsMatchSteps, NEW r \in Requests, NEW s \in Steps, Goto(r, s),
         UNCHANGED kind,
         s \in PublishSteps => kind[r] = "publish",
         s \in UnpublishSteps => kind[r] = "unpublish",
         s \in EditSteps => IsEdit(r),
         s = "keyShare" => AddsChild(r)
  PROVE  KindsMatchSteps'
  BY DEF TypeOK, KindsMatchSteps, Goto, IsEdit, AddsChild, ChangesChild

LEMMA NextKinds == TypeOK /\ QrOwned /\ KindsMatchSteps /\ [Next]_vars => KindsMatchSteps'
<1> SUFFICES ASSUME TypeOK, QrOwned, KindsMatchSteps, [Next]_vars PROVE KindsMatchSteps'
  OBVIOUS
<1> USE StepNames DEF PublishSteps, UnpublishSteps, EditSteps
<1>1. CASE UNCHANGED vars
  BY <1>1 DEF vars, KindsMatchSteps, IsEdit, AddsChild, ChangesChild
<1>2. ASSUME NEW r \in Requests, Publish(r) \/ CommitUnacked(r) PROVE KindsMatchSteps'
  <2>1. CASE PublishCheck(r)
    BY <2>1, MoveKeepsKinds DEF PublishCheck
  <2>2. CASE ~PublishCheck(r)
    <3>1. pc[r] \in PublishSteps /\ kind[r] = "publish" /\ UNCHANGED kind
      BY <1>2, <2>2 DEF Publish, CommitUnacked, PublishUpsert, PublishMakeQr, PublishLockProduct,
         PublishLockPassport, PublishReadRow, PublishReadKids, PublishCommit, PublishDiscard, At,
         KindsMatchSteps
    <3>2. PICK s \in PublishSteps \cup {"answered"} : Goto(r, s)
      BY <1>2, <2>2 DEF Publish, CommitUnacked, PublishUpsert, PublishMakeQr, PublishLockProduct,
         PublishLockPassport, PublishReadRow, PublishReadKids, PublishCommit, PublishDiscard,
         AfterCommit, End
    <3> QED
      BY <3>1, <3>2, MoveKeepsKinds
  <2> QED
    BY <2>1, <2>2
<1>3. ASSUME NEW r \in Requests, Unpublish(r) PROVE KindsMatchSteps'
  <2>1. CASE UnpublishCheck(r)
    BY <2>1, MoveKeepsKinds DEF UnpublishCheck
  <2>2. CASE UnpublishPassport(r)
    BY <2>2, MoveKeepsKinds DEF UnpublishPassport, At, KindsMatchSteps
  <2>3. CASE UnpublishProduct(r)
    BY <2>3, MoveKeepsKinds DEF UnpublishProduct, End
  <2> QED
    BY <1>3, <2>1, <2>2, <2>3 DEF Unpublish
<1>4. ASSUME NEW r \in Requests, Edit(r) PROVE KindsMatchSteps'
  <2>1. CASE EditCheck(r)
    BY <2>1, MoveKeepsKinds DEF EditCheck
  <2>2. CASE EditKeyShare(r)
    BY <2>2, MoveKeepsKinds DEF EditKeyShare, At, KindsMatchSteps
  <2>3. CASE EditStamp(r)
    BY <2>3, MoveKeepsKinds DEF EditStamp, At, KindsMatchSteps
  <2>4. CASE EditWrite(r)
    BY <2>4, MoveKeepsKinds DEF EditWrite, End
  <2> QED
    BY <1>4, <2>1, <2>2, <2>3, <2>4 DEF Edit
<1>5. ASSUME NEW r \in Requests, Fail(r) \/ MakeQrFails(r) \/ DiscardFails(r) \/ Crash(r)
      PROVE  KindsMatchSteps'
  <2>1. CASE Fail(r) /\ mem[r].newQr # NoOne
    <3>1. pc[r] \in PublishSteps
      BY <2>1 DEF QrOwned
    <3> QED
      BY <2>1, <3>1, MoveKeepsKinds DEF Fail, KindsMatchSteps
  <2>2. CASE ~(Fail(r) /\ mem[r].newQr # NoOne)
    <3>1. UNCHANGED kind /\ \E s \in {"answered", "leaked", "crashed"} : Goto(r, s)
      BY <1>5, <2>2 DEF Fail, MakeQrFails, DiscardFails, Crash, End
    <3> QED
      BY <3>1, MoveKeepsKinds
  <2> QED
    BY <2>1, <2>2
<1> QED
  BY <1>1, <1>2, <1>3, <1>4, <1>5 DEF Next, Step, Quiescent

LEMMA NextLocks ==
  TypeOK /\ LocksMatchSteps /\ KindsMatchSteps /\ [Next]_vars => LocksMatchSteps'
<1> SUFFICES ASSUME TypeOK, LocksMatchSteps, KindsMatchSteps, [Next]_vars PROVE LocksMatchSteps'
  OBVIOUS
<1>1. CASE UNCHANGED vars
  BY <1>1 DEF vars, LocksMatchSteps
<1>2. CASE \E r \in Requests : Step(r) \/ Fail(r) \/ MakeQrFails(r) \/ DiscardFails(r)
                               \/ Crash(r) \/ CommitUnacked(r)
  BY <1>2, PublishLocks, UnpublishLocks, EditLocks, FailureLocks DEF Step
<1> QED
  BY <1>1, <1>2 DEF Next, Quiescent

LEMMA Waiting ==
  ASSUME LocksMatchSteps, NEW r \in Requests, NEW s \in Requests, WaitsFor(r, s)
  PROVE  \/ pc[r] = "lockProduct" /\ pc[s] \in HoldsProduct \cup {"checked", "write"}
         \/ pc[r] \in {"unpublishProduct", "keyShare", "write"} /\ pc[s] \in HoldsProduct
         \/ pc[r] \in {"upsert", "lockPassport", "unpublishPassport"} /\ pc[s] \in HoldsPassport
<1>1. s \in Holder("product") => pc[s] \in HoldsProduct
  BY DEF Holder, LocksMatchSteps
<1>2. s \in Holder("passport") => pc[s] \in HoldsPassport
  BY DEF Holder, LocksMatchSteps
<1>3. s \in keyShare => pc[s] \in {"checked", "write"}
  BY DEF LocksMatchSteps
<1>4. CASE pc[r] = "lockProduct"
  BY <1>1, <1>3, <1>4 DEF WaitsFor, Blocking
<1>5. CASE pc[r] \in {"unpublishProduct", "keyShare", "write"}
  BY <1>1, <1>5 DEF WaitsFor, Blocking
<1>6. CASE pc[r] \in {"upsert", "lockPassport", "unpublishPassport"}
  BY <1>2, <1>6 DEF WaitsFor, Blocking
<1> QED
  BY <1>4, <1>5, <1>6 DEF WaitsFor, Blocking

(* Two requests wait for each other only when one publishes and the other   *)
(* unpublishes.                                                             *)
LEMMA OppositeOrders ==
  TypeOK /\ LocksMatchSteps /\ KindsMatchSteps => OnlyOppositeOrdersDeadlock
<1> SUFFICES ASSUME TypeOK, LocksMatchSteps, KindsMatchSteps, NEW r \in Requests, NEW s \in Requests,
                    WaitsFor(r, s), WaitsFor(s, r)
             PROVE  {kind[r], kind[s]} = {"publish", "unpublish"}
  BY DEF OnlyOppositeOrdersDeadlock
<1>1. CASE pc[r] = "lockPassport" /\ pc[s] = "unpublishProduct"
  BY <1>1 DEF KindsMatchSteps, PublishSteps, UnpublishSteps
<1>2. CASE pc[s] = "lockPassport" /\ pc[r] = "unpublishProduct"
  BY <1>2 DEF KindsMatchSteps, PublishSteps, UnpublishSteps
<1>3. \/ pc[r] = "lockPassport" /\ pc[s] = "unpublishProduct"
      \/ pc[s] = "lockPassport" /\ pc[r] = "unpublishProduct"
  BY Waiting DEF HoldsProduct, HoldsPassport
<1> QED
  BY <1>1, <1>2, <1>3

(* No edit, whatever rows it writes, is ever in a deadlock with another     *)
(* request over the product and its passport.                               *)
THEOREM DeadlocksNeedOppositeOrders == Spec => []OnlyOppositeOrdersDeadlock
<1> DEFINE I == TypeOK /\ QrOwned /\ KindsMatchSteps /\ LocksMatchSteps
<1>1. Init => I
  BY InitTypeOK, InitQrOwned, InitKinds, InitLocks
<1>2. I /\ [Next]_vars => I'
  BY NextTypeOK, NextQrOwned, NextKinds, NextLocks
<1>3. I => OnlyOppositeOrdersDeadlock
  BY OppositeOrders
<1> QED
  BY <1>1, <1>2, <1>3, PTL DEF Spec

-----------------------------------------------------------------------------
(* Part 2: versions, status, audit entries and the QR key.                  *)

(* Only four kinds of step write the rows; upsert only creates a passport.  *)
LEMMA WhoWrites ==
  ASSUME [Next]_vars
  PROVE  \/ UNCHANGED <<product, passport, history, audit>>
         \/ \E r \in Requests : PublishUpsert(r)
         \/ \E r \in Requests, acked \in BOOLEAN :
               PublishCommit(r, acked) /\ (acked \/ CommitAckLoss)
         \/ \E r \in Requests : UnpublishProduct(r)
         \/ \E r \in Requests : EditWrite(r)
<1>1. CASE UNCHANGED vars
  BY <1>1 DEF vars
<1>2. ASSUME NEW r \in Requests, Publish(r) \/ CommitUnacked(r)
      PROVE  \/ UNCHANGED <<product, passport, history, audit>>
             \/ PublishUpsert(r)
             \/ \E acked \in BOOLEAN : PublishCommit(r, acked) /\ (acked \/ CommitAckLoss)
  BY <1>2 DEF Publish, CommitUnacked, PublishCheck, PublishMakeQr, PublishLockProduct,
     PublishLockPassport, PublishReadRow, PublishReadKids, PublishDiscard
<1>3. ASSUME NEW r \in Requests, Unpublish(r) \/ Edit(r)
      PROVE  \/ UNCHANGED <<product, passport, history, audit>>
             \/ UnpublishProduct(r) \/ EditWrite(r)
  BY <1>3 DEF Unpublish, Edit, UnpublishCheck, UnpublishPassport, EditCheck, EditKeyShare, EditStamp
<1>4. ASSUME NEW r \in Requests, Fail(r) \/ MakeQrFails(r) \/ DiscardFails(r) \/ Crash(r)
      PROVE  UNCHANGED <<product, passport, history, audit>>
  BY <1>4 DEF Fail, MakeQrFails, DiscardFails, Crash
<1> QED
  BY <1>1, <1>2, <1>3, <1>4 DEF Next, Step, Quiescent

(* A request that has ended stays so.                                       *)
LEMMA EndedStays == TypeOK /\ [Next]_vars => \A r \in Requests : pc[r] \in Ended => pc'[r] \in Ended
<1> SUFFICES ASSUME TypeOK, [Next]_vars, NEW q \in Requests, pc[q] \in Ended PROVE pc'[q] \in Ended
  OBVIOUS
<1>1. CASE UNCHANGED vars \/ Quiescent
  BY <1>1 DEF vars, Quiescent
<1>2. ASSUME NEW r \in Requests, Step(r) \/ CommitUnacked(r) \/ Fail(r) \/ MakeQrFails(r)
                                  \/ DiscardFails(r) \/ Crash(r)
      PROVE  pc'[q] \in Ended
  <2>1. pc[r] \notin Ended \/ \E s \in Ended : Goto(r, s)
    BY <1>2 DEF Step, CommitUnacked, Publish, PublishCheck, PublishUpsert, PublishMakeQr,
        PublishLockProduct, PublishLockPassport, PublishReadRow, PublishReadKids, PublishCommit,
        PublishDiscard, Unpublish, UnpublishCheck, UnpublishPassport, UnpublishProduct, At,
        Edit, EditCheck, EditKeyShare, EditStamp, EditWrite, Fail, MakeQrFails, DiscardFails, Crash,
        Running, PublishSteps, UnpublishSteps, EditSteps, Ended
  <2>2. \E s \in Steps : Goto(r, s)
    BY <1>2, StepNames DEF Step, CommitUnacked, Publish, PublishCheck, PublishUpsert, PublishMakeQr,
        PublishLockProduct, PublishLockPassport, PublishReadRow, PublishReadKids, PublishCommit,
        AfterCommit, PublishDiscard, Unpublish, UnpublishCheck, UnpublishPassport, UnpublishProduct,
        Edit, EditCheck, EditKeyShare, EditStamp, EditWrite, Fail, MakeQrFails, DiscardFails, Crash, End
  <2> QED
    BY <2>1, <2>2 DEF Goto, TypeOK
<1> QED
  BY <1>1, <1>2 DEF Next

-----------------------------------------------------------------------------
(* What a request has read under its locks stays true until it is used.     *)

LEMMA InitStillTrue == Init => StillTrue
  BY DEF Init, StillTrue, HoldsProduct, HoldsPassport

(* Whoever writes a row does it while no publish is between its reads and   *)
(* its commit.                                                              *)
LEMMA NobodyReads ==
  ASSUME TypeOK, LocksMatchSteps, NEW r \in Requests,
         (\E acked \in BOOLEAN : PublishCommit(r, acked)) \/ UnpublishProduct(r) \/ EditWrite(r)
  PROVE  \A q \in Requests : pc'[q] \notin HoldsProduct
<1>1. \A q \in Requests \ {r} : pc[q] \notin HoldsProduct
  <2>1. CASE rowLock["product"] = r
    BY <2>1 DEF LocksMatchSteps
  <2>2. CASE rowLock["product"] = NoOne
    BY <2>2, PublicationAssumption DEF LocksMatchSteps
  <2>3. rowLock["product"] = r \/ rowLock["product"] = NoOne
    BY FreeRow DEF PublishCommit, UnpublishProduct, EditWrite, At, LocksMatchSteps, HoldsProduct
  <2> QED
    BY <2>1, <2>2, <2>3
<1>2. PICK s \in {"answered", "discard"} : Goto(r, s)
  BY DEF PublishCommit, UnpublishProduct, EditWrite, AfterCommit, End
<1> QED
  BY <1>1, <1>2 DEF Goto, TypeOK, HoldsProduct

(* A request that moves to a step under no lock, and leaves the rows alone. *)
LEMMA MoveKeepsTrue ==
  ASSUME TypeOK, StillTrue, NEW r \in Requests, NEW s, Goto(r, s), s \notin HoldsProduct \ {"lockPassport"},
         \A q \in Requests \ {r} : mem'[q] = mem[q],
         product' = product, passport'.version = passport.version, passport'.qr = passport.qr
  PROVE  StillTrue'
  BY DEF TypeOK, StillTrue, Goto, HoldsProduct, HoldsPassport, Complete

LEMMA PublishStillTrue ==
  ASSUME TypeOK, LocksMatchSteps, StillTrue, NEW r \in Requests, Publish(r) \/ CommitUnacked(r)
  PROVE  StillTrue'
<1> USE DEF HoldsProduct, HoldsPassport
<1>1. CASE PublishCheck(r)
  BY <1>1, MoveKeepsTrue DEF PublishCheck
<1>2. CASE PublishUpsert(r)
  <2>1. passport'.version = passport.version /\ passport'.qr = passport.qr
        /\ \A q \in Requests \ {r} : mem'[q] = mem[q]
    BY <1>2 DEF PublishUpsert, TypeOK, Passport
  <2> QED
    BY <1>2, <2>1, MoveKeepsTrue DEF PublishUpsert
<1>3. CASE PublishMakeQr(r)
  <2>1. \A q \in Requests \ {r} : mem'[q] = mem[q]
    BY <1>3 DEF PublishMakeQr, TypeOK
  <2> QED
    BY <1>3, <2>1, MoveKeepsTrue DEF PublishMakeQr
<1>4. CASE PublishLockProduct(r)
  BY <1>4, MoveKeepsTrue DEF PublishLockProduct
<1>5. CASE PublishLockPassport(r)
  <2>1. /\ pc'[r] = "readRow"
        /\ mem'[r].version = passport.version /\ mem'[r].lockedQr = passport.qr
    BY <1>5 DEF PublishLockPassport, Goto, TypeOK, Memory
  <2>2. \A q \in Requests \ {r} : mem'[q] = mem[q] /\ pc'[q] = pc[q]
    BY <1>5 DEF PublishLockPassport, Goto, TypeOK
  <2>3. UNCHANGED <<product, passport>>
    BY <1>5 DEF PublishLockPassport
  <2> QED
    BY <2>1, <2>2, <2>3 DEF StillTrue, Complete
<1>6. CASE PublishReadRow(r)
  <2>1. /\ pc[r] = "readRow" /\ pc'[r] = "readKids" /\ ~product.archived
        /\ mem'[r].version = mem[r].version /\ mem'[r].lockedQr = mem[r].lockedQr
        /\ mem'[r].row = product.row
    BY <1>6 DEF PublishReadRow, At, Goto, TypeOK, Memory
  <2>2. \A q \in Requests \ {r} : mem'[q] = mem[q] /\ pc'[q] = pc[q]
    BY <1>6 DEF PublishReadRow, Goto, TypeOK
  <2>3. UNCHANGED <<product, passport>>
    BY <1>6 DEF PublishReadRow
  <2> QED
    BY <2>1, <2>2, <2>3 DEF StillTrue, Complete
<1>7. CASE PublishReadKids(r)
  <2>1. /\ pc[r] = "readKids" /\ pc'[r] = "commit"
        /\ Complete([row |-> mem[r].row, kids |-> product.kids])
        /\ mem'[r].version = mem[r].version /\ mem'[r].lockedQr = mem[r].lockedQr
        /\ mem'[r].row = mem[r].row /\ mem'[r].kids = product.kids
    BY <1>7 DEF PublishReadKids, At, Goto, TypeOK, Memory
  <2>2. \A q \in Requests \ {r} : mem'[q] = mem[q] /\ pc'[q] = pc[q]
    BY <1>7 DEF PublishReadKids, Goto, TypeOK
  <2>3. UNCHANGED <<product, passport>>
    BY <1>7 DEF PublishReadKids
  <2> QED
    BY <2>1, <2>2, <2>3 DEF StillTrue, Complete
<1>8. CASE PublishCommit(r, TRUE) \/ PublishCommit(r, FALSE)
  BY <1>8, NobodyReads DEF StillTrue
<1>9. CASE PublishDiscard(r)
  <2>1. \A q \in Requests \ {r} : mem'[q] = mem[q]
    BY <1>9 DEF PublishDiscard, End, TypeOK
  <2> QED
    BY <1>9, <2>1, MoveKeepsTrue DEF PublishDiscard, End
<1> QED
  BY <1>1, <1>2, <1>3, <1>4, <1>5, <1>6, <1>7, <1>8, <1>9 DEF Publish, CommitUnacked

LEMMA NextStillTrue ==
  TypeOK /\ LocksMatchSteps /\ StillTrue /\ [Next]_vars => StillTrue'
<1> SUFFICES ASSUME TypeOK, LocksMatchSteps, StillTrue, [Next]_vars PROVE StillTrue'
  OBVIOUS
<1> USE DEF HoldsProduct, HoldsPassport
<1>1. CASE UNCHANGED vars
  BY <1>1 DEF vars, StillTrue, Complete
<1>2. ASSUME NEW r \in Requests, Unpublish(r) \/ Edit(r) PROVE StillTrue'
  <2>1. CASE UnpublishProduct(r) \/ EditWrite(r)
    BY <2>1, NobodyReads DEF StillTrue
  <2>2. CASE UnpublishCheck(r) \/ UnpublishPassport(r) \/ EditCheck(r) \/ EditKeyShare(r) \/ EditStamp(r)
    <3>1. UNCHANGED <<product, passport>> /\ \A q \in Requests \ {r} : mem'[q] = mem[q]
      BY <2>2 DEF UnpublishCheck, UnpublishPassport, EditCheck, EditKeyShare, EditStamp, TypeOK
    <3>2. \E s \in {"answered", "unpublishPassport", "unpublishProduct", "checked", "keyShare", "write"} :
             Goto(r, s)
      BY <2>2 DEF UnpublishCheck, UnpublishPassport, EditCheck, EditKeyShare, EditStamp
    <3> QED
      BY <3>1, <3>2, MoveKeepsTrue
  <2> QED
    BY <1>2, <2>1, <2>2 DEF Unpublish, Edit
<1>3. ASSUME NEW r \in Requests, Fail(r) \/ MakeQrFails(r) \/ DiscardFails(r) \/ Crash(r)
      PROVE  StillTrue'
  <2>1. UNCHANGED <<product, passport>> /\ \A q \in Requests \ {r} : mem'[q] = mem[q]
    BY <1>3 DEF Fail, MakeQrFails, DiscardFails, Crash, End, TypeOK
  <2>2. \E s \in {"answered", "leaked", "crashed", "discard"} : Goto(r, s)
    BY <1>3 DEF Fail, MakeQrFails, DiscardFails, Crash, End
  <2> QED
    BY <2>1, <2>2, MoveKeepsTrue
<1> QED
  BY <1>1, <1>2, <1>3, PublishStillTrue DEF Next, Step, Quiescent

-----------------------------------------------------------------------------
(* Time stamps                                                              *)

LEMMA InitStamps == Init => StampsAreSet
  BY DEF Init, StampsAreSet, NeverSet

LEMMA MoveKeepsStamps ==
  ASSUME TypeOK, StampsAreSet, NEW r \in Requests, NEW s, Goto(r, s), now' = now,
         \A q \in Requests \ {r} : mem'[q] = mem[q],
         s \notin {"commit", "unpublishPassport", "unpublishProduct"}
  PROVE  StampsAreSet'
  BY DEF TypeOK, StampsAreSet, Goto

LEMMA StampKeepsStamps ==
  ASSUME TypeOK, StampsAreSet, NEW r \in Requests, NEW s, Goto(r, s), NEW t \in Instants, now' = t,
         \A q \in Requests \ {r} : mem'[q] = mem[q], mem'[r].at = t
  PROVE  StampsAreSet'
<1>1. t # NeverSet
  BY DEF StampsAreSet, Instants, TypeOK, NeverSet
<1>2. \A q \in Requests \ {r} : pc'[q] = pc[q]
  BY DEF Goto, TypeOK
<1> QED
  BY <1>1, <1>2 DEF StampsAreSet

LEMMA NextStamps == TypeOK /\ StampsAreSet /\ [Next]_vars => StampsAreSet'
<1> SUFFICES ASSUME TypeOK, StampsAreSet, [Next]_vars PROVE StampsAreSet'
  OBVIOUS
<1>1. CASE UNCHANGED vars
  BY <1>1 DEF vars, StampsAreSet
<1>2. ASSUME NEW r \in Requests, PublishReadKids(r) PROVE StampsAreSet'
  <2>1. PICK t \in Instants : now' = t /\ mem' = [mem EXCEPT ![r].kids = product.kids, ![r].at = t]
    BY <1>2 DEF PublishReadKids
  <2>2. mem'[r].at = t /\ \A q \in Requests \ {r} : mem'[q] = mem[q]
    BY <2>1 DEF TypeOK, Memory
  <2> QED
    BY <1>2, <2>1, <2>2, StampKeepsStamps DEF PublishReadKids
<1>3. ASSUME NEW r \in Requests, UnpublishCheck(r) \/ EditStamp(r) PROVE StampsAreSet'
  <2>1. CASE \E t \in Instants : now' = t /\ mem' = [mem EXCEPT ![r].at = t]
    <3>1. PICK t \in Instants : now' = t /\ mem' = [mem EXCEPT ![r].at = t]
      BY <2>1
    <3>2. mem'[r].at = t /\ \A q \in Requests \ {r} : mem'[q] = mem[q]
      BY <3>1 DEF TypeOK, Memory
    <3>3. \E s \in {"unpublishPassport", "answered", "write"} : Goto(r, s)
      BY <1>3 DEF UnpublishCheck, EditStamp
    <3> QED
      BY <3>1, <3>2, <3>3, StampKeepsStamps
  <2>2. CASE Goto(r, "answered") /\ UNCHANGED <<now, mem>>
    BY <2>2, MoveKeepsStamps
  <2> QED
    BY <1>3, <2>1, <2>2 DEF UnpublishCheck, EditStamp
<1>4. ASSUME NEW r \in Requests, UnpublishPassport(r) PROVE StampsAreSet'
  BY <1>4 DEF UnpublishPassport, At, Goto, TypeOK, StampsAreSet
<1>5. ASSUME NEW r \in Requests, (Publish(r) /\ ~PublishReadKids(r)) \/ CommitUnacked(r)
      PROVE  StampsAreSet'
  <2>1. now' = now /\ \A q \in Requests \ {r} : mem'[q] = mem[q]
    BY <1>5 DEF Publish, CommitUnacked, PublishCheck, PublishUpsert, PublishMakeQr, PublishLockProduct,
       PublishLockPassport, PublishReadRow, PublishCommit, PublishDiscard, AfterCommit, End, TypeOK
  <2>2. \E s \in {"upsert", "makeQr", "lockProduct", "lockPassport", "readRow", "readKids", "discard",
                  "answered"} : Goto(r, s)
    BY <1>5 DEF Publish, CommitUnacked, PublishCheck, PublishUpsert, PublishMakeQr, PublishLockProduct,
       PublishLockPassport, PublishReadRow, PublishCommit, PublishDiscard, AfterCommit, End
  <2> QED
    BY <2>1, <2>2, MoveKeepsStamps
<1>6. ASSUME NEW r \in Requests,
             UnpublishProduct(r) \/ EditCheck(r) \/ EditKeyShare(r) \/ EditWrite(r)
             \/ Fail(r) \/ MakeQrFails(r) \/ DiscardFails(r) \/ Crash(r)
      PROVE  StampsAreSet'
  <2>1. now' = now /\ \A q \in Requests \ {r} : mem'[q] = mem[q]
    BY <1>6 DEF UnpublishProduct, EditCheck, EditKeyShare, EditWrite, Fail, MakeQrFails, DiscardFails,
       Crash, End, TypeOK
  <2>2. \E s \in {"answered", "keyShare", "checked", "leaked", "crashed", "discard"} : Goto(r, s)
    BY <1>6 DEF UnpublishProduct, EditCheck, EditKeyShare, EditWrite, Fail, MakeQrFails, DiscardFails,
       Crash, End
  <2> QED
    BY <2>1, <2>2, MoveKeepsStamps
<1> QED
  BY <1>1, <1>2, <1>3, <1>4, <1>5, <1>6 DEF Next, Step, Unpublish, Edit, Quiescent

-----------------------------------------------------------------------------
(* Versions, status and the QR key                                          *)

Guarded ==
    /\ TypeOK /\ QrOwned /\ KindsMatchSteps /\ LocksMatchSteps /\ StillTrue /\ StampsAreSet

LEMMA InitGuarded == Init => Guarded
  BY InitTypeOK, InitQrOwned, InitKinds, InitLocks, InitStillTrue, InitStamps DEF Guarded

LEMMA NextGuarded == Guarded /\ [Next]_vars => Guarded'
  BY NextTypeOK, NextQrOwned, NextKinds, NextLocks, NextStillTrue, NextStamps DEF Guarded

(* A commit writes what the publish read, which is still so.                *)
LEMMA CommitWrites ==
  ASSUME Guarded, NEW r \in Requests, NEW acked \in BOOLEAN, PublishCommit(r, acked)
  PROVE  /\ passport'.version = passport.version + 1
         /\ passport'.publishedAt = mem[r].at /\ passport'.unpublishedAt = NeverSet
         /\ mem[r].at # NeverSet
         /\ passport'.qr = ChosenQr(r)
         /\ passport.qr # NoOne => ChosenQr(r) = passport.qr
         /\ passport.version + 1 \notin DOMAIN history
         /\ history' = [n \in DOMAIN history \cup {passport.version + 1} |->
                          IF n = passport.version + 1
                          THEN [row |-> product.row, kids |-> product.kids, at |-> mem[r].at]
                          ELSE history[n]]
         /\ product' = [product EXCEPT !.status = "PUBLISHED", !.updatedAt = mem[r].at]
         /\ audit' = audit \cup {[by |-> r, action |-> "publish", version |-> passport.version + 1]}
         /\ Complete(product) /\ ~product.archived
<1>1. pc[r] = "commit"
  BY DEF PublishCommit, At
<1>2. /\ mem[r].version = passport.version /\ mem[r].lockedQr = passport.qr
      /\ mem[r].row = product.row /\ mem[r].kids = product.kids
      /\ Complete(product) /\ ~product.archived
  BY <1>1 DEF Guarded, StillTrue, HoldsProduct, HoldsPassport
<1>3. mem[r].at # NeverSet
  BY <1>1 DEF Guarded, StampsAreSet
<1>4. kind[r] = "publish"
  BY <1>1 DEF Guarded, KindsMatchSteps, PublishSteps
<1>5. passport' = PublishedPassport(r, passport.version + 1)
  BY <1>2 DEF PublishCommit
<1>6. /\ passport'.version = passport.version + 1
      /\ passport'.publishedAt = mem[r].at /\ passport'.unpublishedAt = NeverSet
      /\ passport'.qr = ChosenQr(r)
  BY <1>5 DEF PublishedPassport, Guarded, TypeOK, Passport
<1>7. passport.qr # NoOne => ChosenQr(r) = passport.qr
  BY <1>2 DEF ChosenQr
<1>8. history' = [n \in DOMAIN history \cup {passport.version + 1} |->
                   IF n = passport.version + 1
                   THEN [row |-> product.row, kids |-> product.kids, at |-> mem[r].at]
                   ELSE history[n]]
  BY <1>2 DEF PublishCommit, AddVersion
<1>9. /\ passport.version + 1 \notin DOMAIN history
      /\ product' = [product EXCEPT !.status = "PUBLISHED", !.updatedAt = mem[r].at]
      /\ audit' = audit \cup {[by |-> r, action |-> "publish", version |-> passport.version + 1]}
  BY <1>2, <1>4 DEF PublishCommit, PublishedProduct, Log
<1> QED
  BY <1>2, <1>3, <1>6, <1>7, <1>8, <1>9

LEMMA UnpublishWrites ==
  ASSUME Guarded, NEW r \in Requests, UnpublishProduct(r)
  PROVE  /\ passport' = [passport EXCEPT !.unpublishedAt = mem[r].at] /\ mem[r].at # NeverSet
         /\ product' = [product EXCEPT !.status = "DRAFT", !.updatedAt = mem[r].at]
         /\ audit' = audit \cup {[by |-> r, action |-> "unpublish", version |-> 0]}
         /\ history' = history
<1>1. pc[r] = "unpublishProduct"
  BY DEF UnpublishProduct, At
<1> QED
  BY <1>1 DEF UnpublishProduct, Guarded, StampsAreSet, KindsMatchSteps, UnpublishSteps, Log

LEMMA InitVersions == Init => VersionsContiguous /\ StatusAgrees
  BY DEF Init, VersionsContiguous, StatusAgrees, Live, NeverSet

LEMMA NextVersions == Guarded /\ VersionsContiguous /\ [Next]_vars => VersionsContiguous'
<1> SUFFICES ASSUME Guarded, VersionsContiguous, [Next]_vars PROVE VersionsContiguous'
  OBVIOUS
<1>0. passport \in Passport /\ passport.version \in Nat
  BY DEF Guarded, TypeOK, Passport
<1>1. CASE UNCHANGED <<product, passport, history, audit>>
  BY <1>1 DEF VersionsContiguous
<1>2. ASSUME NEW r \in Requests, PublishUpsert(r) PROVE VersionsContiguous'
  <2>1. /\ passport'.version = passport.version /\ passport'.publishedAt = passport.publishedAt
        /\ history' = history
    BY <1>0, <1>2 DEF PublishUpsert, Passport
  <2> QED
    BY <2>1 DEF VersionsContiguous
<1>3. ASSUME NEW r \in Requests, NEW acked \in BOOLEAN, PublishCommit(r, acked)
      PROVE  VersionsContiguous'
  <2>1. /\ DOMAIN history' = DOMAIN history \cup {passport.version + 1}
        /\ passport'.version = passport.version + 1
        /\ passport'.publishedAt # NeverSet
    BY <1>3, CommitWrites
  <2> QED
    BY <1>0, <2>1 DEF VersionsContiguous
<1>4. ASSUME NEW r \in Requests, UnpublishProduct(r) PROVE VersionsContiguous'
  <2>1. /\ passport'.version = passport.version /\ passport'.publishedAt = passport.publishedAt
        /\ history' = history
    BY <1>0, <1>4, UnpublishWrites DEF Passport
  <2> QED
    BY <2>1 DEF VersionsContiguous
<1>5. ASSUME NEW r \in Requests, EditWrite(r) PROVE VersionsContiguous'
  BY <1>5 DEF EditWrite, VersionsContiguous
<1> QED
  BY <1>1, <1>2, <1>3, <1>4, <1>5, WhoWrites

(* Versions are numbered without gaps and the pointer names the last one.   *)
THEOREM VersionsAreContiguous == Spec => []VersionsContiguous
<1>1. Init => Guarded /\ VersionsContiguous
  BY InitGuarded, InitVersions
<1>2. Guarded /\ VersionsContiguous /\ [Next]_vars => (Guarded /\ VersionsContiguous)'
  BY NextGuarded, NextVersions
<1> QED
  BY <1>1, <1>2, PTL DEF Spec

LEMMA EditedKeepsStatus ==
  ASSUME Guarded, NEW r \in Requests, NEW p \in Edited(r)
  PROVE  p.status = product.status
<1>1. product \in Product /\ Touched(r).status = product.status /\ Touched(r) \in Product
  <2>1. mem[r].at \in Nat
    BY DEF Guarded, TypeOK, Memory
  <2> QED
    BY <2>1 DEF Guarded, TypeOK, Product, Touched
<1>2. CASE p \in ArchivedDraft(r)
  BY <1>1, <1>2 DEF ArchivedDraft, Product
<1>3. CASE p \in UpdatedDraft(r)
  BY <1>1, <1>3 DEF UpdatedDraft, Product
<1>4. CASE p \in ChangedKids(r)
  BY <1>1, <1>4 DEF ChangedKids, Product
<1> QED
  BY <1>2, <1>3, <1>4 DEF Edited

LEMMA NextStatus == Guarded /\ StatusAgrees /\ [Next]_vars => StatusAgrees'
<1> SUFFICES ASSUME Guarded, StatusAgrees, [Next]_vars PROVE StatusAgrees'
  OBVIOUS
<1>0. passport \in Passport /\ product \in Product
  BY DEF Guarded, TypeOK
<1>1. CASE UNCHANGED <<product, passport, history, audit>>
  BY <1>1 DEF StatusAgrees, Live
<1>2. ASSUME NEW r \in Requests, PublishUpsert(r) PROVE StatusAgrees'
  BY <1>0, <1>2 DEF PublishUpsert, StatusAgrees, Live, Passport
<1>3. ASSUME NEW r \in Requests, NEW acked \in BOOLEAN, PublishCommit(r, acked) PROVE StatusAgrees'
  <2>1. /\ passport'.publishedAt # NeverSet /\ passport'.unpublishedAt = NeverSet
        /\ product' = [product EXCEPT !.status = "PUBLISHED", !.updatedAt = mem[r].at]
    BY <1>3, CommitWrites
  <2>2. product'.status = "PUBLISHED"
    BY <1>0, <2>1 DEF Product
  <2> QED
    BY <2>1, <2>2 DEF StatusAgrees, Live
<1>4. ASSUME NEW r \in Requests, UnpublishProduct(r) PROVE StatusAgrees'
  <2>1. passport'.unpublishedAt # NeverSet /\ product'.status = "DRAFT"
    BY <1>0, <1>4, UnpublishWrites DEF Product, Passport
  <2> QED
    BY <2>1 DEF StatusAgrees, Live
<1>5. ASSUME NEW r \in Requests, EditWrite(r) PROVE StatusAgrees'
  BY <1>5, EditedKeepsStatus DEF EditWrite, StatusAgrees, Live
<1> QED
  BY <1>1, <1>2, <1>3, <1>4, <1>5, WhoWrites

(* The status of the product says whether the public URL resolves.          *)
THEOREM StatusAlwaysAgrees == Spec => []StatusAgrees
<1>1. Init => Guarded /\ StatusAgrees
  BY InitGuarded, InitVersions
<1>2. Guarded /\ StatusAgrees /\ [Next]_vars => (Guarded /\ StatusAgrees)'
  BY NextGuarded, NextStatus
<1> QED
  BY <1>1, <1>2, PTL DEF Spec

LEMMA QrStays == Guarded /\ [Next]_vars /\ passport.qr # NoOne => passport'.qr = passport.qr
<1> SUFFICES ASSUME Guarded, [Next]_vars, passport.qr # NoOne PROVE passport'.qr = passport.qr
  OBVIOUS
<1>0. passport \in Passport
  BY DEF Guarded, TypeOK
<1>1. CASE UNCHANGED <<product, passport, history, audit>>
  BY <1>1
<1>2. ASSUME NEW r \in Requests, PublishUpsert(r) PROVE passport'.qr = passport.qr
  BY <1>0, <1>2 DEF PublishUpsert, Passport
<1>3. ASSUME NEW r \in Requests, NEW acked \in BOOLEAN, PublishCommit(r, acked)
      PROVE  passport'.qr = passport.qr
  BY <1>3, CommitWrites
<1>4. ASSUME NEW r \in Requests, UnpublishProduct(r) PROVE passport'.qr = passport.qr
  BY <1>0, <1>4, UnpublishWrites DEF Passport
<1>5. ASSUME NEW r \in Requests, EditWrite(r) PROVE passport'.qr = passport.qr
  BY <1>5 DEF EditWrite
<1> QED
  BY <1>1, <1>2, <1>3, <1>4, <1>5, WhoWrites

(* The QR key, once installed, is never reissued.                           *)
THEOREM QrIsNeverReissued == Spec => QrNeverReissued
<1>1. Guarded /\ [Next]_vars => [passport.qr # NoOne => passport'.qr = passport.qr]_vars
  BY QrStays
<1> QED
  BY <1>1, InitGuarded, NextGuarded, PTL DEF Spec, QrNeverReissued

-----------------------------------------------------------------------------
(* Audit                                                                    *)

LEMMA NextAudit ==
  Guarded /\ AuditMatchesHistory /\ [Next]_vars => AuditMatchesHistory'
<1> SUFFICES ASSUME Guarded, AuditMatchesHistory, [Next]_vars PROVE AuditMatchesHistory'
  OBVIOUS
<1>1. CASE UNCHANGED <<product, passport, history, audit>>
  BY <1>1 DEF AuditMatchesHistory
<1>2. ASSUME NEW r \in Requests, PublishUpsert(r) PROVE AuditMatchesHistory'
  BY <1>2 DEF PublishUpsert, AuditMatchesHistory
<1>3. ASSUME NEW r \in Requests, NEW acked \in BOOLEAN, PublishCommit(r, acked)
      PROVE  AuditMatchesHistory'
  <2> DEFINE v == passport.version + 1
             new == [by |-> r, action |-> "publish", version |-> v]
             published == {e \in audit : e.action = "publish"}
  <2>1. v \notin DOMAIN history /\ DOMAIN history' = DOMAIN history \cup {v} /\ audit' = audit \cup {new}
    BY <1>3, CommitWrites
  <2>2. {e \in audit' : e.action = "publish"} = published \cup {new}
    BY <2>1
  <2>3. /\ {e.version : e \in published} = DOMAIN history
        /\ \A d, e \in published : d.version = e.version => d = e
    BY DEF AuditMatchesHistory
  <2>4. {e.version : e \in published \cup {new}} = DOMAIN history'
    <3>1. new.version = v
      OBVIOUS
    <3> HIDE DEF published, new
    <3>2. {e.version : e \in published \cup {new}} = {e.version : e \in published} \cup {new.version}
      OBVIOUS
    <3> QED
      BY <2>1, <2>3, <3>1, <3>2
  <2>5. \A d, e \in published \cup {new} : d.version = e.version => d = e
    BY <2>1, <2>3
  <2> QED
    BY <2>2, <2>4, <2>5 DEF AuditMatchesHistory
<1>4. ASSUME NEW r \in Requests, UnpublishProduct(r) \/ EditWrite(r) PROVE AuditMatchesHistory'
  <2>1. kind[r] # "publish" /\ history' = history
    BY <1>4 DEF UnpublishProduct, EditWrite, At, Guarded, KindsMatchSteps, UnpublishSteps, EditSteps,
       IsEdit, AddsChild, ChangesChild
  <2>2. {e \in audit' : e.action = "publish"} = {e \in audit : e.action = "publish"}
    BY <1>4, <2>1 DEF UnpublishProduct, EditWrite, Log
  <2> QED
    BY <2>1, <2>2 DEF AuditMatchesHistory
<1> QED
  BY <1>1, <1>2, <1>3, <1>4, WhoWrites

(* Versions and audit entries of publications match one to one.             *)
THEOREM AuditAlwaysMatches == Spec => []AuditMatchesHistory
<1>1. Init => Guarded /\ AuditMatchesHistory
  <2>1. Init => AuditMatchesHistory
    BY DEF Init, AuditMatchesHistory
  <2> QED
    BY <2>1, InitGuarded
<1>2. Guarded /\ AuditMatchesHistory /\ [Next]_vars => (Guarded /\ AuditMatchesHistory)'
  BY NextGuarded, NextAudit
<1> QED
  BY <1>1, <1>2, PTL DEF Spec

-----------------------------------------------------------------------------
(* Unpublished changes                                                      *)

(* What an edit leaves carries its request's mark, or is archived.          *)
LEMMA EditedMarks ==
  ASSUME Guarded, NEW r \in Requests, NEW p \in Edited(r)
  PROVE  /\ p.row = product.row \/ p.row.by = r
         /\ p.kids = product.kids \/ p.kids.by = r
         /\ p.archived \/ p.row.by = r \/ p.kids.by = r
         /\ product.archived => p.archived
<1>1. /\ Touched(r) \in Product /\ Touched(r).archived = product.archived
      /\ Touched(r).row = product.row /\ Touched(r).kids = product.kids
  <2>1. mem[r].at \in Nat /\ product \in Product
    BY DEF Guarded, TypeOK, Memory
  <2> QED
    BY <2>1 DEF Product, Touched
<1>2. CASE p \in ArchivedDraft(r)
  BY <1>1, <1>2 DEF ArchivedDraft, Product
<1>3. CASE p \in UpdatedDraft(r)
  BY <1>1, <1>3 DEF UpdatedDraft, Product, Written
<1>4. CASE p \in ChangedKids(r)
  BY <1>1, <1>4 DEF ChangedKids, Product, Written
<1> QED
  BY <1>2, <1>3, <1>4 DEF Edited

LEMMA NextNotYetWritten == Guarded /\ NotYetWritten /\ [Next]_vars => NotYetWritten'
<1> SUFFICES ASSUME Guarded, NotYetWritten, [Next]_vars, NEW q \in Requests, pc'[q] \notin Ended
             PROVE  /\ product'.row.by # q /\ product'.kids.by # q
                    /\ \A v \in DOMAIN history' : history'[v].row.by # q /\ history'[v].kids.by # q
  BY DEF NotYetWritten
<1>0. product \in Product
  BY DEF Guarded, TypeOK
<1>1. /\ product.row.by # q /\ product.kids.by # q
      /\ \A v \in DOMAIN history : history[v].row.by # q /\ history[v].kids.by # q
  BY EndedStays DEF Guarded, NotYetWritten
<1>2. CASE UNCHANGED <<product, passport, history, audit>>
  BY <1>1, <1>2
<1>3. ASSUME NEW r \in Requests, PublishUpsert(r) PROVE UNCHANGED <<product, history>>
  BY <1>3 DEF PublishUpsert
<1>4. ASSUME NEW r \in Requests, NEW acked \in BOOLEAN, PublishCommit(r, acked)
      PROVE  /\ product'.row.by # q /\ product'.kids.by # q
             /\ \A v \in DOMAIN history' : history'[v].row.by # q /\ history'[v].kids.by # q
  <2>1. product'.row = product.row /\ product'.kids = product.kids
    BY <1>0, <1>4, CommitWrites DEF Product
  <2>2. history' = [n \in DOMAIN history \cup {passport.version + 1} |->
                      IF n = passport.version + 1
                      THEN [row |-> product.row, kids |-> product.kids, at |-> mem[r].at]
                      ELSE history[n]]
    BY <1>4, CommitWrites
  <2> QED
    BY <1>1, <2>1, <2>2
<1>5. ASSUME NEW r \in Requests, UnpublishProduct(r)
      PROVE  history' = history /\ product'.row = product.row /\ product'.kids = product.kids
  BY <1>0, <1>5, UnpublishWrites DEF Product
<1>6. ASSUME NEW r \in Requests, EditWrite(r)
      PROVE  history' = history /\ product'.row.by # q /\ product'.kids.by # q
  <2>1. r # q
    BY <1>6 DEF EditWrite, End, Goto, Guarded, TypeOK, Ended
  <2>2. product' \in Edited(r) /\ history' = history
    BY <1>6 DEF EditWrite
  <2> QED
    BY <1>1, <2>1, <2>2, EditedMarks
<1> QED
  BY <1>1, <1>2, <1>3, <1>4, <1>5, <1>6, WhoWrites

LEMMA NextNoFalse ==
  ASSUME Guarded, VersionsContiguous, NotYetWritten, NoFalseUnpublishedChanges, [Next]_vars
  PROVE  NoFalseUnpublishedChanges'
<1>0. product \in Product /\ passport \in Passport
  BY DEF Guarded, TypeOK
<1>1. CASE UNCHANGED <<product, passport, history, audit>>
  BY <1>1 DEF NoFalseUnpublishedChanges, HasUnpublishedChanges, DraftDiffers, Live
<1>2. ASSUME NEW r \in Requests, PublishUpsert(r) PROVE NoFalseUnpublishedChanges'
  <2>1. /\ passport'.version = passport.version /\ passport'.publishedAt = passport.publishedAt
        /\ passport'.unpublishedAt = passport.unpublishedAt /\ UNCHANGED <<product, history>>
    BY <1>0, <1>2 DEF PublishUpsert, Passport
  <2> QED
    BY <2>1 DEF NoFalseUnpublishedChanges, HasUnpublishedChanges, DraftDiffers, Live
<1>3. ASSUME NEW r \in Requests, NEW acked \in BOOLEAN, PublishCommit(r, acked)
      PROVE  ~HasUnpublishedChanges'
  <2>1. mem[r].at \in Nat
    BY DEF Guarded, TypeOK, Memory
  <2>2. passport'.publishedAt = mem[r].at /\ product'.updatedAt = mem[r].at
    BY <1>0, <1>3, CommitWrites DEF Product
  <2> QED
    BY <2>1, <2>2 DEF HasUnpublishedChanges
<1>4. ASSUME NEW r \in Requests, UnpublishProduct(r) PROVE ~HasUnpublishedChanges'
  BY <1>0, <1>4, UnpublishWrites DEF HasUnpublishedChanges, Live, Passport
<1>5. ASSUME NEW r \in Requests, EditWrite(r), Live' PROVE DraftDiffers' \/ product'.archived
  <2>1. UNCHANGED <<passport, history>> /\ product' \in Edited(r) /\ pc[r] = "write"
    BY <1>5 DEF EditWrite, At
  <2>2. passport.version > 0 /\ passport.version \in DOMAIN history
    BY <1>0, <1>5, <2>1 DEF VersionsContiguous, Live, Passport, NeverSet
  <2>3. history[passport.version].row.by # r /\ history[passport.version].kids.by # r
    BY <2>1, <2>2 DEF NotYetWritten, Ended
  <2> QED
    BY <2>1, <2>2, <2>3, EditedMarks DEF DraftDiffers
<1> QED
  BY <1>1, <1>2, <1>3, <1>4, <1>5, WhoWrites DEF NoFalseUnpublishedChanges, HasUnpublishedChanges

(* The editor never announces unpublished changes when the draft is what is *)
(* published.                                                               *)
THEOREM NoFalseAnnouncements == Spec => []NoFalseUnpublishedChanges
<1> DEFINE IInv == Guarded /\ VersionsContiguous /\ NotYetWritten /\ NoFalseUnpublishedChanges
<1>1. Init => IInv
  <2>1. Init => NotYetWritten
    <3> SUFFICES ASSUME Init, NEW r \in Requests
                 PROVE  product.row.by # r /\ product.kids.by # r /\ DOMAIN history = {}
      BY DEF NotYetWritten
    <3> QED
      BY PublicationAssumption DEF Init
  <2>2. Init => NoFalseUnpublishedChanges
    BY DEF Init, NoFalseUnpublishedChanges, HasUnpublishedChanges, Live
  <2> QED
    BY <2>1, <2>2, InitGuarded, InitVersions
<1>2. IInv /\ [Next]_vars => IInv'
  BY NextGuarded, NextVersions, NextNotYetWritten, NextNoFalse
<1> QED
  BY <1>1, <1>2, PTL DEF Spec

-----------------------------------------------------------------------------
(* Part 3: QR files.                                                        *)

(* The key a publish installs is its own file or the one already there.     *)

LEMMA InitQrSeen == Init => QrSeen
  BY DEF Init, QrSeen, HoldsProduct

LEMMA MoveKeepsQrSeen ==
  ASSUME TypeOK, QrSeen, NEW r \in Requests, NEW s, Goto(r, s),
         \A q \in Requests \ {r} : mem'[q] = mem[q],
         passport.qr # NoOne => passport'.qr # NoOne,
         s \notin HoldsProduct \cup {"lockProduct"}
  PROVE  QrSeen'
  BY DEF TypeOK, QrSeen, Goto

LEMMA NextQrSeen == Guarded /\ QrSeen /\ [Next]_vars => QrSeen'
<1> SUFFICES ASSUME Guarded, QrSeen, [Next]_vars PROVE QrSeen'
  OBVIOUS
<1>0. TypeOK /\ (passport.qr # NoOne => passport'.qr # NoOne)
  BY QrStays DEF Guarded
<1> USE DEF HoldsProduct
<1>1. CASE UNCHANGED vars
  BY <1>1 DEF vars, QrSeen
<1>2. ASSUME NEW r \in Requests, Publish(r) \/ CommitUnacked(r) PROVE QrSeen'
  <2>1. CASE PublishCheck(r)
    <3>1. PICK s \in {"upsert", "answered"} : Goto(r, s)
      BY <2>1 DEF PublishCheck
    <3> QED
      BY <1>0, <2>1, <3>1, MoveKeepsQrSeen DEF PublishCheck
  <2>2. CASE PublishUpsert(r)
    <3>1. /\ passport'.qr = passport.qr
          /\ \A q \in Requests \ {r} : mem'[q] = mem[q]
      BY <1>0, <2>2 DEF PublishUpsert, TypeOK, Passport
    <3>2. CASE passport.qr = NoOne
      BY <1>0, <2>2, <3>1, <3>2, MoveKeepsQrSeen DEF PublishUpsert
    <3>3. CASE passport.qr # NoOne
      BY <3>1, <3>3 DEF QrSeen
    <3> QED
      BY <3>2, <3>3
  <2>3. CASE PublishMakeQr(r)
    <3>1. mem'[r].newQr = r /\ \A q \in Requests \ {r} : mem'[q] = mem[q] /\ pc'[q] = pc[q]
      BY <1>0, <2>3 DEF PublishMakeQr, Goto, TypeOK, Memory
    <3> QED
      BY <2>3, <3>1 DEF PublishMakeQr, QrSeen
  <2>4. CASE PublishLockProduct(r)
    BY <1>0, <2>4 DEF PublishLockProduct, At, Goto, TypeOK, QrSeen
  <2>5. CASE PublishLockPassport(r) \/ PublishReadRow(r) \/ PublishReadKids(r)
    <3>1. \A q \in Requests : mem'[q].newQr = mem[q].newQr
      BY <1>0, <2>5 DEF PublishLockPassport, PublishReadRow, PublishReadKids, TypeOK, Memory
    <3>2. /\ \A q \in Requests \ {r} : pc'[q] = pc[q]
          /\ pc[r] \in HoldsProduct
      BY <1>0, <2>5 DEF PublishLockPassport, PublishReadRow, PublishReadKids, At, Goto, TypeOK
    <3> QED
      BY <1>0, <3>1, <3>2 DEF QrSeen
  <2>6. CASE PublishCommit(r, TRUE) \/ PublishCommit(r, FALSE)
    <3>1. \A q \in Requests \ {r} : mem'[q] = mem[q]
      BY <1>0, <2>6 DEF PublishCommit, AfterCommit, End, TypeOK
    <3>2. PICK s \in {"answered", "discard"} : Goto(r, s)
      BY <2>6 DEF PublishCommit, AfterCommit, End
    <3> QED
      BY <1>0, <3>1, <3>2, MoveKeepsQrSeen
  <2>7. CASE PublishDiscard(r)
    BY <1>0, <2>7, MoveKeepsQrSeen DEF PublishDiscard, End, TypeOK
  <2> QED
    BY <1>2, <2>1, <2>2, <2>3, <2>4, <2>5, <2>6, <2>7 DEF Publish, CommitUnacked
<1>3. ASSUME NEW r \in Requests, Unpublish(r) \/ Edit(r) PROVE QrSeen'
  <2>1. \A q \in Requests \ {r} : mem'[q] = mem[q]
    BY <1>0, <1>3 DEF Unpublish, UnpublishCheck, UnpublishPassport, UnpublishProduct,
                      Edit, EditCheck, EditKeyShare, EditStamp, EditWrite, End, TypeOK
  <2>2. PICK s \in UnpublishSteps \cup EditSteps \cup Ended : Goto(r, s)
    BY <1>3 DEF Unpublish, UnpublishCheck, UnpublishPassport, UnpublishProduct, Edit, EditCheck,
                EditKeyShare, EditStamp, EditWrite, End, UnpublishSteps, EditSteps, Ended
  <2>3. s \notin HoldsProduct \cup {"lockProduct"}
    BY DEF UnpublishSteps, EditSteps, Ended
  <2> QED
    BY <1>0, <2>1, <2>2, <2>3, MoveKeepsQrSeen
<1>4. ASSUME NEW r \in Requests, Fail(r) \/ MakeQrFails(r) \/ DiscardFails(r) \/ Crash(r)
      PROVE  QrSeen'
  <2>1. \A q \in Requests \ {r} : mem'[q] = mem[q]
    BY <1>0, <1>4 DEF Fail, MakeQrFails, DiscardFails, Crash, End, TypeOK
  <2>2. PICK s \in {"discard", "answered", "leaked", "crashed"} : Goto(r, s)
    BY <1>4 DEF Fail, MakeQrFails, DiscardFails, Crash, End
  <2> QED
    BY <1>0, <2>1, <2>2, MoveKeepsQrSeen
<1>5. CASE Quiescent
  BY <1>1, <1>5 DEF Quiescent
<1> QED
  BY <1>1, <1>2, <1>3, <1>4, <1>5 DEF Next, Step

LEMMA CommitInstallsQr ==
  ASSUME Guarded, QrSeen, NEW r \in Requests, NEW acked \in BOOLEAN, PublishCommit(r, acked),
         passport.qr = NoOne
  PROVE  ChosenQr(r) = r
<1>1. pc[r] = "commit"
  BY DEF PublishCommit, At
<1>2. mem[r].lockedQr = NoOne
  BY <1>1 DEF Guarded, StillTrue, HoldsPassport, HoldsProduct
<1>3. mem[r].newQr = r
  BY <1>1 DEF QrSeen, HoldsProduct
<1> QED
  BY <1>2, <1>3, PublicationAssumption DEF ChosenQr

-----------------------------------------------------------------------------
(* Orphans                                                                  *)

(* The files, and who has ended, change only in these ways.                 *)
LEMMA FilesAndEnds ==
  ASSUME TypeOK, QrOwned, [Next]_vars, NEW k \in Requests, k \in qrFiles'
  PROVE  \/ k \in qrFiles /\ pc'[k] = pc[k]
         \/ pc'[k] \in PublishSteps \cup {"crashed", "leaked"}
         \/ \E acked \in BOOLEAN : PublishCommit(k, acked) /\ ChosenQr(k) = k
<1>0. /\ mem[k].newQr \in {NoOne, k}
      /\ k \in qrFiles => pc[k] \in PublishSteps \cup Ended
      /\ k \in qrFiles /\ pc[k] \in PublishSteps => mem[k].newQr = k
      /\ k # NoOne
  BY PublicationAssumption DEF QrOwned
<1>1. CASE UNCHANGED vars
  BY <1>1 DEF vars
<1>2. ASSUME NEW r \in Requests \ {k},
             Step(r) \/ CommitUnacked(r) \/ Fail(r) \/ MakeQrFails(r) \/ DiscardFails(r) \/ Crash(r)
      PROVE  k \in qrFiles /\ pc'[k] = pc[k]
  <2>1. \E s \in Steps : Goto(r, s)
    BY <1>2, StepNames DEF Step, CommitUnacked, Publish, PublishCheck, PublishUpsert, PublishMakeQr,
        PublishLockProduct, PublishLockPassport, PublishReadRow, PublishReadKids, PublishCommit,
        AfterCommit, PublishDiscard, Unpublish, UnpublishCheck, UnpublishPassport, UnpublishProduct,
        Edit, EditCheck, EditKeyShare, EditStamp, EditWrite, Fail, MakeQrFails, DiscardFails, Crash, End
  <2>2. qrFiles' \subseteq qrFiles \cup {r}
    BY <1>2 DEF Step, CommitUnacked, Publish, PublishCheck, PublishUpsert, PublishMakeQr,
        PublishLockProduct, PublishLockPassport, PublishReadRow, PublishReadKids, PublishCommit,
        PublishDiscard, Unpublish, UnpublishCheck, UnpublishPassport, UnpublishProduct,
        Edit, EditCheck, EditKeyShare, EditStamp, EditWrite, Fail, MakeQrFails, DiscardFails, Crash
  <2> QED
    BY <2>1, <2>2 DEF Goto, TypeOK
<1>3. ASSUME Publish(k) \/ CommitUnacked(k)
      PROVE  \/ pc'[k] \in PublishSteps
             \/ \E acked \in BOOLEAN : PublishCommit(k, acked) /\ ChosenQr(k) = k
  <2> USE DEF PublishSteps, Ended
  <2>1. CASE PublishCheck(k)
    BY <1>0, <2>1 DEF PublishCheck
  <2>2. CASE PublishUpsert(k) \/ PublishMakeQr(k) \/ PublishLockProduct(k) \/ PublishLockPassport(k)
             \/ PublishReadRow(k) \/ PublishReadKids(k)
    BY <2>2 DEF PublishUpsert, PublishMakeQr, PublishLockProduct, PublishLockPassport,
                PublishReadRow, PublishReadKids, Goto, TypeOK
  <2>3. ASSUME NEW acked \in BOOLEAN, PublishCommit(k, acked)
        PROVE  pc'[k] = "discard" \/ ChosenQr(k) = k
    <3>1. mem[k].newQr = k
      BY <1>0, <2>3 DEF PublishCommit, At
    <3> QED
      BY <1>0, <2>3, <3>1 DEF PublishCommit, AfterCommit, Goto, TypeOK
  <2>4. CASE PublishDiscard(k)
    BY <1>0, <2>4 DEF PublishDiscard, At
  <2> QED
    BY <1>3, <2>1, <2>2, <2>3, <2>4 DEF Publish, CommitUnacked
<1>4. ASSUME Unpublish(k) \/ Edit(k) PROVE FALSE
  <2>1. k \in qrFiles /\ pc[k] \in {"start"} \cup UnpublishSteps \cup EditSteps
    BY <1>4 DEF Unpublish, UnpublishCheck, UnpublishPassport, UnpublishProduct, Edit, EditCheck,
                EditKeyShare, EditStamp, EditWrite, At, UnpublishSteps, EditSteps
  <2> QED
    BY <1>0, <2>1 DEF PublishSteps, UnpublishSteps, EditSteps, Ended
<1>5. CASE Fail(k)
  <2>1. k \in qrFiles /\ pc[k] \in Running
    BY <1>5 DEF Fail
  <2>2. pc[k] \in PublishSteps
    BY <1>0, <2>1 DEF Running, PublishSteps, UnpublishSteps, EditSteps, Ended
  <2> QED
    BY <1>0, <1>5, <2>1, <2>2 DEF Fail, Goto, TypeOK, PublishSteps
<1>6. CASE MakeQrFails(k) \/ DiscardFails(k) \/ Crash(k)
  BY <1>6 DEF MakeQrFails, DiscardFails, Crash, End, Goto, TypeOK
<1>7. CASE Quiescent
  BY <1>1, <1>7 DEF Quiescent
<1> QED
  BY <1>1, <1>2, <1>3, <1>4, <1>5, <1>6, <1>7 DEF Next, Step

LEMMA NextOrphans == Guarded /\ OrphanQrHasExcuse /\ [Next]_vars => OrphanQrHasExcuse'
<1> SUFFICES ASSUME Guarded, OrphanQrHasExcuse, [Next]_vars, NEW k \in qrFiles'
             PROVE  k = passport'.qr \/ pc'[k] \in PublishSteps \cup {"crashed", "leaked"}
  BY DEF OrphanQrHasExcuse
<1>1. TypeOK /\ QrOwned /\ k \in Requests /\ k # NoOne
  BY NextGuarded, PublicationAssumption DEF Guarded, TypeOK
<1>2. CASE k \in qrFiles /\ pc'[k] = pc[k]
  BY <1>1, <1>2, QrStays DEF OrphanQrHasExcuse
<1>3. ASSUME NEW acked \in BOOLEAN, PublishCommit(k, acked), ChosenQr(k) = k PROVE k = passport'.qr
  BY <1>1, <1>3, CommitWrites
<1> QED
  BY <1>1, <1>2, <1>3, FilesAndEnds

(* A QR image nobody refers to is never left by a publish that ended in      *)
(* order: its request is still running, has crashed, or could not reach the  *)
(* storage.                                                                  *)
THEOREM OrphanQrAlwaysHasExcuse == Spec => []OrphanQrHasExcuse
<1>1. Init => Guarded /\ OrphanQrHasExcuse
  BY InitGuarded DEF Init, OrphanQrHasExcuse
<1>2. Guarded /\ OrphanQrHasExcuse /\ [Next]_vars => (Guarded /\ OrphanQrHasExcuse)'
  BY NextGuarded, NextOrphans
<1> QED
  BY <1>1, <1>2, PTL DEF Spec

-----------------------------------------------------------------------------
(* Installed files                                                          *)

(* Without lost acknowledgements the publish that installs its own key      *)
(* ends with the commit.                                                    *)
LEMMA InstallingEnds ==
  ASSUME Guarded, QrSeen, NEW r \in Requests, PublishCommit(r, TRUE), passport.qr = NoOne
  PROVE  passport'.qr = r /\ pc'[r] \in Ended /\ r \in qrFiles'
<1>1. ChosenQr(r) = r /\ passport'.qr = r
  BY CommitInstallsQr, CommitWrites
<1>2. pc[r] = "commit" /\ pc \in [Requests -> Steps]
  BY DEF PublishCommit, At, Guarded, TypeOK
<1>3. mem[r].newQr = r
  BY <1>2 DEF QrSeen, HoldsProduct
<1>4. r \in qrFiles
  BY <1>3 DEF Guarded, QrOwned
<1>5. Goto(r, "answered")
  BY <1>1, <1>3 DEF PublishCommit, AfterCommit, End
<1> QED
  BY <1>1, <1>2, <1>4, <1>5 DEF PublishCommit, Goto, Ended

(* The first key of a passport comes from a commit.                         *)
LEMMA FirstKey ==
  ASSUME Guarded, ~CommitAckLoss, [Next]_vars, passport'.qr # passport.qr
  PROVE  passport.qr = NoOne /\ \E r \in Requests : PublishCommit(r, TRUE)
<1>0. passport \in Passport
  BY DEF Guarded, TypeOK
<1>1. ASSUME NEW r \in Requests, PublishUpsert(r) \/ UnpublishProduct(r) \/ EditWrite(r)
      PROVE  passport'.qr = passport.qr
  BY <1>0, <1>1 DEF PublishUpsert, UnpublishProduct, EditWrite, Passport
<1>2. PICK r \in Requests, acked \in BOOLEAN : PublishCommit(r, acked) /\ (acked \/ CommitAckLoss)
  BY <1>1, WhoWrites
<1>3. acked = TRUE
  BY <1>2
<1> QED
  BY <1>2, <1>3, QrStays

LEMMA NextQrInstalled ==
  ASSUME Guarded, QrSeen, QrInstalled, ~CommitAckLoss, [Next]_vars
  PROVE  QrInstalled'
<1> SUFFICES ASSUME NEW q \in Requests, passport'.qr = q PROVE pc'[q] \in Ended
  BY DEF QrInstalled
<1>1. CASE passport.qr = q
  BY <1>1, EndedStays DEF QrInstalled, Guarded
<1>2. CASE passport.qr # q
  BY <1>2, FirstKey, InstallingEnds
<1> QED
  BY <1>1, <1>2

(* Files of ended requests stay: only a discarding publish deletes, and only *)
(* its own.                                                                 *)
LEMMA EndedKeepFiles ==
  ASSUME Guarded, [Next]_vars, NEW k \in qrFiles, pc[k] \in Ended
  PROVE  k \in qrFiles'
<1>1. CASE UNCHANGED vars \/ Quiescent
  BY <1>1 DEF vars, Quiescent
<1>2. ASSUME NEW r \in Requests, PublishDiscard(r) PROVE k \in qrFiles'
  <2>1. pc[r] = "discard" /\ mem[r].newQr \in {NoOne, r} /\ qrFiles' = qrFiles \ {mem[r].newQr}
    BY <1>2 DEF PublishDiscard, At, Guarded, QrOwned
  <2>2. k # NoOne /\ k # r
    BY <2>1, PublicationAssumption DEF Guarded, TypeOK, Ended
  <2> QED
    BY <2>1, <2>2
<1>3. ASSUME NEW r \in Requests, Publish(r) \/ CommitUnacked(r), ~PublishDiscard(r)
      PROVE  k \in qrFiles'
  BY <1>3 DEF Publish, CommitUnacked, PublishCheck, PublishUpsert, PublishMakeQr, PublishLockProduct,
              PublishLockPassport, PublishReadRow, PublishReadKids, PublishCommit
<1>4. ASSUME NEW r \in Requests, Unpublish(r) \/ Edit(r) PROVE k \in qrFiles'
  BY <1>4 DEF Unpublish, UnpublishCheck, UnpublishPassport, UnpublishProduct, Edit, EditCheck,
              EditKeyShare, EditStamp, EditWrite
<1>5. ASSUME NEW r \in Requests, Fail(r) \/ MakeQrFails(r) \/ DiscardFails(r) \/ Crash(r)
      PROVE  k \in qrFiles'
  BY <1>5 DEF Fail, MakeQrFails, DiscardFails, Crash
<1> QED
  BY <1>1, <1>2, <1>3, <1>4, <1>5 DEF Next, Step

LEMMA NextInstalledExists ==
  ASSUME Guarded, QrSeen, QrInstalled, InstalledQrExists, ~CommitAckLoss, [Next]_vars
  PROVE  InstalledQrExists'
<1> SUFFICES ASSUME passport'.qr # NoOne PROVE passport'.qr \in qrFiles'
  BY DEF InstalledQrExists
<1>1. CASE passport'.qr = passport.qr
  <2>1. passport.qr \in qrFiles /\ passport.qr \in Requests
    BY <1>1 DEF InstalledQrExists, Guarded, TypeOK
  <2> QED
    BY <1>1, <2>1, EndedKeepFiles DEF QrInstalled
<1>2. CASE passport'.qr # passport.qr
  BY <1>2, FirstKey, InstallingEnds
<1> QED
  BY <1>1, <1>2

(* The image behind an installed QR key is never deleted, provided every    *)
(* answer to a COMMIT arrives: without that it can be.                      *)
THEOREM InstalledQrAlwaysExists ==
  ASSUME ~CommitAckLoss
  PROVE  Spec => []InstalledQrExists
<1> DEFINE IInv == Guarded /\ QrSeen /\ QrInstalled /\ InstalledQrExists
<1>1. Init => IInv
  <2>1. Init => QrInstalled /\ InstalledQrExists
    BY PublicationAssumption DEF Init, QrInstalled, InstalledQrExists
  <2> QED
    BY <2>1, InitGuarded, InitQrSeen
<1>2. IInv /\ [Next]_vars => IInv'
  BY NextGuarded, NextQrSeen, NextQrInstalled, NextInstalledExists
<1> QED
  BY <1>1, <1>2, PTL DEF Spec

-----------------------------------------------------------------------------
(* Part 4: the register.                                                    *)

DraftNow    == [row |-> product.row, kids |-> product.kids, archived |-> product.archived]
VersionsNow == [v \in DOMAIN history |-> [row |-> history[v].row, kids |-> history[v].kids]]

LEMMA VersionsAreASequence ==
  ASSUME Guarded, VersionsContiguous
  PROVE  VersionsNow \in Seq(Register!Snapshot) /\ Len(VersionsNow) = passport.version
<1>1. passport.version \in Nat /\ DOMAIN history = 1..passport.version
  BY DEF Guarded, TypeOK, Passport, VersionsContiguous
<1>2. \A v \in DOMAIN history : history[v] \in Snapshot
  BY DEF Guarded, TypeOK
<1>3. VersionsNow \in [1..passport.version -> Register!Snapshot]
  BY <1>1, <1>2 DEF VersionsNow, Snapshot, Register!Snapshot
<1> QED
  BY <1>1, <1>3

LEMMA InitRefines == Init => Register!RegisterInit
<1> SUFFICES ASSUME Init PROVE Register!RegisterInit
  OBVIOUS
<1>1. product \in Product /\ ~product.archived
  <2>1. product \in Product
    BY InitTypeOK DEF TypeOK
  <2>2. PICK rowOk, kidsOk \in BOOLEAN :
           product = [row |-> [by |-> NoOne, ok |-> rowOk], kids |-> [by |-> NoOne, ok |-> kidsOk],
                      archived |-> FALSE, status |-> "DRAFT", updatedAt |-> 1]
    BY DEF Init
  <2> QED
    BY <2>1, <2>2
<1>2. DraftNow \in {d \in Register!Draft : ~d.archived}
  BY <1>1 DEF DraftNow, Register!Draft, Product
<1>3. VersionsNow = <<>>
  <2>1. DOMAIN history = {}
    BY DEF Init
  <2> QED
    BY <2>1 DEF VersionsNow
<1>4. Live = FALSE /\ passport.qr = NoOne
  BY DEF Init, Live
<1> QED
  BY <1>2, <1>3, <1>4 DEF Register!RegisterInit, DraftNow, VersionsNow

(* A commit is an atomic publication of the draft as it is.                 *)
LEMMA CommitRefines ==
  ASSUME Guarded, QrSeen, VersionsContiguous, Guarded', VersionsContiguous',
         NEW r \in Requests, NEW acked \in BOOLEAN, PublishCommit(r, acked)
  PROVE  Register!PublishDraft
<1> DEFINE n == passport.version + 1
           new == [row |-> product.row, kids |-> product.kids]
<1>0. product \in Product /\ passport.version \in Nat
  BY DEF Guarded, TypeOK, Passport
<1>1. Register!Complete(DraftNow) /\ ~DraftNow.archived
  BY CommitWrites DEF DraftNow, Register!Complete, Complete
<1>2. DraftNow' = DraftNow
  BY <1>0, CommitWrites DEF DraftNow, Product
<1>3. VersionsNow' = Append(VersionsNow, new)
  <2>1. /\ VersionsNow \in Seq(Register!Snapshot) /\ Len(VersionsNow) = passport.version
        /\ DOMAIN history = 1..passport.version
    BY VersionsAreASequence DEF VersionsContiguous
  <2>2. VersionsNow' \in Seq(Register!Snapshot) /\ Len(VersionsNow') = n
    <3>1. (VersionsNow \in Seq(Register!Snapshot) /\ Len(VersionsNow) = passport.version)'
      BY VersionsAreASequence, PTL
    <3> QED
      BY <3>1, CommitWrites
  <2>3. new \in Register!Snapshot
    BY <1>0 DEF Product, Register!Snapshot
  <2>4. Append(VersionsNow, new) \in Seq(Register!Snapshot) /\ Len(Append(VersionsNow, new)) = n
    BY <2>1, <2>3, AppendProperties
  <2>5. ASSUME NEW i \in 1..n PROVE VersionsNow'[i] = Append(VersionsNow, new)[i]
    <3>0. history' = [m \in DOMAIN history \cup {n} |->
                         IF m = n THEN [row |-> product.row, kids |-> product.kids, at |-> mem[r].at]
                         ELSE history[m]]
      BY CommitWrites
    <3>1. DOMAIN history' = 1..n /\ i \in DOMAIN history \cup {n}
      BY <2>1, <1>0, <3>0
    <3>2. CASE i = n
      <4>1. history'[i].row = product.row /\ history'[i].kids = product.kids
        BY <3>0, <3>1, <3>2
      <4>2. VersionsNow'[i] = new
        BY <3>1, <4>1 DEF VersionsNow
      <4> QED
        BY <2>1, <2>3, <3>2, <4>2, AppendProperties
    <3>3. CASE i # n
      <4>1. i \in 1..passport.version
        BY <3>3, <1>0
      <4>2. history'[i] = history[i]
        BY <3>0, <3>1, <3>3
      <4>3. VersionsNow'[i] = VersionsNow[i]
        BY <2>1, <3>1, <4>1, <4>2 DEF VersionsNow
      <4> QED
        BY <2>1, <2>3, <4>1, <4>3, AppendProperties
    <3> QED
      BY <3>2, <3>3
  <2> QED
    BY <2>2, <2>4, <2>5, SeqEqual
<1>4. Live'
  BY CommitWrites DEF Live
<1>5. IF passport.qr = NoOne THEN passport'.qr \in Requests ELSE passport'.qr = passport.qr
  <2>1. CASE passport.qr # NoOne
    BY <2>1, CommitWrites
  <2>2. CASE passport.qr = NoOne
    BY <2>2, CommitInstallsQr, CommitWrites
  <2> QED
    BY <2>1, <2>2
<1> QED
  BY <1>1, <1>2, <1>3, <1>4, <1>5 DEF Register!PublishDraft, Register!SnapshotOf, DraftNow, VersionsNow

LEMMA UnpublishRefines ==
  ASSUME Guarded, NEW r \in Requests, UnpublishProduct(r)
  PROVE  Register!WithdrawPassport
<1>0. product \in Product /\ passport \in Passport
  BY DEF Guarded, TypeOK
<1>1. DraftNow' = DraftNow
  BY <1>0, UnpublishWrites DEF DraftNow, Product
<1>2. VersionsNow' = VersionsNow
  BY UnpublishWrites DEF VersionsNow
<1>3. Live' = FALSE /\ passport'.qr = passport.qr
  BY <1>0, UnpublishWrites DEF Live, Passport
<1> QED
  BY <1>1, <1>2, <1>3 DEF Register!WithdrawPassport, DraftNow, VersionsNow

(* What an edit leaves is a draft, archived if it was.                      *)
LEMMA EditedIsADraft ==
  ASSUME Guarded, NEW r \in Requests, NEW p \in Edited(r)
  PROVE  /\ [row |-> p.row, kids |-> p.kids, archived |-> p.archived] \in Register!Draft
         /\ product.archived => p.archived
<1>1. /\ Touched(r) \in Product /\ Touched(r).archived = product.archived
      /\ Touched(r).row = product.row /\ Touched(r).kids = product.kids
  <2>1. mem[r].at \in Nat /\ product \in Product
    BY DEF Guarded, TypeOK, Memory
  <2> QED
    BY <2>1 DEF Product, Touched
<1>2. Written(r) \subseteq Content /\ product.kids \in Content
  BY DEF Written, Content, Editor, Guarded, TypeOK, Product
<1>3. p.row \in Content /\ p.kids \in Content /\ p.archived \in BOOLEAN
      /\ (product.archived => p.archived)
  <2>1. CASE p \in ArchivedDraft(r)
    BY <1>1, <2>1 DEF ArchivedDraft, Product
  <2>2. CASE p \in UpdatedDraft(r)
    BY <1>1, <1>2, <2>2 DEF UpdatedDraft, Product
  <2>3. CASE p \in ChangedKids(r)
    BY <1>1, <1>2, <2>3 DEF ChangedKids, Product
  <2> QED
    BY <2>1, <2>2, <2>3 DEF Edited
<1> QED
  BY <1>3 DEF Register!Draft

LEMMA EditRefines ==
  ASSUME Guarded, NEW r \in Requests, EditWrite(r)
  PROVE  Register!EditDraft
<1>1. product' \in Edited(r) /\ UNCHANGED <<passport, history>>
  BY DEF EditWrite
<1>2. DraftNow' \in Register!Draft /\ (DraftNow.archived => DraftNow'.archived)
  BY <1>1, EditedIsADraft DEF DraftNow
<1>3. UNCHANGED <<VersionsNow, Live, passport.qr>>
  BY <1>1 DEF VersionsNow, Live
<1> QED
  BY <1>2, <1>3 DEF Register!EditDraft, DraftNow, VersionsNow

LEMMA NextRefines ==
  ASSUME Guarded, QrSeen, VersionsContiguous, Guarded', VersionsContiguous', [Next]_vars
  PROVE  [Register!RegisterNext]_(Register!registerVars)
<1> USE DEF Register!RegisterNext
<1>1. CASE UNCHANGED <<product, passport, history, audit>>
  BY <1>1 DEF Register!registerVars, Live
<1>2. ASSUME NEW r \in Requests, PublishUpsert(r) PROVE UNCHANGED Register!registerVars
  <2>1. /\ passport'.publishedAt = passport.publishedAt /\ passport'.qr = passport.qr
        /\ passport'.unpublishedAt = passport.unpublishedAt
    BY <1>2 DEF PublishUpsert, Guarded, TypeOK, Passport
  <2> QED
    BY <1>2, <2>1 DEF PublishUpsert, Register!registerVars, Live
<1>3. ASSUME NEW r \in Requests, NEW acked \in BOOLEAN, PublishCommit(r, acked)
      PROVE  Register!PublishDraft
  BY <1>3, CommitRefines
<1>4. ASSUME NEW r \in Requests, UnpublishProduct(r) PROVE Register!WithdrawPassport
  BY <1>4, UnpublishRefines
<1>5. ASSUME NEW r \in Requests, EditWrite(r) PROVE Register!EditDraft
  BY <1>5, EditRefines
<1> QED
  BY <1>1, <1>2, <1>3, <1>4, <1>5, WhoWrites

(* Publication refines the abstract register: whatever the interleaving of  *)
(* publishes, unpublishes, edits and failures, a version is an exact copy of *)
(* the complete draft at one instant, published versions never change, an   *)
(* archived draft stays so, and the QR key is issued once.                  *)
THEOREM PublicationImplementsRegister == Spec => ImplementsRegister
<1> DEFINE IInv == Guarded /\ QrSeen /\ VersionsContiguous
<1>1. Init => IInv
  BY InitGuarded, InitQrSeen, InitVersions
<1>2. IInv /\ [Next]_vars => IInv'
  BY NextGuarded, NextQrSeen, NextVersions
<1>3. IInv /\ IInv' /\ [Next]_vars => [Register!RegisterNext]_(Register!registerVars)
  BY NextRefines
<1>4. Init => Register!RegisterInit
  BY InitRefines
<1> QED
  BY <1>1, <1>2, <1>3, <1>4, PTL DEF Spec, ImplementsRegister, Register!RegisterSpec
=============================================================================
