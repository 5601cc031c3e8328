----------------------------- MODULE Publication -----------------------------
(***************************************************************************)
(* One product, its passport and the requests that change them: publish,   *)
(* unpublish, every edit of the draft and archiving, as the API runs them  *)
(* on PostgreSQL at READ COMMITTED.                                        *)
(*                                                                         *)
(* Each element of Requests is one HTTP request. A request is a sequence   *)
(* of awaits, so every await is a step of its own and requests interleave  *)
(* between them. Writes inside a transaction are invisible to the others   *)
(* until it commits, so they are gathered in the step that commits.        *)
(***************************************************************************)
EXTENDS Naturals

CONSTANTS
    Requests,       \* the requests of one run
    Kinds,          \* which operations they may be
    NoOne,          \* no holder, no QR key, no editor
    CommitAckLoss   \* may the answer to a COMMIT be lost after it took effect?

AllKinds == {"publish", "unpublish", "update", "childWrite", "childAdd", "archive"}

ASSUME PublicationAssumption ==
    /\ NoOne \notin Requests
    /\ Kinds \subseteq AllKinds
    /\ CommitAckLoss \in BOOLEAN

VARIABLES
    product,    \* the products row, its child rows gathered in "kids"
    passport,   \* the passports row; version 0 before the first publication
    history,    \* passport_versions: version number -> snapshot
    audit,      \* audit_log_entries of this product
    qrFiles,    \* QR images in storage, each named after the request that made it
    now,        \* the wall clock that new Date() reads
    kind,       \* kind[r]: the operation request r asks for
    pc,         \* pc[r]: the await request r has reached
    mem,        \* mem[r]: the local variables of request r
    rowLock,    \* exclusive row locks held across awaits
    keyShare    \* holders of FOR KEY SHARE on the product row (foreign-key checks)

vars == <<product, passport, history, audit, qrFiles, now, kind, pc, mem, rowLock, keyShare>>

-----------------------------------------------------------------------------
(* Data. A content names the request that wrote it, so two drafts are equal *)
(* exactly when no edit lies between them.                                  *)

Editor   == Requests \cup {NoOne}
Content  == [by: Editor, ok: BOOLEAN]
NeverSet == 0    \* a null timestamp; the clock starts at 1

Product  == [row: Content, kids: Content, archived: BOOLEAN,
             status: {"DRAFT", "PUBLISHED"}, updatedAt: Nat]
Passport == [exists: BOOLEAN, version: Nat, publishedAt: Nat, unpublishedAt: Nat, qr: Editor]
Snapshot == [row: Content, kids: Content, at: Nat]
Entry    == [by: Requests, action: AllKinds, version: Nat]
Memory   == [seenQr: Editor, newQr: Editor, version: Nat, lockedQr: Editor,
             row: Content, kids: Content, at: Nat]

NoContent == [by |-> NoOne, ok |-> FALSE]
Blank     == [seenQr |-> NoOne, newQr |-> NoOne, version |-> 0, lockedQr |-> NoOne,
              row |-> NoContent, kids |-> NoContent, at |-> NeverSet]

PublishSteps   == {"upsert", "makeQr", "lockProduct", "lockPassport", "readRow", "readKids",
                   "commit", "discard"}
UnpublishSteps == {"unpublishPassport", "unpublishProduct"}
EditSteps      == {"checked", "keyShare", "write"}
Running        == PublishSteps \cup UnpublishSteps \cup EditSteps
Ended          == {"answered", "leaked", "crashed"}
Steps          == {"start"} \cup Running \cup Ended

Complete(d) == d.row.ok /\ d.kids.ok
Live        == passport.publishedAt # NeverSet /\ passport.unpublishedAt = NeverSet

-----------------------------------------------------------------------------
(* Row locks. FOR UPDATE (publish) conflicts with every other lock on the   *)
(* row, FOR NO KEY UPDATE (a plain UPDATE) with all but FOR KEY SHARE,      *)
(* which an insert into a child table takes on its product.                 *)

Holder(row) == {rowLock[row]} \ {NoOne}

(* Broken, for mutation: edits lock the product against inserted children.  *)
BlockingByInserts(r) ==
    CASE pc[r] \in {"lockProduct", "write"} -> (Holder("product") \cup keyShare) \ {r}
      [] pc[r] \in {"unpublishProduct", "keyShare"} -> Holder("product")
      [] pc[r] \in {"upsert", "lockPassport", "unpublishPassport"} -> Holder("passport")
      [] OTHER -> {}

(* Broken, for mutation: publish does not lock the product.                 *)
BlockingByPassportOnly(r) ==
    IF pc[r] \in {"upsert", "lockPassport", "unpublishPassport"} THEN Holder("passport") ELSE {}

(* The requests that keep r's next statement waiting.                       *)
Blocking(r) ==
    CASE pc[r] = "lockProduct" -> Holder("product") \cup keyShare
      [] pc[r] \in {"unpublishProduct", "keyShare", "write"} -> Holder("product")
      [] pc[r] \in {"upsert", "lockPassport", "unpublishPassport"} -> Holder("passport")
      [] OTHER -> {}

WaitsFor(r, s) == s \in Blocking(r)

At(r, step) == pc[r] = step /\ Blocking(r) = {}
Goto(r, step) == pc' = [pc EXCEPT ![r] = step]

Acquire(r, row) == rowLock' = [rowLock EXCEPT ![row] = r]

(* A transaction that ends, either way, gives up its locks.                 *)
Release(r) ==
    /\ rowLock' = [row \in DOMAIN rowLock |-> IF rowLock[row] = r THEN NoOne ELSE rowLock[row]]
    /\ keyShare' = keyShare \ {r}

(* A request that ends forgets its locals.                                  *)
End(r, step) == Goto(r, step) /\ mem' = [mem EXCEPT ![r] = Blank]

(* What new Date() may answer: this millisecond or a later one.             *)
Instants == {now, now + 1}

Log(r, version) == audit' = audit \cup {[by |-> r, action |-> kind[r], version |-> version]}

-----------------------------------------------------------------------------
Init ==
    /\ \E rowOk, kidsOk \in BOOLEAN :
         product = [row |-> [by |-> NoOne, ok |-> rowOk], kids |-> [by |-> NoOne, ok |-> kidsOk],
                    archived |-> FALSE, status |-> "DRAFT", updatedAt |-> 1]
    /\ passport = [exists |-> FALSE, version |-> 0, publishedAt |-> NeverSet,
                   unpublishedAt |-> NeverSet, qr |-> NoOne]
    /\ history = [v \in {} |-> Blank]
    /\ audit = {}
    /\ qrFiles = {}
    /\ now = 1
    /\ kind \in [Requests -> Kinds]
    /\ pc = [r \in Requests |-> "start"]
    /\ mem = [r \in Requests |-> Blank]
    /\ rowLock = [row \in {"product", "passport"} |-> NoOne]
    /\ keyShare = {}

-----------------------------------------------------------------------------
(* Publish *)

(* Blockers are checked once before anything is written.                    *)
PublishCheck(r) ==
    /\ kind[r] = "publish" /\ pc[r] = "start"
    /\ Goto(r, IF ~product.archived /\ Complete(product) THEN "upsert" ELSE "answered")
    /\ UNCHANGED <<product, passport, history, audit, qrFiles, now, kind, mem, rowLock, keyShare>>

(* Broken, for mutation: the version is taken before the transaction.       *)
PublishUpsertTakesVersion(r) ==
    /\ At(r, "upsert")
    /\ passport' = [passport EXCEPT !.exists = TRUE, !.version = @ + 1]
    /\ mem' = [mem EXCEPT ![r].seenQr = passport.qr]
    /\ Goto(r, IF passport.qr = NoOne THEN "makeQr" ELSE "lockProduct")
    /\ UNCHANGED <<product, history, audit, qrFiles, now, kind, rowLock, keyShare>>

(* INSERT ... ON CONFLICT: creates the passport at version 0, or waits for  *)
(* whoever holds the row and returns it as it then is.                      *)
PublishUpsert(r) ==
    /\ At(r, "upsert")
    /\ passport' = [passport EXCEPT !.exists = TRUE]
    /\ mem' = [mem EXCEPT ![r].seenQr = passport.qr]
    /\ Goto(r, IF passport.qr = NoOne THEN "makeQr" ELSE "lockProduct")
    /\ UNCHANGED <<product, history, audit, qrFiles, now, kind, rowLock, keyShare>>

PublishMakeQr(r) ==
    /\ At(r, "makeQr")
    /\ qrFiles' = qrFiles \cup {r}
    /\ mem' = [mem EXCEPT ![r].newQr = r]
    /\ Goto(r, "lockProduct")
    /\ UNCHANGED <<product, passport, history, audit, now, kind, rowLock, keyShare>>

PublishLockProduct(r) ==
    /\ At(r, "lockProduct")
    /\ Acquire(r, "product")
    /\ Goto(r, "lockPassport")
    /\ UNCHANGED <<product, passport, history, audit, qrFiles, now, kind, mem, keyShare>>

PublishLockPassport(r) ==
    /\ At(r, "lockPassport")
    /\ Acquire(r, "passport")
    /\ mem' = [mem EXCEPT ![r].version = passport.version, ![r].lockedQr = passport.qr]
    /\ Goto(r, "readRow")
    /\ UNCHANGED <<product, passport, history, audit, qrFiles, now, kind, keyShare>>

(* buildSnapshot is one SELECT for the product and one per relation, each   *)
(* of which sees what is committed when it runs.                            *)
PublishReadRow(r) ==
    /\ At(r, "readRow")
    /\ ~product.archived
    /\ mem' = [mem EXCEPT ![r].row = product.row]
    /\ Goto(r, "readKids")
    /\ UNCHANGED <<product, passport, history, audit, qrFiles, now, kind, rowLock, keyShare>>

(* Broken, for mutation: the audit entry is written outside the transaction. *)
PublishReadKidsAndLogs(r) ==
    /\ At(r, "readKids")
    /\ Complete([row |-> mem[r].row, kids |-> product.kids])
    /\ \E t \in Instants : /\ now' = t
                           /\ mem' = [mem EXCEPT ![r].kids = product.kids, ![r].at = t]
    /\ Log(r, mem[r].version + 1)
    /\ Goto(r, "commit")
    /\ UNCHANGED <<product, passport, history, qrFiles, kind, rowLock, keyShare>>

(* The authoritative blocker check, then the one timestamp of all writes.   *)
PublishReadKids(r) ==
    /\ At(r, "readKids")
    /\ Complete([row |-> mem[r].row, kids |-> product.kids])
    /\ \E t \in Instants : /\ now' = t
                           /\ mem' = [mem EXCEPT ![r].kids = product.kids, ![r].at = t]
    /\ Goto(r, "commit")
    /\ UNCHANGED <<product, passport, history, audit, qrFiles, kind, rowLock, keyShare>>

(* Broken, for mutation: qr?.key ?? locked.qrKey ?? passport.qrKey          *)
ChosenQrNewFirst(r) ==
    IF mem[r].newQr # NoOne THEN mem[r].newQr
    ELSE IF mem[r].lockedQr # NoOne THEN mem[r].lockedQr
    ELSE mem[r].seenQr

(* locked.qrKey ?? qr?.key ?? passport.qrKey                                *)
ChosenQr(r) ==
    IF mem[r].lockedQr # NoOne THEN mem[r].lockedQr
    ELSE IF mem[r].newQr # NoOne THEN mem[r].newQr
    ELSE mem[r].seenQr

AddVersion(v, snapshot) ==
    history' = [n \in DOMAIN history \cup {v} |-> IF n = v THEN snapshot ELSE history[n]]

(* Broken, for mutation: unpublishedAt is not reset.                        *)
PublishedPassportNotReset(r, version) ==
    [passport EXCEPT !.version = version, !.publishedAt = mem[r].at, !.qr = ChosenQr(r)]

PublishedPassport(r, version) ==
    [passport EXCEPT !.version = version, !.publishedAt = mem[r].at,
                     !.unpublishedAt = NeverSet, !.qr = ChosenQr(r)]

(* Broken, for mutation: the product update takes a timestamp of its own.   *)
PublishedProductLater(r) == [product EXCEPT !.status = "PUBLISHED", !.updatedAt = now + 1]

PublishedProduct(r) == [product EXCEPT !.status = "PUBLISHED", !.updatedAt = mem[r].at]

(* Broken, for mutation: the loser of a QR race keeps its file.             *)
AfterCommitKeepsFile(r, acked) == End(r, "answered")

(* Broken, for mutation: every generated file is discarded.                 *)
AfterCommitDiscards(r, acked) ==
    IF mem[r].newQr = NoOne THEN End(r, "answered") ELSE Goto(r, "discard") /\ UNCHANGED mem

(* A lost QR race is cleaned up after the commit; a thrown error, even one  *)
(* that only hides a successful COMMIT, discards the generated file.        *)
AfterCommit(r, acked) ==
    IF mem[r].newQr = NoOne \/ (acked /\ ChosenQr(r) = mem[r].newQr)
    THEN End(r, "answered")
    ELSE Goto(r, "discard") /\ UNCHANGED mem

(* The version is unique per passport: a number already taken fails the     *)
(* insert, and Fail rolls the transaction back.                             *)
PublishCommit(r, acked) ==
    LET version == mem[r].version + 1 IN
    /\ At(r, "commit")
    /\ version \notin DOMAIN history
    /\ passport' = PublishedPassport(r, version)
    /\ AddVersion(version, [row |-> mem[r].row, kids |-> mem[r].kids, at |-> mem[r].at])
    /\ product' = PublishedProduct(r)
    /\ Log(r, version)
    /\ Release(r)
    /\ AfterCommit(r, acked)
    /\ UNCHANGED <<qrFiles, now, kind>>

PublishDiscard(r) ==
    /\ At(r, "discard")
    /\ qrFiles' = qrFiles \ {mem[r].newQr}
    /\ End(r, "answered")
    /\ UNCHANGED <<product, passport, history, audit, now, kind, rowLock, keyShare>>

Publish(r) ==
    \/ PublishCheck(r) \/ PublishUpsert(r) \/ PublishMakeQr(r)
    \/ PublishLockProduct(r) \/ PublishLockPassport(r)
    \/ PublishReadRow(r) \/ PublishReadKids(r)
    \/ PublishCommit(r, TRUE) \/ PublishDiscard(r)

-----------------------------------------------------------------------------
(* Unpublish *)

(* Any passport row will do, even at version 0. The timestamp is taken      *)
(* before the transaction starts.                                           *)
UnpublishCheck(r) ==
    /\ kind[r] = "unpublish" /\ pc[r] = "start"
    /\ IF passport.exists
       THEN \E t \in Instants : /\ now' = t
                                /\ mem' = [mem EXCEPT ![r].at = t]
                                /\ Goto(r, "unpublishPassport")
       ELSE Goto(r, "answered") /\ UNCHANGED <<now, mem>>
    /\ UNCHANGED <<product, passport, history, audit, qrFiles, kind, rowLock, keyShare>>

(* Passport first, product second: the opposite of publish.                 *)
UnpublishPassport(r) ==
    /\ At(r, "unpublishPassport")
    /\ Acquire(r, "passport")
    /\ Goto(r, "unpublishProduct")
    /\ UNCHANGED <<product, passport, history, audit, qrFiles, now, kind, mem, keyShare>>

(* Broken, for mutation: the transaction is left open.                      *)
UnpublishProductLeftOpen(r) ==
    /\ At(r, "unpublishProduct")
    /\ passport' = [passport EXCEPT !.unpublishedAt = mem[r].at]
    /\ product' = [product EXCEPT !.status = "DRAFT", !.updatedAt = mem[r].at]
    /\ Log(r, 0)
    /\ End(r, "answered")
    /\ UNCHANGED <<history, qrFiles, now, kind, rowLock, keyShare>>

UnpublishProduct(r) ==
    /\ At(r, "unpublishProduct")
    /\ passport' = [passport EXCEPT !.unpublishedAt = mem[r].at]
    /\ product' = [product EXCEPT !.status = "DRAFT", !.updatedAt = mem[r].at]
    /\ Log(r, 0)
    /\ Release(r)
    /\ End(r, "answered")
    /\ UNCHANGED <<history, qrFiles, now, kind>>

Unpublish(r) == UnpublishCheck(r) \/ UnpublishPassport(r) \/ UnpublishProduct(r)

-----------------------------------------------------------------------------
(* Edits of the draft. "update" writes the product row and may replace      *)
(* materials and sustainability; "childWrite" changes or deletes a child    *)
(* row before it touches the product (removeImage, setCoverImage,           *)
(* removeDocument, removeCertification); "childAdd" inserts one, whose      *)
(* foreign key takes FOR KEY SHARE first (addImage, addDocument,            *)
(* addCertification); "archive" is softDelete.                              *)

AddsChild(r)    == kind[r] = "childAdd"
ChangesChild(r) == kind[r] = "childWrite"
IsEdit(r)       == kind[r] \in {"update", "archive"} \/ AddsChild(r) \/ ChangesChild(r)

(* findOne / assertProductOwnership, outside the transaction.               *)
EditCheck(r) ==
    /\ IsEdit(r) /\ pc[r] = "start"
    /\ Goto(r, CASE product.archived        -> "answered"
                 [] AddsChild(r)            -> "keyShare"
                 [] OTHER                   -> "checked")
    /\ UNCHANGED <<product, passport, history, audit, qrFiles, now, kind, mem, rowLock, keyShare>>

EditKeyShare(r) ==
    /\ At(r, "keyShare")
    /\ keyShare' = keyShare \cup {r}
    /\ Goto(r, "checked")
    /\ UNCHANGED <<product, passport, history, audit, qrFiles, now, kind, mem, rowLock>>

(* updatedAt is computed in the API process, before the UPDATE is sent and  *)
(* can start waiting for the row.                                           *)
EditStamp(r) ==
    /\ At(r, "checked")
    /\ \E t \in Instants : /\ now' = t
                           /\ mem' = [mem EXCEPT ![r].at = t]
    /\ Goto(r, "write")
    /\ UNCHANGED <<product, passport, history, audit, qrFiles, kind, rowLock, keyShare>>

Touched(r) == [product EXCEPT !.updatedAt = mem[r].at]
Written(r) == [by: {r}, ok: BOOLEAN]

ArchivedDraft(r) == {[Touched(r) EXCEPT !.archived = TRUE]}
UpdatedDraft(r)  == {[Touched(r) EXCEPT !.row = new.row, !.kids = new.kids] :
                        new \in [row: Written(r), kids: Written(r) \cup {product.kids}]}
ChangedKids(r)   == {[Touched(r) EXCEPT !.kids = kids] : kids \in Written(r)}

(* What the committed edit leaves of the draft.                             *)
Edited(r) ==
    CASE kind[r] = "archive" -> ArchivedDraft(r)
      [] kind[r] = "update"  -> UpdatedDraft(r)
      [] OTHER               -> ChangedKids(r)

(* The UPDATE finds the row by id alone: it does not look at deletedAt.     *)
EditWrite(r) ==
    /\ At(r, "write")
    /\ product' \in Edited(r)
    /\ Log(r, 0)
    /\ Release(r)
    /\ End(r, "answered")
    /\ UNCHANGED <<passport, history, qrFiles, now, kind>>

Edit(r) == EditCheck(r) \/ EditKeyShare(r) \/ EditStamp(r) \/ EditWrite(r)

-----------------------------------------------------------------------------
(* Failures *)

(* Any await may throw: a blocker found under the locks, a 404, a unique    *)
(* violation, a deadlock victim, a transaction timeout. The transaction     *)
(* rolls back, and publish discards the QR file it generated.               *)
Fail(r) ==
    /\ pc[r] \in Running \ {"discard"}
    /\ Release(r)
    /\ IF mem[r].newQr # NoOne THEN Goto(r, "discard") /\ UNCHANGED mem ELSE End(r, "answered")
    /\ UNCHANGED <<product, passport, history, audit, qrFiles, now, kind>>

(* The image was stored, but generateForUrl failed: its key is unknown, and *)
(* no catch block covers it.                                                *)
MakeQrFails(r) ==
    /\ pc[r] = "makeQr"
    /\ qrFiles' = qrFiles \cup {r}
    /\ End(r, "leaked")
    /\ UNCHANGED <<product, passport, history, audit, now, kind, rowLock, keyShare>>

(* discardGeneratedQr swallows a storage error.                             *)
DiscardFails(r) ==
    /\ pc[r] = "discard"
    /\ End(r, "leaked")
    /\ UNCHANGED <<product, passport, history, audit, qrFiles, now, kind, rowLock, keyShare>>

(* The API process dies; PostgreSQL rolls its transaction back.             *)
Crash(r) ==
    /\ pc[r] \in Running
    /\ Release(r)
    /\ End(r, "crashed")
    /\ UNCHANGED <<product, passport, history, audit, qrFiles, now, kind>>

(* COMMIT took effect, the connection was lost before the answer.           *)
CommitUnacked(r) == CommitAckLoss /\ PublishCommit(r, FALSE)

Quiescent == (\A r \in Requests : pc[r] \in Ended) /\ UNCHANGED vars

-----------------------------------------------------------------------------
Step(r) == Publish(r) \/ Unpublish(r) \/ Edit(r)

Next ==
    \/ \E r \in Requests : Step(r)
    \/ \E r \in Requests : Fail(r) \/ MakeQrFails(r) \/ DiscardFails(r) \/ Crash(r) \/ CommitUnacked(r)
    \/ Quiescent

Spec == Init /\ [][Next]_vars

(* What must happen once it can: a request's own awaits, and the abort of a *)
(* statement that can no longer succeed, either because PostgreSQL found a  *)
(* wait cycle or because a check of the code throws.                        *)
Deadlocked(r) == \E s \in Requests : WaitsFor(r, s) /\ WaitsFor(s, r)
Rejected(r) ==
    \/ pc[r] = "readRow" /\ product.archived
    \/ pc[r] = "readKids" /\ ~Complete([row |-> mem[r].row, kids |-> product.kids])
    \/ pc[r] = "commit" /\ mem[r].version + 1 \in DOMAIN history

MustFail(r) == (Deadlocked(r) \/ Rejected(r)) /\ Fail(r)

FairSpec ==
    /\ Spec
    /\ \A r \in Requests : WF_vars(Step(r)) /\ WF_vars(MustFail(r))
=============================================================================
