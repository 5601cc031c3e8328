------------------------ MODULE PublicationProperties ------------------------
(***************************************************************************)
(* What Publication.tla is expected to guarantee.                          *)
(***************************************************************************)
EXTENDS Publication, FiniteSets

(* Every variable stays within its type.                                    *)
TypeOK ==
    /\ product \in Product
    /\ passport \in Passport
    /\ DOMAIN history \subseteq Nat
    /\ \A v \in DOMAIN history : history[v] \in Snapshot
    /\ audit \subseteq Entry
    /\ qrFiles \subseteq Requests
    /\ now \in Nat
    /\ kind \in [Requests -> Kinds]
    /\ pc \in [Requests -> Steps]
    /\ mem \in [Requests -> Memory]
    /\ rowLock \in [{"product", "passport"} -> Editor]
    /\ keyShare \subseteq Requests

-----------------------------------------------------------------------------
(* The version pointer, the immutable rows and the CHECK constraint          *)
(* passports_version_state agree: versions are numbered 1..n without gaps,   *)
(* n is the pointer, and publishedAt is null exactly at version 0. Failed,   *)
(* crashed and racing publishes never burn, reuse or skip a number.          *)
VersionsContiguous ==
    /\ DOMAIN history = 1..passport.version
    /\ passport.publishedAt = NeverSet <=> passport.version = 0

(* The product's status says PUBLISHED exactly while the public URL          *)
(* resolves, however publishes and unpublishes of one product interleave.    *)
StatusAgrees == product.status = "PUBLISHED" <=> Live

(* Every version has exactly one PASSPORT_PUBLISHED audit entry and every    *)
(* such entry a version: neither survives the failure of the other.          *)
AuditMatchesHistory ==
    LET published == {e \in audit : e.action = "publish"} IN
    /\ {e.version : e \in published} = DOMAIN history
    /\ \A d, e \in published : d.version = e.version => d = e

(* getPublishStatus: the public snapshot lags behind the draft when they     *)
(* differ; hasUnpublishedChanges is how the code computes it.                *)
DraftDiffers ==
    passport.version > 0 /\ LET latest == history[passport.version]
                            IN latest.row # product.row \/ latest.kids # product.kids

HasUnpublishedChanges == Live /\ product.updatedAt > passport.publishedAt

(* The editor never announces unpublished changes when there are none: right *)
(* after a publish, and until an edit commits, the two timestamps are equal. *)
NoFalseUnpublishedChanges ==
    HasUnpublishedChanges => DraftDiffers \/ product.archived

(* The editor announces unpublished changes whenever there are some, "one    *)
(* accurate status instead of the client having to infer it". (An edit in    *)
(* the very millisecond of the publish is let off.)                          *)
NoMissedUnpublishedChanges ==
    Live /\ DraftDiffers /\ ~product.archived =>
        HasUnpublishedChanges \/ product.updatedAt = passport.publishedAt

-----------------------------------------------------------------------------
(* The QR key, once installed, is never reissued: not by a republish, not by *)
(* the loser of a race between first publishes, not by unpublish.            *)
QrNeverReissued == [][passport.qr # NoOne => passport'.qr = passport.qr]_vars

(* The installed QR key has its file: cleaning up after a lost race or a     *)
(* failed publish never deletes the image printed on products.               *)
InstalledQrExists == passport.qr # NoOne => passport.qr \in qrFiles

(* A QR file that no passport uses belongs to a request still running, or to *)
(* one that died or could not reach the storage: every request that ends     *)
(* normally leaves nothing behind.                                           *)
OrphanQrHasExcuse ==
    \A k \in qrFiles : k = passport.qr \/ pc[k] \in PublishSteps \cup {"crashed", "leaked"}

-----------------------------------------------------------------------------
(* Two requests wait for each other only when one publishes and the other    *)
(* unpublishes, which lock product and passport in opposite orders: edits    *)
(* and archiving never cost a publication a deadlock on these two rows.      *)
OnlyOppositeOrdersDeadlock ==
    \A r, s \in Requests :
        WaitsFor(r, s) /\ WaitsFor(s, r) => {kind[r], kind[s]} = {"publish", "unpublish"}

(* Every request is answered, or its process dies: no lock is left behind    *)
(* and no wait outlives PostgreSQL's deadlock detection.                     *)
EveryRequestEnds == \A r \in Requests : pc[r] # "start" ~> pc[r] \in Ended

-----------------------------------------------------------------------------
(* The inductive invariants behind the above; PublicationProofs shows that   *)
(* they are.                                                                 *)

HoldsProduct  == {"lockPassport", "readRow", "readKids", "commit"}
HoldsPassport == {"readRow", "readKids", "commit", "unpublishProduct"}

(* A row is locked exactly by the request whose step says so.                *)
LocksMatchSteps ==
    /\ \A r \in Requests : rowLock["product"] = r <=> pc[r] \in HoldsProduct
    /\ \A r \in Requests : rowLock["passport"] = r <=> pc[r] \in HoldsPassport
    /\ \A r \in keyShare : pc[r] \in {"checked", "write"} /\ kind[r] = "childAdd"

KindsMatchSteps ==
    \A r \in Requests :
        /\ pc[r] \in PublishSteps => kind[r] = "publish"
        /\ pc[r] \in UnpublishSteps => kind[r] = "unpublish"
        /\ pc[r] \in EditSteps => IsEdit(r)
        /\ pc[r] = "keyShare" => AddsChild(r)

(* What a request has read under its locks is still so.                      *)
StillTrue ==
    \A r \in Requests :
        /\ pc[r] \in HoldsPassport \cap HoldsProduct =>
               mem[r].version = passport.version /\ mem[r].lockedQr = passport.qr
        /\ pc[r] \in {"readKids", "commit"} => mem[r].row = product.row /\ ~product.archived
        /\ pc[r] = "commit" => mem[r].kids = product.kids /\ Complete(product)

(* Time stamps that are about to be written are not null.                    *)
StampsAreSet ==
    /\ now # NeverSet
    /\ \A r \in Requests :
          pc[r] \in {"commit", "unpublishPassport", "unpublishProduct"} => mem[r].at # NeverSet

(* No request's content is anywhere before it has written it.                *)
NotYetWritten ==
    \A r \in Requests : pc[r] \notin Ended =>
        /\ product.row.by # r /\ product.kids.by # r
        /\ \A v \in DOMAIN history : history[v].row.by # r /\ history[v].kids.by # r

(* A generated QR file is known to its publish and to no one else.           *)
QrOwned ==
    \A r \in Requests :
        /\ mem[r].newQr \in {NoOne, r}
        /\ mem[r].newQr = r => r \in qrFiles /\ pc[r] \in PublishSteps
        /\ r \in qrFiles => pc[r] \in (PublishSteps \ {"upsert", "makeQr"}) \cup Ended
        /\ r \in qrFiles /\ pc[r] \in PublishSteps => mem[r].newQr = r

(* A publish that generated none has seen one installed.                     *)
QrSeen ==
    \A r \in Requests :
        pc[r] \in HoldsProduct \cup {"lockProduct"} => mem[r].newQr = r \/ passport.qr # NoOne

(* If no answer to a COMMIT is lost, a publish whose key is installed has    *)
(* ended: none of them will discard the file any more.                       *)
QrInstalled == \A r \in Requests : passport.qr = r => pc[r] \in Ended

-----------------------------------------------------------------------------
(* The passport the publication code implements.                            *)
Register == INSTANCE PassportRegister WITH
    Content  <- Content,
    Keys     <- Requests,
    NoKey    <- NoOne,
    draft    <- [row |-> product.row, kids |-> product.kids, archived |-> product.archived],
    versions <- [v \in DOMAIN history |-> [row |-> history[v].row, kids |-> history[v].kids]],
    live     <- Live,
    qr       <- passport.qr

(* Every publication is an atomic copy of the draft, complete and not        *)
(* archived, appended to the versions; edits never reach what is published   *)
(* and archiving is final; unpublish only withdraws.                         *)
ImplementsRegister == Register!RegisterSpec
=============================================================================
