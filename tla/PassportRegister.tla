-------------------------- MODULE PassportRegister --------------------------
(***************************************************************************)
(* What a passport promises, with no transactions, locks, clocks or files: *)
(* an append-only register of versions, each an exact copy of the draft at *)
(* one instant, a switch that says whether the latest version is public,   *)
(* and a QR key that is issued once.                                       *)
(*                                                                         *)
(* Publication.tla is shown to implement this module; PublicCache.tla      *)
(* builds the public read path on top of it.                               *)
(***************************************************************************)
EXTENDS Naturals, Sequences

CONSTANTS
    Content,   \* what a part of a draft can hold: a set of records with an "ok" field
    Keys,      \* the QR keys that may be issued
    NoKey      \* stands for a null qrKey

ASSUME RegisterAssumption == NoKey \notin Keys

VARIABLES
    draft,     \* the authoring record: row, kids (its child rows), archived
    versions,  \* the published snapshots, oldest first
    live,      \* TRUE while the public URL resolves
    qr         \* the passport's QR key, or NoKey

registerVars == <<draft, versions, live, qr>>

Draft    == [row: Content, kids: Content, archived: BOOLEAN]
Snapshot == [row: Content, kids: Content]

(* No publish blocker is left: both parts pass evaluatePublishBlockers.     *)
Complete(d) == d.row.ok /\ d.kids.ok

SnapshotOf(d) == [row |-> d.row, kids |-> d.kids]

RegisterInit ==
    /\ draft \in {d \in Draft : ~d.archived}
    /\ versions = <<>>
    /\ live = FALSE
    /\ qr = NoKey

(* An edit replaces the draft and touches nothing that is published; an     *)
(* archived draft stays archived.                                           *)
EditDraft ==
    /\ \E d \in Draft : /\ draft.archived => d.archived
                        /\ draft' = d
    /\ UNCHANGED <<versions, live, qr>>

(* A publication copies a complete, unarchived draft in one step.           *)
PublishDraft ==
    /\ Complete(draft)
    /\ ~draft.archived
    /\ versions' = Append(versions, SnapshotOf(draft))
    /\ live' = TRUE
    /\ IF qr = NoKey THEN qr' \in Keys ELSE qr' = qr
    /\ UNCHANGED draft

(* An unpublish withdraws the public URL and keeps versions and identity.   *)
WithdrawPassport ==
    /\ live' = FALSE
    /\ UNCHANGED <<draft, versions, qr>>

RegisterNext == EditDraft \/ PublishDraft \/ WithdrawPassport

RegisterSpec == RegisterInit /\ [][RegisterNext]_registerVars
=============================================================================
