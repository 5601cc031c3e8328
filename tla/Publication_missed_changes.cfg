\* An edit that waits for a publication commits with an older timestamp.
CONSTANTS
    r1 = r1
    r2 = r2
    r3 = r3
    r4 = r4
    NoOne = NoOne
    Requests <- MCThree
    Kinds <- AllKinds
    CommitAckLoss = FALSE
SPECIFICATION Spec
INVARIANTS
    NoMissedUnpublishedChanges
