\* Three requests of any kind, with every failure.
CONSTANTS
    r1 = r1
    r2 = r2
    r3 = r3
    r4 = r4
    NoOne = NoOne
    Requests <- MCThree
    Kinds <- AllKinds
    CommitAckLoss = TRUE
SYMMETRY MCSymmetry
SPECIFICATION Spec
INVARIANTS
    VersionsContiguous
    StatusAgrees
    AuditMatchesHistory
    NoFalseUnpublishedChanges
    OnlyOppositeOrdersDeadlock
    OrphanQrHasExcuse
PROPERTIES
    ImplementsRegister
    QrNeverReissued
