\* Three tasks of all kinds, every failure.
CONSTANTS
    t1 = t1
    t2 = t2
    t3 = t3
    f1 = f1
    f2 = f2
    f0 = f0
    FirstLogo = f0
    Files <- MCFiles
    NoFile = NoFile
    Kinds <- AllKinds
    Tasks <- MCThreeTasks
    Unreliable = TRUE
CHECK_DEADLOCK FALSE
SYMMETRY MCSymmetry
SPECIFICATION Spec
INVARIANTS
    MissingOnlyByRace
    ForgottenForAReason
