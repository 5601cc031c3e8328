\* Two containers seed at every start; they are killed, or fail, and users work between.
CONSTANTS
    r1 = r1
    r2 = r2
    Runners <- MCRunners
    Brands <- MCBrands
    Kinds <- MCKinds
    MaxStops = 1
    MaxChanges = 2
CHECK_DEADLOCK FALSE
SPECIFICATION FairSpec
INVARIANTS
    SeededOnce
    OnlyStopsLeaveHalves
    DecisionsLastUntilReseed
PROPERTIES
    RunsComeUp
