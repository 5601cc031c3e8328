\* Three handlers or changes by colleagues, two loads at a time, one late request.
CONSTANTS
    t1 = t1
    t2 = t2
    t3 = t3
    old = old
    new = new
    Nothing = Nothing
    Over = Over
    Tasks <- MCThree
    Ops <- MCPlain
    Contents <- MCContents
    Incomplete <- MCIncomplete
    MaxVersions = 2
    MaxLoads = 2
    MaxLate = 1
CHECK_DEADLOCK FALSE
SYMMETRY MCSymmetry
SPECIFICATION Spec
INVARIANTS
    NobodyForgotten
    StaleScreenHasExcuse
    LastSaveWins
    TypingSurvivesAnswers
    PreviewIsExact
