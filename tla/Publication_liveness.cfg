\* Every request ends, and no clean-up deletes the installed QR file, if answers to COMMIT arrive.
CONSTANTS
    r1 = r1
    r2 = r2
    r3 = r3
    r4 = r4
    NoOne = NoOne
    Requests <- MCThree
    Kinds <- MCLocking
    CommitAckLoss = FALSE
SPECIFICATION FairSpec
INVARIANT
    InstalledQrExists
PROPERTY
    EveryRequestEnds
