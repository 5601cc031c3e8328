\* One replica, Redis works: an old timer takes the wake-up of a later wait.
CONSTANTS
    j1 = j1
    j2 = j2
    j3 = j3
    s1 = s1
    a = a
    b = b
    NoScan = NoScan
    Scans <- MCNoScans
    Jobs <- MCThreeJobs
    Replicas <- MCOne
    Concurrency = 1
    MaxQueue = 1
    Faults = FALSE
CHECK_DEADLOCK FALSE
SPECIFICATION FairSpec
PROPERTY
    RedisDrains
