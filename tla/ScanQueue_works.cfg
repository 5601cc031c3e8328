\* Two replicas share the list; Redis calls fail, replicas stop.
CONSTANTS
    j1 = j1
    j2 = j2
    j3 = j3
    s1 = s1
    a = a
    b = b
    NoScan = NoScan
    Scans <- MCOneScan
    Jobs <- MCTwoJobs
    Replicas <- MCTwo
    Concurrency = 1
    MaxQueue = 1
    Faults = TRUE
CHECK_DEADLOCK FALSE
SPECIFICATION FairSpec
INVARIANTS
    WithinLimits
    CountedOnce
PROPERTIES
    DrainsUnlessStalled
    ImplementsLog
