SPECIFICATION Spec
CONSTANTS
    b1 = b1
    b2 = b2
    w1 = w1
    w2 = w2
    p1 = p1
    p2 = p2
    p3 = p3
    p4 = p4
    Batches <- Pair
    Jobs <- PairJobs
    Workers <- TwoWorkers
    BatchOf <- OneWorkerEach
    Paths <- TwoPaths
    PathOf <- SharedOutputs
    Overwrite <- OneOverwrites
    BadJobs <- OneBad
    Faults <- SharedFaults
    MaxCrashes = 1
CHECK_DEADLOCK FALSE
INVARIANT ArtifactsOnDisk
PROPERTY KeepsPromise
