SPECIFICATION Spec
CONSTANTS
    b1 = b1
    b2 = b2
    w1 = w1
    w2 = w2
    p1 = p1
    p2 = p2
    p3 = p3
    p4 = p4
    Batches <- OneBatch
    Jobs <- FourJobs
    Workers <- TwoWorkers
    BatchOf <- OnePool
    Paths <- FourPaths
    PathOf <- FourOutputs
    Overwrite <- Keeps
    BadJobs <- NoneBad
    Faults <- FileFaults
    MaxCrashes = 1
CHECK_DEADLOCK FALSE
INVARIANT TypeOK
INVARIANT NothingTorn
INVARIANT ArtifactsInOrder
INVARIANT FailedJobWroteNothing
INVARIANT NoTempLeft
INVARIANT ResultsHaveRoom
PROPERTY NoSilentReplace
PROPERTY Termination
PROPERTY ImplementsBatch
