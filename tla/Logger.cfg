SPECIFICATION Spec
CONSTANTS
    own = own
    other = other
    w1 = w1
    w2 = w2
    w3 = w3
    b1 = b1
    b2 = b2
    None = None
    Loggers <- MCLoggers
    WriterOf <- MCWriterOf
    Workers <- MCWorkers
    Batches <- MCBatches
    BatchOf <- MCBatchOf
    Own <- MCOwn
    MaxSets = 2
INVARIANTS TypeOK OneReport LinesWhole
PROPERTY ReportsEnd
CHECK_DEADLOCK FALSE
