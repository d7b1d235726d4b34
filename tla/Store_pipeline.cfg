CONSTANTS
    NoDefinerThread = 2
    NoExecutorThreads = 2
    Executors <- MCExecutors
    PipeCapacity = 1
    ReadLimit = 1
    Traffic <- MCTraffic
SPECIFICATION StoreSpec
INVARIANTS
    RepliesReachTheRequester
    DeliveredOnce
