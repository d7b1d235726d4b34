CONSTANTS
    NoDefinerThread = 1
    NoExecutorThreads = 1
    Executors <- OneExecutor
    PipeCapacity = 1
    ReadLimit = 1
    Traffic <- DatabaseTraffic
SPECIFICATION StoreSpec
PROPERTY EveryTransactionAnswered
