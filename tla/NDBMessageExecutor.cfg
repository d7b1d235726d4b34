CONSTANTS
    threadNo = 0
    Batches <- MCBatches
    BatchLimit = 2
    MaxTransactions = 2
SPECIFICATION FairSpec
INVARIANTS
    TypeOK
    CallbackStateValid
    TransactionPoolBound
    AtMostOneReply
    OvertakesLessThanABatch
    AllOrNothing
    SuccessIsDurable
PROPERTIES
    ImplementsService
    ExecuteReturns
