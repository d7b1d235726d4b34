CONSTANTS
    threadNo = 0
    Batches <- CreateAndFill
    BatchLimit = 1
    MaxTransactions = 1
SPECIFICATION Spec
INVARIANT SingleTransaction
