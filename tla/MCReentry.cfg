CONSTANTS
    t1 = t1
    t2 = t2
    NoTxn = NoTxn
    Txn <- MCTxn
    block_size = 2
    maximum_proposer_time = 1
    mempool_reentrancy_secs = 2
    MaxSubmits = 1
SPECIFICATION AgeSpec
PROPERTIES
    InFlightForReentrancySecs
