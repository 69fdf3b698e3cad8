CONSTANTS
    t1 = t1
    a = a
    b = b
    Node <- MCNode
    Offers <- MCOffers
    NoHash = NoHash
    slot_secs = 2
    chain_slot_secs = 8
    query_slots = 4
    StartTime = 81
    MaxTime = 82
    MaxProposals = 2
    MaxRounds <- MCRounds
    MaxResolutions <- MCResolutions
    MaxHeight = 2
    GenesisHash <- MCGenesisHash
    Hash <- MCHash
    Txn <- MCTxn
    previous_hash <- MCPrevious
    timestamp <- MCTimestamp
    slot_number <- MCSlot
    transactions <- MCTransactions
    Lineage <- MCLineage
    Solved <- MCSolved
SPECIFICATION Spec
CHECK_DEADLOCK FALSE
INVARIANTS
    TypeOK
    StoredWouldPass
    LineageAnnounced
    MinedIsStored
    MinerNotOutrun
PROPERTIES
    NodesRunChainStore
