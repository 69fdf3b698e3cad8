CONSTANTS
    t1 = t1
    t2 = t2
    NoHash = NoHash
    slot_secs = 1
    chain_slot_secs = 1
    query_slots = 1
    StartTime = 4
    MaxTime = 6
    GenesisHash <- MCGenesisHash
    Hash <- MCHash
    Txn <- MCTxn
    previous_hash <- MCPrevious
    slot_number <- MCSlot
    transactions <- MCTransactions
    Lineage <- MCLineage
SPECIFICATION Spec
INVARIANTS
    TypeOK
    LineageStored
    LeavesCoverTree
    ChildLinksSound
    SlotIndexExact
    MainChainIsLongest
    TipExists
    ResolveIsReplay
    QueryWindowInSlots
    ScoreMeasuresForks
PROPERTIES
    MainChainNeverShrinks
    TrunkAfterResolve
    ImplementsLongestChain
