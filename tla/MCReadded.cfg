CONSTANTS
    t1 = t1
    t2 = t2
    NoHash = NoHash
    slot_secs = 2
    chain_slot_secs = 8
    query_slots = 4
    StartTime = 80
    MaxTime = 84
    GenesisHash <- MCGenesisHash
    Hash <- MCHash
    Txn <- MCTxn
    previous_hash <- MCPrevious
    slot_number <- MCSlot
    transactions <- MCTransactions
    Lineage <- MCLineage
SPECIFICATION Spec
INVARIANTS
    ParentKnowsChild
