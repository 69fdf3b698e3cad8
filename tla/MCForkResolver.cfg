CONSTANTS
    miner = miner
    verifier = verifier
    Task <- MCTask
    Resolver = Resolver
    Free = Free
    slot_secs = 1
    chain_slot_secs = 1
    query_slots = 1
    fork_resolution_slots = 2
    StartTime = 1
    MaxTime = 9
    MaxStepsBack = 2
SPECIFICATION FairSpec
INVARIANTS
    TypeOK
    LockedWhenDue
PROPERTIES
    EveryTaskServed
