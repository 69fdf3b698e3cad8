CONSTANTS
    miner = miner
    verifier = verifier
    Task <- MCTask
    Resolver = Resolver
    Free = Free
    slot_secs = 1
    chain_slot_secs = 1
    query_slots = 1
    fork_resolution_slots = 2
    StartTime = 1
    MaxTime = 7
    MaxStepsBack = 1
SPECIFICATION FairSpec
PROPERTIES
    LittleNapsEnd
