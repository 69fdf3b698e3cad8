CONSTANTS
    NoHash = NoHash
    NoBlock = NoBlock
    Hash <- MCHash
    GenesisHash <- MCGenesisHash
    previous_hash <- MCPrevious
    Lineage <- MCLineage
    Height <- MCHeight
    MaxTries = 2
    MaxReceived = 2
SPECIFICATION Spec
INVARIANT
    CountsRequests
