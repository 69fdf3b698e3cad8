--------------------------- MODULE MCSynchronizer ---------------------------
(***************************************************************************)
(* A small universe of blocks: as in MCChainStore a hash is the path of    *)
(* choices from genesis.                                                   *)
(***************************************************************************)
EXTENDS Synchronizer

MCHash == {<<>>, <<1>>, <<2>>, <<1, 1>>, <<2, 1>>, <<1, 1, 1>>}

MCGenesisHash == <<>>

MCPrevious == [h \in MCHash |-> IF h = <<>> THEN NoHash ELSE Front(h)]

MCLineage == [h \in MCHash |-> Prefixes(h)]

MCHeight == [h \in MCHash |-> Len(h) + 1]

=============================================================================
