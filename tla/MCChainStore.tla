---------------------------- MODULE MCChainStore ----------------------------
(***************************************************************************)
(* A small universe of blocks for ChainStore.  A hash is the path of       *)
(* choices from genesis to the block: <<1, 2>> is the second block mined   *)
(* on the first one.  A path that ends in 0 is a genesis-shaped block, the *)
(* one a miner that received no proposal mines: slot 0, no transaction.    *)
(***************************************************************************)
EXTENDS Analysis

CONSTANTS t1, t2    \* two transactions

MCHash ==
    {<<>>, <<1>>, <<2>>, <<1, 1>>, <<1, 2>>, <<2, 0>>, <<2, 1>>,
     <<1, 1, 1>>, <<2, 0, 1>>, <<1, 2, 1>>}

MCGenesisHash == <<>>

MCTxn == {t1, t2}

MCPrevious == [h \in MCHash |-> IF h = <<>> THEN NoHash ELSE Front(h)]

MCSlot == [h \in MCHash |-> IF h = <<>> \/ Last(h) = 0 THEN 0
                        ELSE compute_slot_number(StartTime) + Len(h) - 1]

MCTransactions ==
    [h \in MCHash |-> IF h = <<>> \/ Last(h) = 0 THEN {}
                      ELSE IF Last(h) = 1 THEN {t1} ELSE {t2}]

MCLineage == [h \in MCHash |-> Prefixes(h)]

=============================================================================
