----------------------------- MODULE MCCluster ------------------------------
(***************************************************************************)
(* A small universe for Cluster.  A hash is the path of block contents     *)
(* from genesis to the block: a timestamp, transactions, and whether the   *)
(* nonce is the one that solves the block.                                 *)
(***************************************************************************)
EXTENDS Cluster, SequencesExt

CONSTANTS t1, a, b, MaxHeight

MCTxn == {t1}

Content ==
    [timestamp : {0}, transactions : {{}}, solved : {TRUE}]
        \cup [timestamp : StartTime..MaxTime, transactions : SUBSET MCTxn, solved : {TRUE}]

Unsolved == [timestamp : {0}, transactions : {{}}, solved : {FALSE}]

MCHash ==
    UNION {[1..k -> Content] : k \in 0..MaxHeight} \cup {<<c>> : c \in Unsolved}

MCGenesisHash == <<>>
MCPrevious == [h \in MCHash |-> IF h = <<>> THEN NoHash ELSE Front(h)]
MCTimestamp == [h \in MCHash |-> IF h = <<>> THEN 0 ELSE Last(h).timestamp]
MCSlot == [h \in MCHash |-> compute_slot_number(MCTimestamp[h])]
MCTransactions == [h \in MCHash |-> IF h = <<>> THEN {} ELSE Last(h).transactions]
MCLineage == [h \in MCHash |-> Prefixes(h)]
MCSolved == {h \in MCHash : h # <<>> /\ Last(h).solved}

MCNode == {a, b}
MCOffers == (a :> {{t1}}) @@ (b :> {})
MCRounds == (a :> 2) @@ (b :> 1)
MCResolutions == (a :> 1) @@ (b :> 0)

=============================================================================
