---------------------------- MODULE LongestChain ----------------------------
(***************************************************************************)
(* What a chain store promises, without its indexes: a tree of blocks      *)
(* rooted at genesis that only ever gains a child of a block it has, and   *)
(* that is now and then cut back to one longest branch, root included.     *)
(***************************************************************************)
EXTENDS Naturals

CONSTANTS
    Hash, NoHash, GenesisHash,
    previous_hash,  \* the parent of a block
    Lineage,        \* a block with everything below it
    Height          \* how many blocks that is

VARIABLE tree       \* the blocks of the tree

IsHighest(tip) == tip \in tree /\ \A h \in tree : Height[h] <= Height[tip]

Init == tree = {}

Root ==
    /\ tree = {}
    /\ tree' = {GenesisHash}

Extend(h) ==
    /\ h \notin tree
    /\ previous_hash[h] \in tree
    /\ tree' = tree \cup {h}

Prune(tip) ==
    /\ IsHighest(tip)
    /\ tree' = Lineage[tip]

Next ==
    \/ Root
    \/ \E h \in Hash : Extend(h)
    \/ \E tip \in Hash : Prune(tip)

Spec == Init /\ [][Next]_tree

=============================================================================
