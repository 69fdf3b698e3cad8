----------------------------- MODULE Blockchain -----------------------------
(***************************************************************************)
(* The Blockchain struct of mini_chain/chain.rs as a value, and each of    *)
(* its methods as an operator on that value.  The state machines that own  *)
(* a chain (ChainStore here) apply these operators under its lock.         *)
(*                                                                         *)
(* A block is known by its hash: SHA-256 covers the timestamp, the         *)
(* previous hash, the nonce and the transactions, so a hash determines the *)
(* rest of the block, and the fields of Block are functions of the hash.   *)
(* A chain is a record                                                     *)
(*    blocks : the stored hashes, each with the set of its child hashes    *)
(*    leaves : the hashes the code holds to be childless                   *)
(*    slots  : the stored hashes by slot number                            *)
(***************************************************************************)
EXTENDS Metadata, FiniteSets

CONSTANTS
    Hash,           \* the hashes of every block there can be
    NoHash,         \* the empty string: the genesis block's previous hash
    GenesisHash,    \* the hash of Block::genesis
    Txn,            \* transactions
    previous_hash,  \* Block::previous_hash, a function of the hash
    slot_number,    \* Block::slot_number
    transactions,   \* Block::transactions
    Lineage         \* a hash with every hash below it, down to genesis

(* Only the genesis block has an empty previous hash; it is in slot 0 and  *)
(* carries no transaction.                                                 *)
ASSUME BlockAssumption ==
    /\ GenesisHash \in Hash
    /\ NoHash \notin Hash
    /\ previous_hash \in [Hash -> Hash \cup {NoHash}]
    /\ \A h \in Hash : previous_hash[h] = NoHash <=> h = GenesisHash
    /\ slot_number \in [Hash -> Nat]
    /\ transactions \in [Hash -> SUBSET Txn]
    /\ slot_number[GenesisHash] = 0
    /\ transactions[GenesisHash] = {}

(* Previous hashes form no cycle (a block's hash covers its parent's), so  *)
(* following them from a block visits finitely many blocks and ends at     *)
(* genesis.                                                                *)
ASSUME LineageAssumption ==
    /\ Lineage \in [Hash -> SUBSET Hash]
    /\ Lineage[GenesisHash] = {GenesisHash}
    /\ \A h \in Hash \ {GenesisHash} :
          /\ Lineage[h] = Lineage[previous_hash[h]] \cup {h}
          /\ h \notin Lineage[previous_hash[h]]
    /\ \A h \in Hash :
          /\ IsFiniteSet(Lineage[h])
          /\ \A a \in Lineage[h] : Lineage[a] \subseteq Lineage[h]

-----------------------------------------------------------------------------

(* The values a chain can take.                                            *)
IsChain(c) ==
    /\ c = [blocks |-> c.blocks, leaves |-> c.leaves, slots |-> c.slots]
    /\ DOMAIN c.blocks \subseteq Hash
    /\ c.blocks \in [DOMAIN c.blocks -> SUBSET Hash]
    /\ c.leaves \subseteq Hash
    /\ DOMAIN c.slots \subseteq Nat
    /\ c.slots \in [DOMAIN c.slots -> SUBSET Hash]

Stored(c) == DOMAIN c.blocks

EmptyMap == [k \in {} |-> {}]

EmptyChain == [blocks |-> EmptyMap, leaves |-> {}, slots |-> EmptyMap]

has_block(c, h) == h \in Stored(c)

-----------------------------------------------------------------------------
(* add_block *)

(* Mutant: every block is taken.                                           *)
BugNoOrphan(c, h) == FALSE

(* An orphan is refused, silently; the first block is always taken.        *)
IsOrphan(c, h) == previous_hash[h] \notin Stored(c) /\ Stored(c) # {}

(* Mutant: the parent does not learn of its child.                         *)
BugNoChildLink(blocks, h) ==
    [x \in DOMAIN blocks \cup {h} |-> IF x = h THEN {} ELSE blocks[x]]

(* HashMap::insert replaces an entry that is already there: a block stored *)
(* before starts again without children.                                   *)
InsertBlock(blocks, h) ==
    [x \in DOMAIN blocks \cup {h} |->
        IF x = h THEN {}
        ELSE IF x = previous_hash[h] THEN blocks[x] \cup {h}
        ELSE blocks[x]]

InsertSlot(slots, h) ==
    [s \in DOMAIN slots \cup {slot_number[h]} |->
        (IF s \in DOMAIN slots THEN slots[s] ELSE {})
            \cup (IF s = slot_number[h] THEN {h} ELSE {})]

(* Mutants: only a block that extends a leaf becomes one; the parent is    *)
(* inserted where it should be removed.                                    *)
BugForkIsNoLeaf(leaves, h) ==
    IF leaves = {} \/ previous_hash[h] \in leaves
    THEN (leaves \ {previous_hash[h]}) \cup {h}
    ELSE leaves
BugParentIsLeaf(leaves, h) == (leaves \ {h}) \cup {previous_hash[h]}

(* The parent is a leaf no more, the block becomes one, stored before or   *)
(* not.                                                                    *)
InsertLeaf(leaves, h) == (leaves \ {previous_hash[h]}) \cup {h}

add_block(c, h) ==
    IF IsOrphan(c, h)
    THEN c
    ELSE [blocks |-> InsertBlock(c.blocks, h),
          leaves |-> InsertLeaf(c.leaves, h),
          slots  |-> InsertSlot(c.slots, h)]

(* Blockchain::genesis clears everything first.                            *)
genesis == add_block(EmptyChain, GenesisHash)

-----------------------------------------------------------------------------
(* get_main_chain, get_chain_tip, resolve_chain *)

(* The blocks visited from a leaf until a previous hash is not stored.     *)
Walk(c, leaf) ==
    {a \in Lineage[leaf] :
        \A b \in Lineage[leaf] : a \in Lineage[b] => has_block(c, b)}

(* Mutant: the walks are not compared.                                     *)
BugAnyTip(c) == {tip \in c.leaves : Walk(c, tip) # {}}

(* The longest walk wins; leaves come in the order of a HashSet, so of     *)
(* several longest walks any may be the first.  get_main_chain returns     *)
(* Walk(c, tip) for one of these tips, and an empty chain when there is    *)
(* none.                                                                   *)
get_chain_tip(c) ==
    {tip \in c.leaves :
        /\ Walk(c, tip) # {}
        /\ \A leaf \in c.leaves :
              Cardinality(Walk(c, leaf)) <= Cardinality(Walk(c, tip))}

(* Mutant: the tip does not become a leaf again.                           *)
BugNoLeafLeft(path, tip) ==
    [blocks |-> [x \in path |-> {y \in path : previous_hash[y] = x}],
     leaves |-> {},
     slots  |-> [s \in {slot_number[x] : x \in path} |->
                    {x \in path : slot_number[x] = s}]]

(* What adding the blocks of a path back, oldest first, to a cleared chain *)
(* leaves behind.                                                          *)
PathChain(path, tip) ==
    [blocks |-> [x \in path |-> {y \in path : previous_hash[y] = x}],
     leaves |-> {tip},
     slots  |-> [s \in {slot_number[x] : x \in path} |->
                    {x \in path : slot_number[x] = s}]]

(* Mutants: the blocks that stay keep their children; slots are not        *)
(* cleared; the tip is not added back.                                     *)
BugKeepChildren(c, tip) ==
    [PathChain(Walk(c, tip), tip) EXCEPT
        !.blocks = [x \in Walk(c, tip) |-> c.blocks[x]]]
BugKeepSlots(c, tip) ==
    [PathChain(Walk(c, tip), tip) EXCEPT !.slots = c.slots]

BugDropTip(c, tip) == PathChain(Walk(c, tip) \ {tip}, previous_hash[tip])

resolve_chain(c, tip) == PathChain(Walk(c, tip), tip)

(* The code gets there block by block: everything is cleared, the oldest   *)
(* hash is inserted as a leaf, and the blocks of the walk are added back,  *)
(* oldest first.                                                           *)
oldest_first(path) ==
    [i \in 1 .. Cardinality(path) |->
        CHOOSE x \in path : Cardinality(path \cap Lineage[x]) = i]

Cleared(path) == [EmptyChain EXCEPT !.leaves = {oldest_first(path)[1]}]

Replayed(path) ==
    LET replayed[i \in 0 .. Cardinality(path)] ==
            IF i = 0 THEN Cleared(path)
            ELSE add_block(replayed[i - 1], oldest_first(path)[i])
    IN  replayed

Replay(path) == Replayed(path)[Cardinality(path)]

-----------------------------------------------------------------------------
(* get_transaction, has_transaction *)

(* Slots are scanned from the newest down to the first whose number is     *)
(* below the lower bound.                                                  *)
has_transaction(c, txn, now) ==
    \E s \in DOMAIN c.slots :
        /\ s >= get_query_slot_lower_bound(now)
        /\ \E h \in c.slots[s] : has_block(c, h) /\ txn \in transactions[h]

=============================================================================
