------------------------------- MODULE Block --------------------------------
(***************************************************************************)
(* The Block struct of mini_chain/block.rs while it is made: a proposal    *)
(* has no place in a chain yet, a candidate has one but not its hash, and  *)
(* only a mined block is the block its hash stands for.  In Blockchain,    *)
(* where blocks are stored, the hash alone is enough; here a block is a    *)
(* record, whose hash may be out of step with the other fields.  The nonce *)
(* is left out: of the hashes a block can have, one for each nonce, it     *)
(* says which.                                                             *)
(***************************************************************************)
EXTENDS Blockchain

CONSTANTS
    timestamp,      \* Block::timestamp, a function of the hash
    Solved          \* the hashes that start with enough zeros

(* Whoever makes a block computes its slot from its timestamp.  mine_block *)
(* counts the nonce up from 0 and stops at the first hash that meets the   *)
(* difficulty, so each block content has one.                              *)
ASSUME MiningAssumption ==
    /\ timestamp \in [Hash -> Nat]
    /\ Solved \subseteq Hash
    /\ \A h \in Hash : slot_number[h] = compute_slot_number(timestamp[h])
    /\ \A g, h \in Solved :
          /\ previous_hash[g] = previous_hash[h]
          /\ timestamp[g] = timestamp[h]
          /\ transactions[g] = transactions[h]
          => g = h

BlockType ==
    [timestamp : Nat, slot_number : Nat, transactions : SUBSET Txn,
     previous_hash : Hash \cup {NoHash}, hash : Hash \cup {NoHash}]

(* Mutant: the block is dated to the start of the next slot.               *)
BugNextSlot(txns, secs) ==
    [timestamp |-> (compute_slot_number(secs) + 1) * slot_secs,
     slot_number |-> compute_slot_number(secs) + 1,
     transactions |-> txns, previous_hash |-> NoHash, hash |-> NoHash]

(* A proposal: no parent, and a hash that nobody looks at.                 *)
new(txns, secs) ==
    [timestamp |-> secs, slot_number |-> compute_slot_number(secs),
     transactions |-> txns, previous_hash |-> NoHash, hash |-> NoHash]

(* Block::genesis *)
GenesisBlock == [new({}, 0) EXCEPT !.hash = GenesisHash]

(* calculate_hash, with any nonce.                                         *)
calculate_hash(b) ==
    {h \in Hash :
        /\ previous_hash[h] = b.previous_hash
        /\ timestamp[h] = b.timestamp
        /\ transactions[h] = b.transactions}

check_hash(b) == b.hash \in calculate_hash(b)

(* drop_transaction of each of them.                                       *)
drop_transactions(b, txns) == [b EXCEPT !.transactions = @ \ txns]

(* Mutant: the hash is computed but not worked for.                        *)
BugNoWork(b) == {[b EXCEPT !.hash = h] : h \in calculate_hash(b)}

(* The mined block; none if its hash is outside the universe.              *)
mine_block(b) == {[b EXCEPT !.hash = h] : h \in calculate_hash(b) \cap Solved}

verify_proof_of_work(b) == b.hash \in Solved

verify_self(b) ==
    /\ check_hash(b)
    /\ compute_slot_number(b.timestamp) = b.slot_number
    /\ verify_proof_of_work(b)

=============================================================================
