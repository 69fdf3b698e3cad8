------------------------------ MODULE Metadata ------------------------------
(***************************************************************************)
(* The slot arithmetic of BlockchainMetadata (mini_chain/metadata.rs).     *)
(* Time is a natural number of seconds since the epoch.                    *)
(*                                                                         *)
(* A node has two metadata: its own, which dates blocks and times the      *)
(* tasks, and that of its Blockchain, which is never set to anything but   *)
(* the default and is asked for the query window only.                     *)
(***************************************************************************)
EXTENDS Integers

CONSTANTS
    slot_secs,       \* seconds in a slot, as the node has it
    chain_slot_secs, \* seconds in a slot, as its Blockchain has it
    query_slots      \* how many slots back a chain query looks, in both

ASSUME MetadataAssumption ==
    /\ slot_secs \in Nat \ {0}
    /\ chain_slot_secs \in Nat \ {0}
    /\ query_slots \in Nat

(* The slot a timestamp falls in: Block::new and compute_slot_number.      *)
compute_slot_number(secs) == secs \div slot_secs

(* The beginning of a slot in seconds, as the chain has it.                *)
get_slot_start_time(secs) == (secs \div chain_slot_secs) * chain_slot_secs

(* Mutant: the window is one slot short.                                   *)
BugWindowOneShort(now) ==
    get_slot_start_time(now) - (query_slots - 1) * chain_slot_secs

(* The oldest instant a query looks at, in SECONDS.  The code subtracts on *)
(* u64; the clocks of the models are all late enough not to wrap.          *)
get_query_slot_lower_bound(now) ==
    get_slot_start_time(now) - query_slots * chain_slot_secs

=============================================================================
