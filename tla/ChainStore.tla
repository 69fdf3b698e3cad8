----------------------------- MODULE ChainStore -----------------------------
(***************************************************************************)
(* The chain of one node over time: Arc<RwLock<Blockchain>> in             *)
(* mini_chain/node.rs.  Every task takes the write lock for a whole method *)
(* of Blockchain, so each method is one step.  The tasks are               *)
(*    Initializer::initialize     genesis, before any other task starts    *)
(*    mine_next_block             add_block of blocks mined on leaves read *)
(*                                earlier, when the chain was another      *)
(*    synchronize_chain           add_block of received blocks and of      *)
(*                                their ancestors, stored or not, orphan   *)
(*                                or not                                   *)
(*    run_blockchain              resolve_chain                            *)
(* Between them a block may be added at any time from its slot on, and any *)
(* number of times.                                                        *)
(***************************************************************************)
EXTENDS Blockchain

CONSTANTS
    StartTime,      \* the time the node is started
    MaxTime         \* bound: the clock stops here

(* The node starts late enough for the query window not to reach back      *)
(* before the epoch.                                                       *)
ASSUME ClockAssumption ==
    /\ StartTime \in Nat
    /\ MaxTime \in Nat
    /\ get_query_slot_lower_bound(StartTime) >= 0

VARIABLES
    chain,          \* the Blockchain behind the lock
    now             \* the wall clock, in seconds

vars == <<chain, now>>

-----------------------------------------------------------------------------

(* ChannelFullNode::default holds an empty chain until initialize runs.    *)
Init ==
    /\ chain = EmptyChain
    /\ now = StartTime

Genesis ==
    /\ Stored(chain) = {}
    /\ chain' = genesis
    /\ UNCHANGED now

(* A block exists once its timestamp has passed.                           *)
AddBlock(h) ==
    /\ Stored(chain) # {}
    /\ slot_number[h] <= compute_slot_number(now)
    /\ chain' = add_block(chain, h)
    /\ UNCHANGED now

(* Without a tip get_main_chain is empty and resolve_chain returns early.  *)
Resolve ==
    \E tip \in get_chain_tip(chain) :
        /\ chain' = resolve_chain(chain, tip)
        /\ UNCHANGED now

Tick ==
    /\ now < MaxTime
    /\ now' = now + 1
    /\ UNCHANGED chain

Next ==
    \/ Genesis
    \/ \E h \in Hash : AddBlock(h)
    \/ Resolve
    \/ Tick

Spec == Init /\ [][Next]_vars

-----------------------------------------------------------------------------

(* Type invariant of the chain and of the clock.                           *)
TypeOK ==
    /\ IsChain(chain)
    /\ now \in Nat

(* Every stored block is stored with all its ancestors down to genesis:    *)
(* add_block takes no orphan and resolve_chain cuts only whole branches.   *)
(* This is what lets the walk of get_main_chain reach genesis.             *)
LineageStored ==
    \A h \in Stored(chain) : Lineage[h] \subseteq Stored(chain)

(* Every stored block has a leaf on top of it, whatever was added, and     *)
(* however often: get_main_chain, which starts from leaves only, misses no *)
(* branch.                                                                 *)
LeavesCoverTree ==
    /\ chain.leaves \subseteq Stored(chain)
    /\ \A h \in Stored(chain) : \E leaf \in chain.leaves : h \in Lineage[leaf]

(* A recorded child is stored and names the block as its parent: get_trunk *)
(* and pretty_print_branch follow child hashes and unwrap what they find.  *)
ChildLinksSound ==
    \A h \in Stored(chain) : \A child \in chain.blocks[h] :
        child \in Stored(chain) /\ previous_hash[child] = h

(* The slot index lists every stored block under its own slot and nothing  *)
(* that resolve_chain has removed.                                         *)
SlotIndexExact ==
    /\ \A h \in Stored(chain) : slot_number[h] \in DOMAIN chain.slots
    /\ \A s \in DOMAIN chain.slots : \A h \in Hash :
          h \in chain.slots[s] <=> h \in Stored(chain) /\ slot_number[h] = s

(* What get_main_chain returns is a whole branch down to genesis, and no   *)
(* stored block, leaf or not, is higher than its tip.                      *)
MainChainIsLongest ==
    \A tip \in get_chain_tip(chain) :
        /\ Walk(chain, tip) = Lineage[tip]
        /\ \A h \in Stored(chain) :
              Cardinality(Lineage[h]) <= Cardinality(Lineage[tip])

(* From initialize on there is always a chain tip, so mine_next_block      *)
(* never falls back on a fresh genesis block and resolve_chain always has  *)
(* a branch to keep.                                                       *)
TipExists == Stored(chain) # {} => get_chain_tip(chain) # {}

(* Re-adding the blocks of the main chain one by one rebuilds exactly that *)
(* chain: no re-added block is refused as an orphan, none is left in the   *)
(* leaves, and every index is complete again.                              *)
ResolveIsReplay ==
    \A tip \in get_chain_tip(chain) :
        resolve_chain(chain, tip) = Replay(Walk(chain, tip))

(* No operation shortens the main chain, and a fork resolution never moves *)
(* to a shorter branch.                                                    *)
MainChainNeverShrinks ==
    [][\A tip \in get_chain_tip(chain), tip2 \in get_chain_tip(chain') :
          Cardinality(Walk(chain, tip)) <= Cardinality(Walk(chain', tip2))]_vars

(* The store implements the abstract tree: its indexes are invisible.      *)
Abstract == INSTANCE LongestChain WITH
    tree <- Stored(chain),
    Height <- [h \in Hash |-> Cardinality(Lineage[h])]

ImplementsLongestChain == Abstract!Spec

(* has_transaction answers for the last query_slots slots, as              *)
(* chain.rs:32 and metadata.rs:11 say.                                     *)
QueryWindowInSlots ==
    \A txn \in Txn :
        has_transaction(chain, txn, now) <=>
            \E h \in Stored(chain) :
                /\ txn \in transactions[h]
                /\ slot_number[h] + query_slots >= compute_slot_number(now)

(* A stored block is among the recorded children of its parent, and its    *)
(* parent is not a leaf, as the comments of add_block say (chain.rs:130,   *)
(* 136 and 141).                                                           *)
ParentKnowsChild ==
    \A h \in Stored(chain) \ {GenesisHash} :
        /\ h \in chain.blocks[previous_hash[h]]
        /\ previous_hash[h] \notin chain.leaves

=============================================================================
