-------------------------- MODULE ChainStoreProofs --------------------------
(***************************************************************************)
(* Proofs about ChainStore, for every universe of blocks.                  *)
(***************************************************************************)
EXTENDS ChainStore, BlockchainProofs

(* The inductive invariant: the chain is a whole tree.                     *)
IInv == WholeTree(chain) /\ now \in Nat

-----------------------------------------------------------------------------
(* The invariant holds at the start and each action keeps it.              *)

(* The empty chain satisfies the invariant.                                *)
LEMMA InitIInv == Init => IInv
BY EmptyIsWhole, ClockAssumption DEF Init, IInv

(* So does the chain that holds the genesis block alone.                   *)
LEMMA GenesisIInv == IInv /\ Genesis => IInv'
BY GenesisIsWhole DEF IInv, Genesis

(* A block is added, or refused as an orphan.                              *)
LEMMA AddBlockIInv ==
    ASSUME IInv, NEW h \in Hash, AddBlock(h)
    PROVE  IInv'
BY AddBlockIsWhole DEF IInv, AddBlock

(* The tree is cut back to the lineage of a tip.                           *)
LEMMA ResolveIInv == IInv /\ Resolve => IInv'
BY ResolveIsWhole DEF IInv, Resolve

(* Every step of the store, and every stutter, keeps the invariant.        *)
LEMMA NextIInv == IInv /\ [Next]_vars => IInv'
<1> SUFFICES ASSUME IInv, [Next]_vars PROVE IInv'  OBVIOUS
<1>1. CASE Genesis  BY <1>1, GenesisIInv
<1>2. ASSUME NEW h \in Hash, AddBlock(h) PROVE IInv'
  BY <1>2, AddBlockIInv
<1>3. CASE Resolve  BY <1>3, ResolveIInv
<1>4. CASE Tick            BY <1>4 DEF Tick, IInv
<1>5. CASE UNCHANGED vars  BY <1>5 DEF vars, IInv
<1> QED  BY <1>1, <1>2, <1>3, <1>4, <1>5 DEF Next

-----------------------------------------------------------------------------
(* The theorems. *)

(* The inductive invariant holds in every reachable state.                 *)
THEOREM Invariance == Spec => []IInv
<1>1. Init => IInv                    BY InitIInv
<1>2. IInv /\ [Next]_vars => IInv'    BY NextIInv
<1> QED  BY <1>1, <1>2, PTL DEF Spec

(* The chain and the clock always have their types.                        *)
THEOREM TypeCorrect == Spec => []TypeOK
<1>1. IInv => TypeOK  BY DEF IInv, WholeTree, TypeOK
<1> QED  BY <1>1, Invariance, PTL

(* No orphan ever enters the store: chain.rs:124-128.                      *)
THEOREM NoOrphanStored == Spec => []LineageStored
<1>1. IInv => LineageStored  BY DEF IInv, WholeTree, LineageStored, AncestorsStored
<1> QED  BY <1>1, Invariance, PTL

(* The leaves cover the tree, whatever add_block and resolve_chain did.    *)
THEOREM LeavesCover == Spec => []LeavesCoverTree
<1>1. IInv => LeavesCoverTree  BY DEF IInv, WholeTree, LeavesCoverTree, LeavesOnTop
<1> QED  BY <1>1, Invariance, PTL

(* A child link never dangles: the unwraps of get_trunk are safe.          *)
THEOREM NoDanglingChild == Spec => []ChildLinksSound
<1>1. IInv => ChildLinksSound  BY DEF IInv, WholeTree, ChildLinksSound, LinksSound
<1> QED  BY <1>1, Invariance, PTL

(* The slot index and the store always agree.                              *)
THEOREM SlotIndexAgrees == Spec => []SlotIndexExact
<1>1. IInv => SlotIndexExact  BY DEF IInv, WholeTree, SlotIndexExact, SlotsExact
<1> QED  BY <1>1, Invariance, PTL

(* get_main_chain returns a whole branch, and no stored block is higher.   *)
THEOREM LongestReturned == Spec => []MainChainIsLongest
<1>1. IInv => MainChainIsLongest
  BY TipIsHighest DEF IInv, MainChainIsLongest, Height
<1> QED  BY <1>1, Invariance, PTL

(* Re-adding the blocks of the main chain rebuilds exactly that chain.     *)
THEOREM ReplayRebuilds == Spec => []ResolveIsReplay
<1>1. IInv => ResolveIsReplay
  BY TipIsHighest, ReplayIsPathChain DEF IInv, ResolveIsReplay, resolve_chain
<1> QED  BY <1>1, Invariance, PTL

(* A miner and a fork resolution always find a tip.                        *)
THEOREM TipAlwaysExists == Spec => []TipExists
<1>1. IInv => TipExists  BY HighestHasTip DEF IInv, TipExists
<1> QED  BY <1>1, Invariance, PTL

(* The main chain never shrinks.                                           *)
THEOREM NeverShrinks == Spec => MainChainNeverShrinks
<1> DEFINE NotShorter ==
        \A tip \in get_chain_tip(chain), tip2 \in get_chain_tip(chain') :
            Cardinality(Walk(chain, tip)) <= Cardinality(Walk(chain', tip2))
<1>1. IInv /\ IInv' /\ [Next]_vars => [NotShorter]_vars
  <2> SUFFICES ASSUME IInv, IInv', [Next]_vars,
                      NEW tip \in get_chain_tip(chain), NEW tip2 \in get_chain_tip(chain')
               PROVE  Cardinality(Walk(chain, tip)) <= Cardinality(Walk(chain', tip2))
    OBVIOUS
  <2>1. WholeTree(chain) /\ WholeTree(chain')  BY DEF IInv
  <2>2. CASE Resolve
    <3>1. \E t \in get_chain_tip(chain) : chain' = resolve_chain(chain, t)
      BY <2>2 DEF Resolve
    <3> QED  BY <2>1, <3>1, TipsNeverLower
  <2>3. ASSUME NEW h \in Hash, AddBlock(h)
        PROVE  Stored(chain) \subseteq Stored(chain')
    BY <2>1, <2>3, AddBlockIsWhole DEF AddBlock
  <2>4. Genesis \/ UNCHANGED chain => Stored(chain) \subseteq Stored(chain')
    BY DEF Genesis
  <2>5. Resolve \/ Stored(chain) \subseteq Stored(chain')
    BY <2>3, <2>4 DEF Next, Tick, vars
  <2> QED  BY <2>1, <2>2, <2>5, TipsNeverLower
<1> QED  BY <1>1, Invariance, PTL DEF Spec, MainChainNeverShrinks

-----------------------------------------------------------------------------
(* The store implements the abstract tree. *)

(* Every step of the store is a step of the tree or leaves it alone.       *)
LEMMA StepSimulation ==
    ASSUME IInv, [Next]_vars
    PROVE  [Abstract!Next]_(Stored(chain))
<1> DEFINE Stutter == Stored(chain') = Stored(chain)
<1>1. CASE Genesis
  <2>1. Stored(EmptyChain) = {} /\ GenesisHash \in Hash
    BY BlockAssumption DEF EmptyChain, EmptyMap, Stored
  <2>2. Stored(chain') = {GenesisHash}
    BY <1>1, <2>1, AddBlockFields DEF Genesis, genesis, IsOrphan
  <2> QED  BY <1>1, <2>2 DEF Genesis, Abstract!Next, Abstract!Root
<1>2. ASSUME NEW h \in Hash, AddBlock(h)
      PROVE  [Abstract!Next]_(Stored(chain))
  <2>1. CASE IsOrphan(chain, h) \/ h \in Stored(chain)
    <3>1. Stutter  BY <1>2, <2>1, AddBlockFields DEF AddBlock, add_block
    <3> QED  BY <3>1
  <2>2. CASE ~ IsOrphan(chain, h) /\ h \notin Stored(chain)
    <3>1. /\ Stored(chain') = Stored(chain) \cup {h}
          /\ previous_hash[h] \in Stored(chain)
      BY <1>2, <2>2, AddBlockFields DEF AddBlock, IsOrphan
    <3> QED  BY <2>2, <3>1 DEF Abstract!Next, Abstract!Extend
  <2> QED  BY <2>1, <2>2
<1>3. CASE Resolve
  <2>1. PICK tip \in get_chain_tip(chain) : chain' = resolve_chain(chain, tip)
    BY <1>3 DEF Resolve
  <2>2. /\ tip \in Hash /\ tip \in Stored(chain) /\ Walk(chain, tip) = Lineage[tip]
        /\ \A h \in Stored(chain) : Height(h) <= Height(tip)
    BY TipIsHighest DEF IInv
  <2>3. Stored(chain') = Lineage[tip]
    BY <2>1, ResolveIsWhole DEF IInv
  <2>4. Stored(chain) \subseteq Hash  BY DEF IInv, WholeTree, IsChain, Stored
  <2> QED  BY <2>2, <2>3, <2>4 DEF Abstract!Next, Abstract!Prune, Abstract!IsHighest,
              Height
<1>4. CASE UNCHANGED chain
  <2>1. Stutter  BY <1>4
  <2> QED  BY <2>1
<1> QED  BY <1>1, <1>2, <1>3, <1>4 DEF Next, Tick, vars

(* The store implements LongestChain.                                      *)
THEOREM Implementation == Spec => ImplementsLongestChain
<1>1. Init => Abstract!Init
  BY DEF Init, Abstract!Init, EmptyChain, EmptyMap, Stored
<1>2. IInv /\ [Next]_vars => [Abstract!Next]_(Stored(chain))
  BY StepSimulation
<1> QED  BY <1>1, <1>2, Invariance, PTL DEF Spec, ImplementsLongestChain, Abstract!Spec

-----------------------------------------------------------------------------
(* The query window. *)

(* No stored block is dated ahead of the clock, which started at StartTime. *)
StoredInThePast ==
    /\ now >= StartTime
    /\ \A h \in Stored(chain) : slot_number[h] <= compute_slot_number(now)

(* The clock only moves on, and a block is stored from its slot on.        *)
LEMMA StaysInThePast ==
    ASSUME IInv, StoredInThePast, [Next]_vars
    PROVE  StoredInThePast'
<1> USE DEF StoredInThePast
<1>1. /\ now \in Nat /\ slot_secs \in Nat \ {0} /\ StartTime \in Nat
      /\ WholeTree(chain) /\ Stored(chain) \subseteq Hash
      /\ \A h \in Hash : slot_number[h] \in Nat
  BY MetadataAssumption, ClockAssumption, BlockAssumption
     DEF IInv, WholeTree, IsChain, Stored
<1>2. CASE Genesis
  <2>1. Stored(chain') = {GenesisHash}  BY <1>2, GenesisIsWhole DEF Genesis
  <2>2. slot_number[GenesisHash] = 0  BY BlockAssumption
  <2>3. compute_slot_number(now) \in Nat  BY <1>1 DEF compute_slot_number
  <2>4. now' = now  BY <1>2 DEF Genesis
  <2> QED  BY <2>1, <2>2, <2>3, <2>4 DEF compute_slot_number
<1>3. ASSUME NEW h \in Hash, AddBlock(h) PROVE StoredInThePast'
  <2>1. Stored(chain') \subseteq Stored(chain) \cup {h}
    BY <1>1, <1>3, AddBlockIsWhole DEF AddBlock
  <2> QED  BY <1>3, <2>1 DEF AddBlock, compute_slot_number
<1>4. CASE Resolve
  <2>1. Stored(chain') \subseteq Stored(chain) /\ now' = now
    BY <1>1, <1>4, ResolveIsWhole DEF Resolve
  <2> QED  BY <2>1 DEF compute_slot_number
<1>5. CASE Tick
  <2>1. chain' = chain /\ now' = now + 1  BY <1>5 DEF Tick
  <2>2. compute_slot_number(now) <= compute_slot_number(now')
    BY <1>1, <2>1 DEF compute_slot_number
  <2>3. compute_slot_number(now) \in Int /\ compute_slot_number(now') \in Int
    BY <1>1, <2>1 DEF compute_slot_number
  <2>4. \A h \in Stored(chain) : slot_number[h] <= compute_slot_number(now')
    BY <1>1, <2>2, <2>3
  <2> QED  BY <1>1, <2>1, <2>4
<1>6. CASE UNCHANGED vars  BY <1>6 DEF vars, compute_slot_number
<1> QED  BY <1>2, <1>3, <1>4, <1>5, <1>6 DEF Next

(* The lower bound of a query is a number of seconds less than the window  *)
(* and one slot in the past.                                               *)
LEMMA BoundIsRecent ==
    ASSUME NEW t \in Nat
    PROVE  /\ get_query_slot_lower_bound(t) \in Int
           /\ get_query_slot_lower_bound(t) > t - (query_slots + 1) * chain_slot_secs
<1> DEFINE c == chain_slot_secs
           q == t \div c
<1>1. c \in Nat \ {0} /\ query_slots \in Nat  BY MetadataAssumption
<1>2. q \in Nat /\ q * c > t - c  BY <1>1, SMTT(30)
<1>3. q * c \in Nat /\ query_slots * c \in Nat  BY <1>1, <1>2
<1>4. (query_slots + 1) * c = query_slots * c + c  BY <1>1
<1>5. get_query_slot_lower_bound(t) = q * c - query_slots * c
  BY DEF get_query_slot_lower_bound, get_slot_start_time
<1> HIDE DEF q, c
<1>6. /\ get_query_slot_lower_bound(t) \in Int
      /\ get_query_slot_lower_bound(t) > t - (query_slots + 1) * c
  BY <1>1, <1>2, <1>3, <1>4, <1>5
<1> QED  BY <1>6 DEF c

(* What a miner is told: no transaction is in the chain.                   *)
NothingFound == \A txn \in Txn : ~ has_transaction(chain, txn, now)

(* With the slots of the code, of two seconds or more, has_transaction     *)
(* finds nothing, ever, whatever the chain holds: get_transaction compares *)
(* the number of a slot with an instant in seconds.  All it takes is that  *)
(* the node is started twice as long after the epoch as a query looks      *)
(* back, counting the slot it is asked in.                                 *)
THEOREM QueryFindsNothing ==
    ASSUME slot_secs >= 2,
           StartTime >= 2 * ((query_slots + 1) * chain_slot_secs)
    PROVE  Spec => []NothingFound
<1>1. Init => StoredInThePast
  BY ClockAssumption DEF Init, StoredInThePast, EmptyChain, EmptyMap, Stored
<1>2. IInv /\ StoredInThePast /\ [Next]_vars => StoredInThePast'
  BY StaysInThePast
<1>3. IInv /\ StoredInThePast => NothingFound
  <2> DEFINE back == (query_slots + 1) * chain_slot_secs
             bound == get_query_slot_lower_bound(now)
  <2> SUFFICES ASSUME IInv, StoredInThePast, NEW txn \in Txn,
                      has_transaction(chain, txn, now)
               PROVE  FALSE
    BY DEF NothingFound
  <2>1. PICK s \in DOMAIN chain.slots :
            s >= bound /\ \E h \in chain.slots[s] : has_block(chain, h)
    BY DEF has_transaction
  <2>2. PICK h \in chain.slots[s] : h \in Stored(chain)
    BY <2>1 DEF has_block
  <2>3. slot_number[h] = s /\ s \in Nat
    <3>1. SlotIndexExact /\ IsChain(chain) /\ h \in Hash
      BY <2>2 DEF IInv, WholeTree, SlotsExact, SlotIndexExact, IsChain, Stored
    <3> QED  BY <3>1, <2>2 DEF SlotIndexExact, IsChain
  <2>4. /\ now \in Nat /\ StartTime \in Nat /\ now >= StartTime
        /\ slot_secs \in Nat \ {0}
    BY ClockAssumption, MetadataAssumption DEF IInv, StoredInThePast
  <2>5. s <= now \div slot_secs
    BY <2>2, <2>3 DEF StoredInThePast, compute_slot_number
  <2>6. 2 * (now \div slot_secs) <= now /\ now \div slot_secs \in Nat
    <3> DEFINE q == now \div slot_secs
    <3>1. q \in Nat /\ q * slot_secs <= now  BY <2>4, SMTT(30)
    <3> HIDE DEF q
    <3>2. q * slot_secs >= q * 2  BY <2>4, <3>1, SMTT(30)
    <3>3. 2 * q <= now /\ q \in Nat
      <4>1. q * slot_secs \in Nat  BY <2>4, <3>1
      <4> QED  BY <2>4, <3>1, <3>2, <4>1
    <3> QED  BY <3>3 DEF q
  <2>7. back \in Nat /\ bound \in Int /\ bound > now - back /\ now >= 2 * back
    <3>1. query_slots + 1 \in Nat /\ chain_slot_secs \in Nat  BY MetadataAssumption
    <3>2. back \in Nat  BY <3>1
    <3> QED  BY <2>4, <3>2, BoundIsRecent
  <2> HIDE DEF back, bound
  <2> QED  BY <2>1, <2>3, <2>4, <2>5, <2>6, <2>7
<1> QED  BY <1>1, <1>2, <1>3, Invariance, PTL DEF Spec

=============================================================================
