--------------------------- MODULE ClusterProofs ----------------------------
(***************************************************************************)
(* Proofs about Cluster, for any nodes, blocks, proposals and bounds.      *)
(***************************************************************************)
EXTENDS Cluster, BlockchainProofs

(* What a chain keeps, whatever blocks it is given: it is a whole tree and *)
(* never empty.                                                            *)
ChainOK(c) == WholeTree(c) /\ Stored(c) # {}

ChainsOK == \A n \in Node : ChainOK(chain[n])

(* No block is dated ahead of the clock or into another slot.              *)
Dated(b) == b.timestamp <= now /\ b.slot_number = compute_slot_number(b.timestamp)

BlocksDated ==
    /\ \A p \in proposed : Dated(p.block)
    /\ \A n \in Node : Dated(block[n]) /\ \A b \in todo[n] : Dated(b)
    /\ \A m \in mined : Dated(m.block)

(* A chain holds a block at least as high as p.                            *)
Follows(c, p) == \E h \in Stored(c) : Height(p) <= Height(h)

(* A mined block that n has not sent would pass; its parent was announced, *)
(* and whatever has become of that parent, the chain of n is as high.      *)
Candidate(n, b) ==
    /\ verify_self(b)
    /\ b.previous_hash \in {GenesisHash} \cup Announced
    /\ Follows(chain[n], b.previous_hash)

(* Mined blocks wait only while the miner says so.  Their parents are      *)
(* stored unless forks were resolved since the leaves were read.           *)
TodoOK ==
    \A n \in Node :
        /\ pc[n] \notin {"mined", "stored"} => todo[n] = {}
        /\ \A b \in todo[n] :
              /\ Candidate(n, b)
              /\ since[n] = resolved[n] => b.previous_hash \in Stored(chain[n])

(* So does the one in hand, which is stored itself in that case.           *)
HandOK ==
    \A n \in Node : \A b \in InHand(n) :
        /\ Candidate(n, b)
        /\ since[n] = resolved[n] => b.hash \in Stored(chain[n])

(* The history runs forward.                                               *)
SinceOK ==
    /\ \A n \in Node : since[n] <= resolved[n]
    /\ \A m \in mined : m.since <= resolved[m.from]

(* The parent of an announced block does not tower above its miner's chain.*)
MinedFollow ==
    \A m \in mined :
        /\ m.block.previous_hash \in Hash
        /\ Follows(chain[m.from], m.block.previous_hash)

(* The inductive invariant.                                                *)
IInv ==
    /\ TypeOK
    /\ ChainsOK
    /\ BlocksDated
    /\ TodoOK
    /\ HandOK
    /\ SinceOK
    /\ MinedFollow
    /\ StoredWouldPass
    /\ LineageAnnounced
    /\ MinedIsStored

-----------------------------------------------------------------------------
(* Time *)

(* Slots follow one another as their times do.                             *)
LEMMA SlotMonotone ==
    ASSUME NEW s \in Nat, NEW t \in Nat, s <= t
    PROVE  /\ compute_slot_number(s) \in Nat
           /\ compute_slot_number(s) <= compute_slot_number(t)
<1>1. slot_secs \in Nat \ {0}  BY MetadataAssumption
<1> QED  BY <1>1 DEF compute_slot_number

-----------------------------------------------------------------------------
(* One chain *)

(* The chain a node starts from.                                           *)
LEMMA GenesisOK == ChainOK(genesis) /\ Stored(genesis) = {GenesisHash}
BY GenesisIsWhole DEF ChainOK

(* Adding a block forgets none, and stores it if its parent is stored.     *)
LEMMA AddBlockOK ==
    ASSUME NEW c, ChainOK(c), NEW h \in Hash
    PROVE  /\ ChainOK(add_block(c, h))
           /\ Stored(c) \subseteq Stored(add_block(c, h))
           /\ Stored(add_block(c, h)) \subseteq Stored(c) \cup {h}
           /\ previous_hash[h] \in Stored(c) => h \in Stored(add_block(c, h))
BY AddBlockIsWhole DEF ChainOK

(* A resolution only forgets.                                              *)
LEMMA ResolveOK ==
    ASSUME NEW c, ChainOK(c), NEW tip \in get_chain_tip(c)
    PROVE  /\ ChainOK(resolve_chain(c, tip))
           /\ Stored(resolve_chain(c, tip)) \subseteq Stored(c)
<1>1. tip \in Lineage[tip]  BY TipIsHighest, InOwnLineage DEF ChainOK
<1> QED  BY <1>1, ResolveIsWhole DEF ChainOK

(* A chain that has what another has, or a chain cut back to its longest   *)
(* branch, is as high as it.                                               *)
LEMMA FollowsStays ==
    ASSUME NEW c, ChainOK(c), NEW d, NEW p \in Hash, Follows(c, p),
           \/ Stored(c) \subseteq Stored(d)
           \/ \E t \in get_chain_tip(c) : d = resolve_chain(c, t)
    PROVE  Follows(d, p)
<1>1. PICK h \in Stored(c) : Height(p) <= Height(h)  BY DEF Follows
<1>2. CASE Stored(c) \subseteq Stored(d)  BY <1>1, <1>2 DEF Follows
<1>3. ASSUME NEW t \in get_chain_tip(c), d = resolve_chain(c, t)
      PROVE  Follows(d, p)
  <2>1. t \in Hash /\ Height(h) <= Height(t)
    BY TipIsHighest DEF ChainOK
  <2>2. t \in Stored(d)
    BY <1>3, <2>1, ResolveIsWhole, InOwnLineage DEF ChainOK
  <2>3. h \in Hash  BY DEF ChainOK, WholeTree, IsChain, Stored
  <2>4. Height(p) \in Nat /\ Height(h) \in Nat /\ Height(t) \in Nat
    BY <2>1, <2>3, HeightStep
  <2>5. Height(p) <= Height(t)  BY <1>1, <2>1, <2>4
  <2> QED  BY <2>2, <2>5 DEF Follows
<1> QED  BY <1>2, <1>3

-----------------------------------------------------------------------------
(* All chains *)

(* One node's chain is replaced by a good one.                             *)
LEMMA ChainReplaced ==
    ASSUME IInv, NEW n \in Node, NEW c, ChainOK(c),
           chain' = [chain EXCEPT ![n] = c]
    PROVE  /\ chain' = [k \in Node |-> chain'[k]]
           /\ \A k \in Node : IsChain(chain'[k])
           /\ ChainsOK'
           /\ chain'[n] = c
           /\ \A k \in Node \ {n} : chain'[k] = chain[k]
<1>1. chain = [k \in Node |-> chain[k]]  BY DEF IInv, TypeOK
<1>2. /\ chain' = [k \in Node |-> chain'[k]]
      /\ chain'[n] = c
      /\ \A k \in Node \ {n} : chain'[k] = chain[k]
  BY <1>1
<1>3. \A k \in Node : ChainOK(chain'[k])
  BY <1>2 DEF IInv, ChainsOK
<1> QED  BY <1>2, <1>3 DEF ChainsOK, ChainOK, WholeTree

(* Every chain keeps what it has when one of them is given a block.        *)
LEMMA BlockAdded ==
    ASSUME IInv, NEW n \in Node, NEW h \in Hash,
           chain' = [chain EXCEPT ![n] = add_block(@, h)]
    PROVE  /\ chain' = [k \in Node |-> chain'[k]]
           /\ \A k \in Node : IsChain(chain'[k])
           /\ ChainsOK'
           /\ \A k \in Node : Stored(chain[k]) \subseteq Stored(chain'[k])
           /\ \A k \in Node : Stored(chain'[k]) \subseteq Stored(chain[k]) \cup {h}
           /\ previous_hash[h] \in Stored(chain[n]) => h \in Stored(chain'[n])
           /\ chain'[n] = add_block(chain[n], h)
           /\ \A k \in Node \ {n} : chain'[k] = chain[k]
<1> DEFINE c == add_block(chain[n], h)
<1>1. ChainOK(chain[n])  BY DEF IInv, ChainsOK
<1>2. /\ ChainOK(c)
      /\ Stored(chain[n]) \subseteq Stored(c)
      /\ Stored(c) \subseteq Stored(chain[n]) \cup {h}
      /\ previous_hash[h] \in Stored(chain[n]) => h \in Stored(c)
  BY <1>1, AddBlockOK
<1>3. chain' = [chain EXCEPT ![n] = c]  OBVIOUS
<1> HIDE DEF c
<1>4. /\ chain' = [k \in Node |-> chain'[k]]
      /\ \A k \in Node : IsChain(chain'[k])
      /\ ChainsOK'
      /\ chain'[n] = c
      /\ \A k \in Node \ {n} : chain'[k] = chain[k]
  BY <1>2, <1>3, ChainReplaced
<1>5. \A k \in Node : /\ Stored(chain[k]) \subseteq Stored(chain'[k])
                       /\ Stored(chain'[k]) \subseteq Stored(chain[k]) \cup {h}
  BY <1>2, <1>4
<1> QED  BY <1>2, <1>4, <1>5 DEF c

(* What is known of a block that passes.                                   *)
LEMMA PassingBlock ==
    ASSUME NEW b, verify_self(b)
    PROVE  /\ b.hash \in Hash
           /\ b.previous_hash = previous_hash[b.hash]
           /\ b.transactions = transactions[b.hash]
           /\ b.timestamp = timestamp[b.hash]
           /\ b.slot_number = slot_number[b.hash]
BY MiningAssumption DEF verify_self, check_hash, calculate_hash

-----------------------------------------------------------------------------
(* The invariant holds at the start and each action keeps it.              *)

(* The genesis block is a block, in slot 0.                                *)
LEMMA GenesisDated ==
    ASSUME NEW t \in Nat
    PROVE  /\ GenesisBlock \in BlockType
           /\ GenesisBlock.timestamp = 0 /\ GenesisBlock.timestamp <= t
           /\ GenesisBlock.slot_number = compute_slot_number(GenesisBlock.timestamp)
           /\ GenesisBlock.transactions = {}
<1>1. compute_slot_number(0) \in Nat  BY SlotMonotone
<1> QED  BY <1>1, BlockAssumption DEF GenesisBlock, new, BlockType

(* Nothing was sent and every chain is the genesis block.                  *)
LEMMA InitIInv == Init => IInv
<1> SUFFICES ASSUME Init PROVE IInv  OBVIOUS
<1>1. \A n \in Node : /\ ChainOK(chain[n]) /\ IsChain(chain[n])
                       /\ Stored(chain[n]) = {GenesisHash}
  BY GenesisOK DEF Init, ChainOK, WholeTree
<1>2. now \in Nat  BY ClusterAssumption DEF Init
<1>3. GenesisBlock \in BlockType /\ Dated(GenesisBlock)
  BY <1>2, GenesisDated DEF Dated
<1>4. TypeOK  BY <1>1, <1>2, <1>3 DEF Init, TypeOK
<1>5. ChainsOK  BY <1>1 DEF ChainsOK
<1>6. BlocksDated  BY <1>3 DEF Init, BlocksDated
<1>7. TodoOK /\ HandOK /\ SinceOK /\ MinedFollow
  BY DEF Init, TodoOK, HandOK, InHand, SinceOK, MinedFollow
<1>8. StoredWouldPass /\ LineageAnnounced /\ MinedIsStored
  BY <1>1 DEF Init, StoredWouldPass, InHand, LineageAnnounced, Announced, MinedIsStored
<1> QED  BY <1>4, <1>5, <1>6, <1>7, <1>8 DEF IInv

(* A step that leaves chains, miners and mined messages alone keeps what   *)
(* the invariant says of them.                                             *)
LEMMA UntouchedIInv ==
    ASSUME IInv, UNCHANGED <<chain, pc, block, todo, since, resolved, mined>>
    PROVE  /\ ChainsOK' /\ TodoOK' /\ HandOK' /\ SinceOK' /\ MinedFollow'
           /\ LineageAnnounced' /\ MinedIsStored'
BY DEF IInv, ChainsOK, TodoOK, HandOK, InHand, Candidate, SinceOK, MinedFollow,
   LineageAnnounced, Announced, MinedIsStored

(* A proposal is dated with a time that has come.                          *)
LEMMA ProposeIInv ==
    ASSUME IInv, NEW n \in Node, NEW txns \in Offers[n], NEW started \in StartTime..now,
           send_proposed_block(n, txns, started)
    PROVE  IInv'
<1> DEFINE p == [from |-> n, block |-> new(txns, started)]
<1>1. /\ proposed' = proposed \cup {p}
      /\ UNCHANGED <<now, chain, pc, block, todo, taken, round, since, resolved,
                     mined, answered>>
  BY DEF send_proposed_block, broadcast, miner
<1>2. started \in Nat /\ started <= now /\ now \in Nat
  BY ClusterAssumption DEF IInv, TypeOK
<1>3. p \in Proposal /\ Dated(p.block)
  <2>1. compute_slot_number(started) \in Nat  BY <1>2, SlotMonotone
  <2>2. txns \subseteq Txn  BY ClusterAssumption
  <2> QED  BY <1>2, <2>1, <2>2 DEF new, BlockType, Proposal, Dated
<1> HIDE DEF p
<1>4. TypeOK'
  BY <1>1, <1>3 DEF IInv, TypeOK
<1>5. BlocksDated'
  BY <1>1, <1>3 DEF IInv, BlocksDated, Dated
<1>6. StoredWouldPass'
  BY <1>1 DEF IInv, StoredWouldPass, InHand, Announced
<1> QED  BY <1>1, <1>4, <1>5, <1>6, UntouchedIInv DEF IInv

(* What is selected is a proposal, shortened, or genesis.                  *)
LEMMA SelectIInv ==
    ASSUME IInv, NEW n \in Node, SelectTransactions(n)
    PROVE  IInv'
<1> USE DEF IInv
<1>0. PICK proposals \in arrived(proposed, taken[n]) :
          /\ taken' = [taken EXCEPT ![n] = @ \cup proposals]
          /\ \E b \in receive_proposed_block(proposals) :
                block' = [block EXCEPT ![n] = Select(chain[n], b)]
  BY DEF SelectTransactions
<1>1. PICK b \in receive_proposed_block(proposals) :
          block' = [block EXCEPT ![n] = Select(chain[n], b)]
  BY <1>0
<1> DEFINE s == Select(chain[n], b)
<1>2. /\ pc[n] = "idle"
      /\ pc' = [pc EXCEPT ![n] = "selected"]
      /\ round' = [round EXCEPT ![n] = @ + 1]
      /\ UNCHANGED <<now, chain, todo, since, resolved, proposed, mined, answered>>
  BY DEF SelectTransactions, messages
<1>3. now \in Nat /\ proposals \subseteq proposed
  BY <1>0 DEF TypeOK, arrived
<1>4. b \in BlockType /\ Dated(b)
  <2>1. CASE proposals = {}
    BY <1>1, <1>3, <2>1, GenesisDated DEF receive_proposed_block, Dated
  <2>2. CASE proposals # {}
    <3>1. PICK p \in proposals : b = p.block
      BY <1>1, <2>2 DEF receive_proposed_block, Least
    <3> QED  BY <1>3, <3>1 DEF BlocksDated, TypeOK, Proposal
  <2> QED  BY <2>1, <2>2
<1>5. s \in BlockType /\ Dated(s)
  BY <1>4 DEF Select, drop_transactions, BlockType, Dated
<1> HIDE DEF s
<1>6. block' = [block EXCEPT ![n] = s]  BY <1>1 DEF s
<1>7. TypeOK'
  <2>1. taken' \in [Node -> SUBSET proposed]  BY <1>0, <1>3 DEF TypeOK
  <2>2. /\ block' \in [Node -> BlockType]
        /\ pc' \in [Node -> {"idle", "selected", "mined", "stored"}]
        /\ round' \in [Node -> Nat]
    BY <1>2, <1>5, <1>6 DEF TypeOK
  <2> QED  BY <1>2, <2>1, <2>2 DEF TypeOK
<1>8. ChainsOK' /\ SinceOK' /\ MinedFollow' /\ LineageAnnounced' /\ MinedIsStored'
  BY <1>2 DEF ChainsOK, SinceOK, MinedFollow, LineageAnnounced, Announced, MinedIsStored
<1>9. BlocksDated'
  BY <1>2, <1>5, <1>6 DEF BlocksDated, Dated, TypeOK
<1>10. \A k \in Node : InHand(k)' = InHand(k)
  BY <1>2, <1>6 DEF InHand, TypeOK
<1>11. TodoOK'
  BY <1>2 DEF TodoOK, Candidate, Announced, TypeOK
<1>12. HandOK' /\ StoredWouldPass'
  BY <1>2, <1>10 DEF HandOK, Candidate, Announced, StoredWouldPass
<1> QED  BY <1>7, <1>8, <1>9, <1>11, <1>12

(* The block is mined on leaves, which are stored, and announced, since    *)
(* the miner has nothing in hand while it reads them.                      *)
LEMMA MineIInv ==
    ASSUME IInv, NEW n \in Node, MineOnLeaves(n)
    PROVE  IInv'
<1> USE DEF IInv
<1> DEFINE on(leaf) == [block[n] EXCEPT !.previous_hash = leaf]
           d == UNION {mine_block(on(leaf)) : leaf \in chain[n].leaves}
<1>1. /\ pc[n] = "selected"
      /\ todo' = [todo EXCEPT ![n] = d]
      /\ block' = [block EXCEPT ![n] = GenesisBlock]
      /\ pc' = [pc EXCEPT ![n] = IF todo'[n] = {} THEN "idle" ELSE "mined"]
      /\ since' = [since EXCEPT ![n] = resolved[n]]
      /\ UNCHANGED <<now, chain, taken, round, resolved, proposed, mined, answered>>
  BY DEF MineOnLeaves, messages
<1>2. block[n] \in BlockType /\ Dated(block[n]) /\ now \in Nat
  BY DEF TypeOK, BlocksDated
<1>3. ASSUME NEW b \in d
      PROVE  /\ b \in BlockType
             /\ Dated(b)
             /\ Candidate(n, b)
             /\ b.previous_hash \in Stored(chain[n])
  <2>1. PICK leaf \in chain[n].leaves : b \in mine_block(on(leaf))  BY <1>3
  <2>2. leaf \in Stored(chain[n]) /\ leaf \in Hash
    BY <2>1 DEF ChainsOK, ChainOK, WholeTree, LeavesOnTop, IsChain
  <2>3. /\ on(leaf) \in BlockType /\ Dated(on(leaf))
        /\ on(leaf).previous_hash = leaf
    BY <1>2, <2>2 DEF BlockType, Dated
  <2> DEFINE c == on(leaf)
  <2> HIDE DEF on
  <2>4. PICK h \in calculate_hash(c) \cap Solved : b = [c EXCEPT !.hash = h]
    BY <2>1 DEF mine_block
  <2>5. h \in Hash  BY <2>4 DEF calculate_hash
  <2>6. /\ b \in BlockType /\ b.hash = h /\ b.timestamp = c.timestamp
        /\ b.slot_number = c.slot_number /\ b.transactions = c.transactions
        /\ b.previous_hash = c.previous_hash
    BY <2>3, <2>4, <2>5 DEF BlockType
  <2>7. verify_self(b)
    BY <2>3, <2>4, <2>6 DEF verify_self, check_hash, calculate_hash,
       verify_proof_of_work, Dated
  <2>8. leaf \in {GenesisHash} \cup Announced
    BY <1>1, <2>2 DEF StoredWouldPass, InHand
  <2>9. Follows(chain[n], leaf)
    <3>1. Height(leaf) \in Nat  BY <2>2, HeightStep
    <3> QED  BY <2>2, <3>1 DEF Follows
  <2> QED  BY <2>2, <2>3, <2>6, <2>7, <2>8, <2>9 DEF Dated, Candidate
<1> HIDE DEF d
<1>4. GenesisBlock \in BlockType /\ Dated(GenesisBlock)
  BY <1>2, GenesisDated DEF Dated
<1>5. /\ todo'[n] = d /\ block'[n] = GenesisBlock
      /\ pc'[n] = IF d = {} THEN "idle" ELSE "mined"
      /\ since'[n] = resolved[n]
      /\ \A k \in Node \ {n} :
            /\ pc'[k] = pc[k] /\ block'[k] = block[k] /\ todo'[k] = todo[k]
            /\ since'[k] = since[k]
  BY <1>1 DEF TypeOK
<1>6. TypeOK'
  <2>1. todo' \in [Node -> SUBSET BlockType]  BY <1>1, <1>3 DEF TypeOK
  <2>2. /\ block' \in [Node -> BlockType]
        /\ pc' \in [Node -> {"idle", "selected", "mined", "stored"}]
        /\ since' \in [Node -> Nat]
    BY <1>1, <1>4 DEF TypeOK
  <2> QED  BY <1>1, <2>1, <2>2 DEF TypeOK
<1>7. ChainsOK' /\ MinedFollow' /\ LineageAnnounced' /\ MinedIsStored'
  BY <1>1 DEF ChainsOK, MinedFollow, LineageAnnounced, Announced, MinedIsStored
<1>8. BlocksDated'
  BY <1>1, <1>3, <1>4, <1>5 DEF BlocksDated, Dated
<1>9. SinceOK'
  <2>1. resolved[n] <= resolved[n]  BY DEF TypeOK
  <2> QED  BY <1>1, <1>5, <2>1 DEF SinceOK
<1>10. \A k \in Node : InHand(k)' = InHand(k)
  BY <1>1, <1>5 DEF InHand
<1>11. TodoOK'
  <2>1. Announced' = Announced  BY <1>1 DEF Announced
  <2>2. \A k \in Node : \A b : Candidate(k, b)' <=> Candidate(k, b)
    BY <1>1, <2>1 DEF Candidate
  <2>3. \A b \in todo'[n] :
            Candidate(n, b)' /\ b.previous_hash \in Stored(chain'[n])
    BY <1>1, <1>3, <1>5, <2>2
  <2>4. \A k \in Node \ {n} :
            /\ pc'[k] \notin {"mined", "stored"} => todo'[k] = {}
            /\ \A b \in todo'[k] :
                  /\ Candidate(k, b)'
                  /\ since'[k] = resolved'[k] => b.previous_hash \in Stored(chain'[k])
    BY <1>1, <1>5, <2>2 DEF TodoOK
  <2> QED  BY <1>5, <2>3, <2>4 DEF TodoOK
<1>12. HandOK'
  <2>1. Announced' = Announced  BY <1>1 DEF Announced
  <2>2. InHand(n) = {}  BY <1>1 DEF InHand
  <2> QED  BY <1>1, <1>5, <1>10, <2>1, <2>2 DEF HandOK, Candidate
<1>13. StoredWouldPass'
  BY <1>1, <1>10 DEF StoredWouldPass, Announced
<1> QED  BY <1>6, <1>7, <1>8, <1>9, <1>11, <1>12, <1>13

(* What n has mined still follows when chains only gain blocks.            *)
LEMMA CandidateStays ==
    ASSUME IInv, NEW n \in Node, NEW b, Candidate(n, b),
           UNCHANGED mined,
           \/ Stored(chain[n]) \subseteq Stored(chain'[n])
           \/ \E t \in get_chain_tip(chain[n]) : chain'[n] = resolve_chain(chain[n], t)
    PROVE  Candidate(n, b)'
<1>1. b.previous_hash \in Hash
  BY BlockAssumption, PassingBlock DEF Candidate, Announced, IInv, StoredWouldPass
<1>2. ChainOK(chain[n])  BY DEF IInv, ChainsOK
<1>3. Follows(chain'[n], b.previous_hash)
  BY <1>1, <1>2, FollowsStays DEF Candidate
<1> QED  BY <1>3 DEF Candidate, Announced

(* So do the parents of announced blocks.                                  *)
LEMMA MinedFollowStays ==
    ASSUME IInv, UNCHANGED mined,
           NEW n \in Node, \A k \in Node \ {n} : chain'[k] = chain[k],
           \/ Stored(chain[n]) \subseteq Stored(chain'[n])
           \/ \E t \in get_chain_tip(chain[n]) : chain'[n] = resolve_chain(chain[n], t)
    PROVE  MinedFollow'
<1> SUFFICES ASSUME NEW m \in mined
             PROVE  /\ m.block.previous_hash \in Hash
                    /\ Follows(chain'[m.from], m.block.previous_hash)
  BY DEF MinedFollow
<1>1. m.from \in Node  BY DEF IInv, TypeOK, Mined
<1>2. /\ m.block.previous_hash \in Hash
      /\ Follows(chain[m.from], m.block.previous_hash)
  BY DEF IInv, MinedFollow
<1>3. CASE m.from # n  BY <1>1, <1>2, <1>3
<1>4. CASE m.from = n
  <2>1. ChainOK(chain[n])  BY DEF IInv, ChainsOK
  <2> QED  BY <1>2, <1>4, <2>1, FollowsStays
<1> QED  BY <1>3, <1>4

(* The parent of a mined block is still there unless forks were resolved,  *)
(* so the block is stored; it is now in its miner's hand.                  *)
LEMMA StoreIInv ==
    ASSUME IInv, NEW n \in Node, StoreMined(n)
    PROVE  IInv'
<1> USE DEF IInv
<1>1. PICK b \in todo[n] :
          /\ todo' = [todo EXCEPT ![n] = @ \ {b}]
          /\ block' = [block EXCEPT ![n] = b]
          /\ chain' = Keep(n, b)
  BY DEF StoreMined
<1> DEFINE h == b.hash
<1>2. /\ pc[n] = "mined"
      /\ pc' = [pc EXCEPT ![n] = "stored"]
      /\ chain' = [chain EXCEPT ![n] = add_block(@, h)]
      /\ UNCHANGED <<now, taken, round, since, resolved, proposed, mined, answered>>
  BY <1>1 DEF StoreMined, Keep, messages
<1>3. b \in BlockType /\ Dated(b) /\ verify_self(b) /\ Candidate(n, b)
  BY DEF TypeOK, BlocksDated, TodoOK, Candidate
<1>4. h \in Hash /\ b.previous_hash = previous_hash[h]
  BY <1>3, PassingBlock
<1>5. /\ chain' = [k \in Node |-> chain'[k]]
      /\ \A k \in Node : IsChain(chain'[k])
      /\ ChainsOK'
      /\ \A k \in Node : Stored(chain[k]) \subseteq Stored(chain'[k])
      /\ Stored(chain'[n]) \subseteq Stored(chain[n]) \cup {h}
      /\ previous_hash[h] \in Stored(chain[n]) => h \in Stored(chain'[n])
      /\ \A k \in Node \ {n} : chain'[k] = chain[k]
  BY <1>2, <1>4, BlockAdded
<1>6. /\ todo'[n] = todo[n] \ {b} /\ pc'[n] = "stored" /\ block'[n] = b
      /\ \A k \in Node \ {n} :
            pc'[k] = pc[k] /\ todo'[k] = todo[k] /\ block'[k] = block[k]
  BY <1>1, <1>2 DEF TypeOK
<1>7. \A k \in Node : todo'[k] \subseteq todo[k]  BY <1>6
<1>8. InHand(n)' = {b} /\ InHand(n) = {} /\ \A k \in Node \ {n} : InHand(k)' = InHand(k)
  BY <1>2, <1>6 DEF InHand
<1>9. TypeOK'
  <2>1. todo' \in [Node -> SUBSET BlockType]  BY <1>1 DEF TypeOK
  <2>2. /\ block' \in [Node -> BlockType]
        /\ pc' \in [Node -> {"idle", "selected", "mined", "stored"}]
    BY <1>1, <1>2, <1>3 DEF TypeOK
  <2> QED  BY <1>2, <1>5, <2>1, <2>2 DEF TypeOK
<1>10. BlocksDated'
  <2>1. \A k \in Node : Dated(block'[k])  BY <1>3, <1>6 DEF BlocksDated
  <2> QED  BY <1>2, <1>7, <2>1 DEF BlocksDated, Dated
<1>11. \A k \in Node : \A x : Candidate(k, x) => Candidate(k, x)'
  BY <1>2, <1>5, CandidateStays
<1>12. TodoOK'
  BY <1>2, <1>5, <1>6, <1>11 DEF TodoOK
<1>13. HandOK'
  <2>1. since[n] = resolved[n] => h \in Stored(chain'[n])
    BY <1>4, <1>5 DEF TodoOK
  <2> QED  BY <1>2, <1>3, <1>5, <1>8, <1>11, <2>1 DEF HandOK
<1>14. SinceOK'  BY <1>2 DEF SinceOK
<1>15. MinedFollow'  BY <1>2, <1>5, MinedFollowStays
<1>16. StoredWouldPass'
  <2>1. Announced' = Announced  BY <1>2 DEF Announced
  <2>2. \A x \in InHand(n)' : verify_self(x)  BY <1>3, <1>8
  <2>3. Stored(chain'[n]) \subseteq
            {GenesisHash} \cup Announced \cup {x.hash : x \in InHand(n)'}
    BY <1>5, <1>8 DEF StoredWouldPass
  <2> QED  BY <1>2, <1>5, <1>8, <2>1, <2>2, <2>3 DEF StoredWouldPass
<1>17. LineageAnnounced'  BY <1>2 DEF LineageAnnounced, Announced
<1>18. MinedIsStored'
  <2>1. \A m \in mined : m.from \in Node  BY DEF TypeOK, Mined
  <2> QED  BY <1>2, <1>5, <2>1 DEF MinedIsStored
<1> QED
  BY <1>5, <1>9, <1>10, <1>12, <1>13, <1>14, <1>15, <1>16, <1>17, <1>18

(* What was in hand is announced: it passes, its branch was announced, and *)
(* it is stored unless forks were resolved.                                *)
LEMMA SendIInv ==
    ASSUME IInv, NEW n \in Node, send_mined_block(n)
    PROVE  IInv'
<1> USE DEF IInv
<1> DEFINE b == block[n]
           m == Announcement(n)
           h == b.hash
<1>2. /\ pc[n] = "stored"
      /\ pc' = [pc EXCEPT ![n] = IF todo[n] = {} THEN "idle" ELSE "mined"]
      /\ block' = [block EXCEPT ![n] = GenesisBlock]
      /\ mined' = mined \cup {m}
      /\ UNCHANGED <<now, chain, todo, taken, round, since, resolved, proposed, answered>>
  BY DEF send_mined_block, Announce, broadcast
<1>3. /\ b \in InHand(n)
      /\ b \in BlockType /\ Dated(b) /\ verify_self(b) /\ Candidate(n, b)
  BY <1>2 DEF TypeOK, BlocksDated, HandOK, InHand, Candidate
<1>4. /\ h \in Hash
      /\ b.previous_hash = previous_hash[h]
      /\ previous_hash[h] \in {GenesisHash} \cup Announced
  BY <1>3, PassingBlock DEF Candidate
<1>5. /\ pc'[n] = (IF todo[n] = {} THEN "idle" ELSE "mined")
      /\ block'[n] = GenesisBlock
      /\ \A k \in Node \ {n} : pc'[k] = pc[k] /\ block'[k] = block[k]
  BY <1>2 DEF TypeOK
<1>6. m \in Mined /\ m.from = n /\ m.since = since[n] /\ m.block = b
  BY <1>3 DEF TypeOK, Mined, Announcement
<1> HIDE DEF m, b
<1>7. GenesisBlock \in BlockType /\ Dated(GenesisBlock)
  BY GenesisDated DEF Dated, TypeOK
<1>8. /\ InHand(n)' = {} /\ InHand(n) = {b}
      /\ \A k \in Node \ {n} : InHand(k)' = InHand(k)
  BY <1>2, <1>5 DEF InHand, b
<1>9. Announced' = Announced \cup {h} /\ Announced \subseteq Announced'
  BY <1>2, <1>6 DEF Announced
<1>10. TypeOK'
  BY <1>2, <1>6, <1>7 DEF TypeOK
<1>11. BlocksDated'
  BY <1>2, <1>3, <1>5, <1>6, <1>7 DEF BlocksDated, Dated
<1>12. \A k \in Node : \A x : Candidate(k, x) => Candidate(k, x)'
  BY <1>2, <1>9 DEF Candidate
<1>13. TodoOK'
  BY <1>2, <1>5, <1>12 DEF TodoOK
<1>14. HandOK'
  BY <1>2, <1>8, <1>12 DEF HandOK
<1>15. SinceOK'
  BY <1>2, <1>6 DEF SinceOK
<1>16. MinedFollow'
  <2>1. previous_hash[h] \in Hash
    BY <1>4, BlockAssumption, PassingBlock DEF Announced, StoredWouldPass
  <2>2. Follows(chain[n], b.previous_hash)  BY <1>3 DEF Candidate
  <2> QED  BY <1>2, <1>4, <1>6, <2>1, <2>2 DEF MinedFollow
<1>17. StoredWouldPass'
  <2>1. \A x \in mined' : verify_self(x.block)
    BY <1>2, <1>3, <1>6 DEF StoredWouldPass
  <2>2. ASSUME NEW k \in Node
        PROVE  /\ \A x \in InHand(k)' : verify_self(x)
               /\ Stored(chain[k]) \subseteq
                     {GenesisHash} \cup Announced' \cup {x.hash : x \in InHand(k)'}
    <3>1. CASE k = n  BY <1>8, <1>9, <3>1 DEF StoredWouldPass
    <3>2. CASE k # n  BY <1>8, <1>9, <3>2 DEF StoredWouldPass
    <3> QED  BY <3>1, <3>2
  <2> QED  BY <1>2, <1>9, <2>1, <2>2 DEF StoredWouldPass
<1>18. LineageAnnounced'
  <2> DEFINE p == previous_hash[h]
  <2>1. Announced \subseteq Hash
    BY PassingBlock DEF Announced, StoredWouldPass
  <2>2. p \in Hash /\ h # GenesisHash
    BY <1>4, <2>1, BlockAssumption
  <2>3. Lineage[h] = Lineage[p] \cup {h}
    BY <1>4, <2>2, LineageAssumption
  <2>4. Lineage[p] \subseteq {GenesisHash} \cup Announced
    BY <1>4, LineageAssumption DEF LineageAnnounced
  <2> QED  BY <1>9, <2>3, <2>4 DEF LineageAnnounced
<1>19. MinedIsStored'
  <2>1. since[n] = resolved[n] => h \in Stored(chain[n])
    BY <1>3 DEF HandOK
  <2> QED  BY <1>2, <1>6, <2>1 DEF MinedIsStored
<1>20. ChainsOK'  BY <1>2 DEF ChainsOK
<1> QED
  BY <1>10, <1>11, <1>13, <1>14, <1>15, <1>16, <1>17, <1>18, <1>19, <1>20

(* A chain is given a block that was announced or is genesis.              *)
LEMMA KnownAddedIInv ==
    ASSUME IInv, NEW n \in Node, NEW h \in Hash,
           h = GenesisHash \/ \E m \in mined : m.block.hash = h,
           chain' = [chain EXCEPT ![n] = add_block(@, h)],
           UNCHANGED <<now, miner, resolved, messages>>
    PROVE  IInv'
<1> USE DEF IInv
<1>1. /\ chain' = [k \in Node |-> chain'[k]]
      /\ \A k \in Node : IsChain(chain'[k])
      /\ ChainsOK'
      /\ \A k \in Node : Stored(chain[k]) \subseteq Stored(chain'[k])
      /\ \A k \in Node : Stored(chain'[k]) \subseteq Stored(chain[k]) \cup {h}
      /\ \A k \in Node \ {n} : chain'[k] = chain[k]
  BY BlockAdded
<1>2. UNCHANGED <<now, pc, block, todo, taken, round, since, resolved, proposed,
                  mined, answered>>
  BY DEF miner, messages
<1>3. TypeOK'  BY <1>1, <1>2 DEF TypeOK
<1>4. BlocksDated' /\ SinceOK'
  BY <1>2 DEF BlocksDated, Dated, SinceOK
<1>5. \A k \in Node : \A x : Candidate(k, x) => Candidate(k, x)'
  BY <1>1, <1>2, CandidateStays
<1>6. \A k \in Node : InHand(k)' = InHand(k)  BY <1>2 DEF InHand
<1>7. TodoOK' /\ HandOK'
  BY <1>1, <1>2, <1>5, <1>6 DEF TodoOK, HandOK
<1>8. MinedFollow'  BY <1>1, <1>2, MinedFollowStays
<1>9. StoredWouldPass' /\ LineageAnnounced'
  BY <1>1, <1>2, <1>6 DEF StoredWouldPass, LineageAnnounced, Announced
<1>10. MinedIsStored'
  <2>1. \A m \in mined : m.from \in Node  BY DEF TypeOK, Mined
  <2> QED  BY <1>1, <1>2, <2>1 DEF MinedIsStored
<1> QED  BY <1>1, <1>3, <1>4, <1>7, <1>8, <1>9, <1>10

(* The blocks of messages are blocks there are.                            *)
LEMMA VerifiedIsKnown ==
    ASSUME IInv, NEW m \in mined
    PROVE  m.block.hash \in Hash
BY PassingBlock DEF IInv, StoredWouldPass

(* What is answered was announced, or is genesis.                          *)
LEMMA AnsweredIsKnown ==
    ASSUME IInv, NEW h \in answered
    PROVE  h \in Hash /\ (h = GenesisHash \/ \E m \in mined : m.block.hash = h)
<1>1. answered \subseteq Hash  BY DEF IInv, TypeOK
<1>2. answered \subseteq {GenesisHash} \cup Announced  BY DEF IInv, StoredWouldPass
<1> QED  BY <1>1, <1>2 DEF Announced

(* Whoever asks, asks for the parent of an announced block, and that was   *)
(* announced too: no block in hand can be asked for.                       *)
LEMMA RequestedIsKnown ==
    ASSUME IInv, NEW h \in Requested, h \in Hash
    PROVE  h \in {GenesisHash} \cup Announced
<1>1. ASSUME NEW g \in Hash, g \in {GenesisHash} \cup Announced, previous_hash[g] = h
      PROVE  h \in {GenesisHash} \cup Announced
  <2>1. g # GenesisHash  BY <1>1, BlockAssumption
  <2>2. h \in Lineage[g]  BY <1>1, <2>1, HeightStep
  <2> QED  BY <1>1, <2>1, <2>2 DEF IInv, LineageAnnounced
<1>2. ASSUME NEW m \in mined, m.block.previous_hash = h
      PROVE  h \in {GenesisHash} \cup Announced
  <2>1. m.block.hash \in Hash /\ previous_hash[m.block.hash] = h
    BY <1>2, PassingBlock DEF IInv, StoredWouldPass
  <2>2. m.block.hash \in Announced  BY DEF Announced
  <2> QED  BY <1>1, <2>1, <2>2
<1>3. ASSUME NEW g \in answered, previous_hash[g] = h
      PROVE  h \in {GenesisHash} \cup Announced
  BY <1>1, <1>3 DEF IInv, TypeOK, StoredWouldPass
<1> QED  BY <1>2, <1>3 DEF Requested

(* An answer names a block that was announced.                             *)
LEMMA AnswerIInv ==
    ASSUME IInv, NEW n \in Node, NEW h \in Hash, check_for_next_block(n, h)
    PROVE  IInv'
<1> USE DEF IInv
<1>1. /\ h \in {GenesisHash} \cup Announced
      /\ answered' = answered \cup {h}
      /\ UNCHANGED <<now, chain, pc, block, todo, taken, round, since, resolved,
                     proposed, mined>>
  BY RequestedIsKnown DEF check_for_next_block, broadcast, miner
<1>2. TypeOK'  BY <1>1 DEF TypeOK
<1>3. BlocksDated'  BY <1>1 DEF BlocksDated, Dated
<1>4. StoredWouldPass'
  BY <1>1 DEF StoredWouldPass, InHand, Announced
<1> QED  BY <1>1, <1>2, <1>3, <1>4, UntouchedIInv

(* After a resolution nothing announced before it is promised any more,    *)
(* but the chain is as high as it was.                                     *)
LEMMA ResolveIInv ==
    ASSUME IInv, NEW n \in Node, Resolve(n)
    PROVE  IInv'
<1> USE DEF IInv
<1>1. PICK tip \in get_chain_tip(chain[n]) :
          chain' = [chain EXCEPT ![n] = resolve_chain(@, tip)]
  BY DEF Resolve
<1>2. /\ resolved' = [resolved EXCEPT ![n] = @ + 1]
      /\ UNCHANGED <<now, pc, block, todo, taken, round, since, proposed, mined,
                     answered>>
  BY DEF Resolve, miner, messages
<1> DEFINE c == resolve_chain(chain[n], tip)
<1>3. ChainOK(c) /\ Stored(c) \subseteq Stored(chain[n])
  BY ResolveOK DEF ChainsOK
<1>4. chain' = [chain EXCEPT ![n] = c] /\ c = resolve_chain(chain[n], tip)
  BY <1>1
<1> HIDE DEF c
<1>5. /\ chain' = [k \in Node |-> chain'[k]]
      /\ \A k \in Node : IsChain(chain'[k])
      /\ ChainsOK'
      /\ chain'[n] = c
      /\ \A k \in Node \ {n} : chain'[k] = chain[k]
  BY <1>3, <1>4, ChainReplaced
<1>6. /\ \A k \in Node : since[k] \in Nat /\ resolved[k] \in Nat
      /\ resolved'[n] = resolved[n] + 1
      /\ \A k \in Node \ {n} : resolved'[k] = resolved[k]
  BY <1>2 DEF TypeOK
<1>7. \A m \in mined : m.from \in Node /\ m.since \in Nat
  BY DEF TypeOK, Mined
<1>8. TypeOK'
  <2>1. resolved' \in [Node -> Nat]  BY <1>2 DEF TypeOK
  <2> QED  BY <1>2, <1>5, <2>1 DEF TypeOK
<1>9. BlocksDated'  BY <1>2 DEF BlocksDated, Dated
<1>10. SinceOK'
  <2>1. \A k \in Node : since[k] <= resolved'[k]
    BY <1>6 DEF SinceOK
  <2>2. ASSUME NEW m \in mined PROVE m.since <= resolved'[m.from]
    BY <1>6, <1>7 DEF SinceOK
  <2> QED  BY <1>2, <2>1, <2>2 DEF SinceOK
<1>11. since[n] # resolved'[n]
  BY <1>6 DEF SinceOK
<1>12. \A k \in Node : \A x : Candidate(k, x) => Candidate(k, x)'
  <2>1. \E t \in get_chain_tip(chain[n]) : chain'[n] = resolve_chain(chain[n], t)
    BY <1>4, <1>5
  <2>2. \A k \in Node \ {n} : Stored(chain[k]) \subseteq Stored(chain'[k])
    BY <1>5
  <2> QED  BY <1>2, <2>1, <2>2, CandidateStays
<1>13. \A k \in Node : InHand(k)' = InHand(k)  BY <1>2 DEF InHand
<1>14. TodoOK'
  BY <1>2, <1>5, <1>6, <1>11, <1>12 DEF TodoOK
<1>15. HandOK'
  BY <1>2, <1>5, <1>6, <1>11, <1>12, <1>13 DEF HandOK
<1>16. MinedFollow'
  BY <1>2, <1>4, <1>5, MinedFollowStays
<1>17. StoredWouldPass' /\ LineageAnnounced'
  BY <1>2, <1>3, <1>5, <1>13 DEF StoredWouldPass, LineageAnnounced, Announced
<1>18. MinedIsStored'
  <2>1. ASSUME NEW m \in mined, m.from = n PROVE m.since # resolved'[n]
    BY <1>6, <1>7, <2>1 DEF SinceOK
  <2> QED  BY <1>2, <1>5, <1>6, <1>7, <2>1 DEF MinedIsStored
<1> QED  BY <1>5, <1>8, <1>9, <1>10, <1>14, <1>15, <1>16, <1>17, <1>18

(* With time no date gets ahead of the clock.                              *)
LEMMA TickIInv == IInv /\ Tick => IInv'
<1> SUFFICES ASSUME IInv, Tick PROVE IInv'  OBVIOUS
<1> USE DEF IInv
<1>1. /\ now' = now + 1
      /\ UNCHANGED <<chain, pc, block, todo, taken, round, since, resolved, proposed,
                     mined, answered>>
  BY DEF Tick, miner, messages
<1>2. now \in Nat /\ now' \in Nat /\ now <= now'  BY <1>1 DEF TypeOK
<1>3. TypeOK'  BY <1>1, <1>2 DEF TypeOK
<1>4. BlocksDated'
  <2>1. ASSUME NEW x, x.timestamp \in Nat, Dated(x) PROVE Dated(x)'
    BY <1>2, <2>1 DEF Dated
  <2>2. /\ \A p \in proposed : p.block.timestamp \in Nat
        /\ \A k \in Node : /\ block[k].timestamp \in Nat
                            /\ \A x \in todo[k] : x.timestamp \in Nat
        /\ \A m \in mined : m.block.timestamp \in Nat
    BY DEF TypeOK, Proposal, Mined, BlockType
  <2> QED  BY <1>1, <2>1, <2>2 DEF BlocksDated
<1>5. StoredWouldPass'
  BY <1>1 DEF StoredWouldPass, InHand, Announced
<1> QED  BY <1>1, <1>3, <1>4, <1>5, UntouchedIInv

(* Every step of the cluster, and every stutter, keeps the invariant.      *)
LEMMA NextIInv == IInv /\ [Next]_vars => IInv'
<1> SUFFICES ASSUME IInv, [Next]_vars PROVE IInv'  OBVIOUS
<1>1. ASSUME NEW n \in Node, NEW txns \in Offers[n], NEW started \in StartTime..now,
             send_proposed_block(n, txns, started)
      PROVE  IInv'
  BY <1>1, ProposeIInv
<1>2. ASSUME NEW n \in Node, SelectTransactions(n) PROVE IInv'
  BY <1>2, SelectIInv
<1>3. ASSUME NEW n \in Node, MineOnLeaves(n) PROVE IInv'
  BY <1>3, MineIInv
<1>4. ASSUME NEW n \in Node, StoreMined(n) PROVE IInv'
  BY <1>4, StoreIInv
<1>5. ASSUME NEW n \in Node, send_mined_block(n) PROVE IInv'
  BY <1>5, SendIInv
<1>6. ASSUME NEW n \in Node, NEW m \in mined, verify_next_block(n, m) PROVE IInv'
  BY <1>6, VerifiedIsKnown, KnownAddedIInv DEF verify_next_block
<1>7. ASSUME NEW n \in Node, NEW h \in Hash, check_for_next_block(n, h) PROVE IInv'
  BY <1>7, AnswerIInv
<1>8. ASSUME NEW n \in Node, NEW h \in Hash, AddObtained(n, h) PROVE IInv'
  BY <1>8, AnsweredIsKnown, KnownAddedIInv DEF AddObtained
<1>9. ASSUME NEW n \in Node, Resolve(n) PROVE IInv'
  BY <1>9, ResolveIInv
<1>10. CASE Tick  BY <1>10, TickIInv
<1>11. CASE UNCHANGED vars
  <2>1. UNCHANGED <<now, chain, pc, block, todo, taken, round, since, resolved,
                    proposed, mined, answered>>
    BY <1>11 DEF vars, miner, messages
  <2>2. TypeOK' /\ BlocksDated' /\ StoredWouldPass'
    BY <2>1 DEF IInv, TypeOK, BlocksDated, Dated, StoredWouldPass, InHand, Announced
  <2> QED  BY <2>1, <2>2, UntouchedIInv DEF IInv
<1> QED
  BY <1>1, <1>2, <1>3, <1>4, <1>5, <1>6, <1>7, <1>8, <1>9, <1>10, <1>11 DEF Next

-----------------------------------------------------------------------------
(* Each node runs ChainStore. *)

(* The operators that Store brings along are those of Blockchain.          *)
LEMMA SameOperators ==
    ASSUME NEW n \in Node, NEW c, NEW h
    PROVE  /\ Store(n)!Stored(c) = Stored(c)
           /\ Store(n)!Walk(c, h) = Walk(c, h)
           /\ Store(n)!Cardinality(h) = Cardinality(h)
           /\ Store(n)!add_block(c, h) = add_block(c, h)
           /\ Store(n)!get_chain_tip(c) = get_chain_tip(c)
           /\ Store(n)!resolve_chain(c, h) = resolve_chain(c, h)
           /\ Store(n)!compute_slot_number(h) = compute_slot_number(h)
<1>1. Store(n)!Stored(c) = Stored(c)  BY DEF Store!Stored, Stored
<1>2. \A x : Store(n)!Walk(c, x) = Walk(c, x)
  BY DEF Store!Walk, Walk, Store!has_block, has_block, Store!Stored, Stored
<1>3. Store(n)!add_block(c, h) = add_block(c, h)
  BY <1>1 DEF Store!add_block, add_block, Store!IsOrphan, IsOrphan,
     Store!InsertBlock, InsertBlock, Store!InsertLeaf, InsertLeaf,
     Store!InsertSlot, InsertSlot
<1>4. ASSUME NEW S PROVE Store(n)!Cardinality(S) = Cardinality(S)
  BY DEF Store!Cardinality, Cardinality
<1>5. Store(n)!get_chain_tip(c) = get_chain_tip(c)
  BY <1>2, <1>4 DEF Store!get_chain_tip, get_chain_tip
<1>6. Store(n)!resolve_chain(c, h) = resolve_chain(c, h)
  <2>1. Store(n)!Walk(c, h) = Walk(c, h)  BY <1>2
  <2> QED
    BY <2>1 DEF Store!resolve_chain, resolve_chain, Store!PathChain, PathChain
<1>7. Store(n)!compute_slot_number(h) = compute_slot_number(h)
  BY DEF Store!compute_slot_number, compute_slot_number
<1> QED  BY <1>1, <1>2, <1>3, <1>4, <1>5, <1>6, <1>7

(* A block that is known is in a slot that has come.                       *)
LEMMA KnownIsDue ==
    ASSUME IInv, NEW b, verify_self(b), Dated(b), b.timestamp \in Nat
    PROVE  slot_number[b.hash] <= compute_slot_number(now)
<1>1. slot_number[b.hash] = compute_slot_number(b.timestamp)
  BY PassingBlock DEF Dated
<1>2. b.timestamp <= now /\ now \in Nat  BY DEF IInv, TypeOK, Dated
<1> QED  BY <1>1, <1>2, SlotMonotone

(* The block of a message is due, and so is genesis.                       *)
LEMMA MessageIsDue ==
    ASSUME IInv, NEW h \in Hash, h = GenesisHash \/ \E m \in mined : m.block.hash = h
    PROVE  slot_number[h] <= compute_slot_number(now)
<1>1. CASE h = GenesisHash
  <2>1. slot_number[h] = 0  BY <1>1, BlockAssumption
  <2>2. compute_slot_number(now) \in Nat  BY SlotMonotone DEF IInv, TypeOK
  <2> QED  BY <2>1, <2>2
<1>2. ASSUME NEW m \in mined, m.block.hash = h
      PROVE  slot_number[h] <= compute_slot_number(now)
  <2>1. verify_self(m.block) /\ Dated(m.block)
    BY DEF IInv, StoredWouldPass, BlocksDated
  <2>2. m.block.timestamp \in Nat  BY DEF IInv, TypeOK, Mined, BlockType
  <2> QED  BY <1>2, <2>1, <2>2, KnownIsDue
<1> QED  BY <1>1, <1>2

(* To the node whose chain is given a block that is a step of ChainStore,  *)
(* to the others it is none.                                               *)
LEMMA AddRefines ==
    ASSUME IInv, NEW n \in Node, NEW h \in Hash,
           slot_number[h] <= compute_slot_number(now),
           chain' = [chain EXCEPT ![n] = add_block(@, h)], now' = now,
           NEW k \in Node
    PROVE  UNCHANGED Store(k)!vars \/ Store(k)!Next
<1>1. chain'[n] = add_block(chain[n], h) /\ \A x \in Node \ {n} : chain'[x] = chain[x]
  BY BlockAdded
<1>2. CASE k = n
  <2>1. Stored(chain[n]) # {}  BY DEF IInv, ChainsOK, ChainOK
  <2>2. Store(n)!AddBlock(h)
    BY <1>1, <2>1, SameOperators DEF Store!AddBlock
  <2> QED  BY <1>2, <2>2 DEF Store!Next
<1>3. CASE k # n  BY <1>1, <1>3 DEF Store!vars
<1> QED  BY <1>2, <1>3

(* A resolution of one node's forks is one step of ChainStore.             *)
LEMMA ResolveRefines ==
    ASSUME IInv, NEW n \in Node, Resolve(n), NEW k \in Node
    PROVE  UNCHANGED Store(k)!vars \/ Store(k)!Next
<1>1. PICK tip \in get_chain_tip(chain[n]) :
          chain' = [chain EXCEPT ![n] = resolve_chain(@, tip)]
  BY DEF Resolve
<1>2. now' = now  BY DEF Resolve
<1>3. /\ chain'[n] = resolve_chain(chain[n], tip)
      /\ \A x \in Node \ {n} : chain'[x] = chain[x]
  BY <1>1 DEF IInv, TypeOK
<1>4. CASE k = n
  <2>1. Store(n)!Resolve  BY <1>2, <1>3, SameOperators DEF Store!Resolve
  <2> QED  BY <1>4, <2>1 DEF Store!Next
<1>5. CASE k # n  BY <1>2, <1>3, <1>5 DEF Store!vars
<1> QED  BY <1>4, <1>5

(* Every step of the cluster is, to each node, a step of ChainStore or     *)
(* none.                                                                   *)
LEMMA StepRefines ==
    ASSUME IInv, Next, NEW k \in Node
    PROVE  UNCHANGED Store(k)!vars \/ Store(k)!Next
<1>1. ASSUME UNCHANGED <<now, chain>>
      PROVE  UNCHANGED Store(k)!vars
  BY <1>1 DEF Store!vars
<1>2. ASSUME NEW n \in Node, NEW txns \in Offers[n], NEW started \in StartTime..now,
             send_proposed_block(n, txns, started)
      PROVE  UNCHANGED Store(k)!vars
  BY <1>1, <1>2 DEF send_proposed_block
<1>3. ASSUME NEW n \in Node, SelectTransactions(n) PROVE UNCHANGED Store(k)!vars
  BY <1>1, <1>3 DEF SelectTransactions
<1>4. ASSUME NEW n \in Node, MineOnLeaves(n) PROVE UNCHANGED Store(k)!vars
  BY <1>1, <1>4 DEF MineOnLeaves
<1>5. ASSUME NEW n \in Node, StoreMined(n)
      PROVE  UNCHANGED Store(k)!vars \/ Store(k)!Next
  <2>1. PICK b \in todo[n] : chain' = Keep(n, b)  BY <1>5 DEF StoreMined
  <2>2. now' = now  BY <1>5 DEF StoreMined
  <2>3. verify_self(b) /\ Dated(b) /\ b.timestamp \in Nat
    BY DEF IInv, TodoOK, Candidate, BlocksDated, TypeOK, BlockType
  <2>4. b.hash \in Hash /\ slot_number[b.hash] <= compute_slot_number(now)
    BY <2>3, PassingBlock, KnownIsDue
  <2>5. chain' = [chain EXCEPT ![n] = add_block(@, b.hash)]
    BY <2>1 DEF Keep
  <2> QED  BY <2>2, <2>4, <2>5, AddRefines
<1>6. ASSUME NEW n \in Node, NEW m \in mined, verify_next_block(n, m)
      PROVE  UNCHANGED Store(k)!vars \/ Store(k)!Next
  <2>1. /\ m.block.hash \in Hash
        /\ slot_number[m.block.hash] <= compute_slot_number(now)
    BY VerifiedIsKnown, MessageIsDue
  <2> QED  BY <1>6, <2>1, AddRefines DEF verify_next_block
<1>7. ASSUME NEW n \in Node, NEW h \in Hash, check_for_next_block(n, h)
      PROVE  UNCHANGED Store(k)!vars
  BY <1>1, <1>7 DEF check_for_next_block
<1>8. ASSUME NEW n \in Node, NEW h \in Hash, AddObtained(n, h)
      PROVE  UNCHANGED Store(k)!vars \/ Store(k)!Next
  <2>1. slot_number[h] <= compute_slot_number(now)
    BY <1>8, AnsweredIsKnown, MessageIsDue DEF AddObtained
  <2> QED  BY <1>8, <2>1, AddRefines DEF AddObtained
<1>9. ASSUME NEW n \in Node, Resolve(n)
      PROVE  UNCHANGED Store(k)!vars \/ Store(k)!Next
  BY <1>9, ResolveRefines
<1>10. ASSUME Tick PROVE Store(k)!Next
  <2>1. Store(k)!Tick  BY <1>10 DEF Tick, Store!Tick
  <2> QED  BY <2>1 DEF Store!Next
<1>11. ASSUME NEW n \in Node, send_mined_block(n) PROVE UNCHANGED Store(k)!vars
  BY <1>1, <1>11 DEF send_mined_block
<1> QED
  BY <1>2, <1>3, <1>4, <1>5, <1>6, <1>7, <1>8, <1>9, <1>10, <1>11 DEF Next

-----------------------------------------------------------------------------
(* The theorems. *)

(* The inductive invariant holds in every reachable state.                 *)
THEOREM Invariance == Spec => []IInv
<1>1. Init => IInv                    BY InitIInv
<1>2. IInv /\ [Next]_vars => IInv'    BY NextIInv
<1> QED  BY <1>1, <1>2, PTL DEF Spec

(* Chains, miners, messages and the clock keep their types.                *)
THEOREM TypeCorrect == Spec => []TypeOK
<1>1. IInv => TypeOK  BY DEF IInv
<1> QED  BY <1>1, Invariance, PTL

(* Nothing that the verifier would refuse gets into a chain, although most *)
(* of what is stored was never verified there, and nothing but a node's    *)
(* own block gets into its chain, or into an answer, before the block is   *)
(* announced.                                                              *)
THEOREM StoredPasses == Spec => []StoredWouldPass
<1>1. IInv => StoredWouldPass  BY DEF IInv
<1> QED  BY <1>1, Invariance, PTL

(* No announced block hangs in the air: its whole branch was announced.    *)
THEOREM BranchesAnnounced == Spec => []LineageAnnounced
<1>1. IInv => LineageAnnounced  BY DEF IInv
<1> QED  BY <1>1, Invariance, PTL

(* A miner holds what it announces unless forks were resolved since it     *)
(* read the leaves.                                                        *)
THEOREM AnnouncedIsHeld == Spec => []MinedIsStored
<1>1. IInv => MinedIsStored  BY DEF IInv
<1> QED  BY <1>1, Invariance, PTL

(* Whatever was resolved in between, no miner's chain is left more than    *)
(* one block behind a block the miner announced.                           *)
THEOREM NeverOutrun == Spec => []MinerNotOutrun
<1>1. ASSUME IInv, NEW m \in mined
      PROVE  \E h \in Stored(chain[m.from]) :
                Cardinality(Lineage[m.block.hash]) <= Cardinality(Lineage[h]) + 1
  <2> DEFINE g == m.block.hash
             p == m.block.previous_hash
  <2>1. verify_self(m.block) /\ p \in Hash /\ Follows(chain[m.from], p)
    BY <1>1 DEF IInv, StoredWouldPass, MinedFollow
  <2>2. g \in Hash /\ p = previous_hash[g]  BY <2>1, PassingBlock
  <2>3. g # GenesisHash  BY <2>1, <2>2, BlockAssumption
  <2>4. PICK h \in Stored(chain[m.from]) : Height(p) <= Height(h)
    BY <2>1 DEF Follows
  <2>5. m.from \in Node  BY <1>1 DEF IInv, TypeOK, Mined
  <2>6. h \in Hash
    BY <1>1, <2>5 DEF IInv, ChainsOK, ChainOK, WholeTree, IsChain, Stored
  <2>7. /\ Height(g) = Height(p) + 1
        /\ Height(p) \in Nat /\ Height(h) \in Nat
    BY <2>2, <2>3, <2>6, HeightStep
  <2>8. Height(g) <= Height(h) + 1  BY <2>4, <2>7
  <2> QED  BY <2>8 DEF Height
<1>2. IInv => MinerNotOutrun  BY <1>1 DEF MinerNotOutrun
<1> QED  BY <1>2, Invariance, PTL

(* Each node's chain is a run of ChainStore.                               *)
THEOREM NodesRefine == Spec => NodesRunChainStore
<1>1. IInv /\ [Next]_vars =>
          [\A n \in Node : UNCHANGED Store(n)!vars \/ Store(n)!Next]_vars
  BY StepRefines
<1> QED  BY <1>1, Invariance, PTL DEF Spec, NodesRunChainStore

(* What ChainStore promises of its chain, in every state.                  *)
StoreInvariants(n) ==
    /\ Store(n)!LineageStored
    /\ Store(n)!LeavesCoverTree
    /\ Store(n)!ChildLinksSound
    /\ Store(n)!SlotIndexExact
    /\ Store(n)!MainChainIsLongest
    /\ Store(n)!TipExists

(* The chain of every node, in the company of the others, is a whole tree  *)
(* with sound indexes, and its main chain a longest branch.                *)
THEOREM EveryNodeKeepsItsTree == Spec => [](\A n \in Node : StoreInvariants(n))
<1>1. ASSUME IInv, NEW n \in Node PROVE StoreInvariants(n)
  <2> DEFINE c == chain[n]
  <2>1. WholeTree(c) /\ Stored(c) # {}  BY <1>1 DEF IInv, ChainsOK, ChainOK
  <2>2. Store(n)!LineageStored
    BY <2>1, SameOperators DEF Store!LineageStored, WholeTree, AncestorsStored
  <2>3. Store(n)!LeavesCoverTree
    BY <2>1, SameOperators DEF Store!LeavesCoverTree, WholeTree, LeavesOnTop
  <2>4. Store(n)!ChildLinksSound
    BY <2>1, SameOperators DEF Store!ChildLinksSound, WholeTree, LinksSound
  <2>5. Store(n)!SlotIndexExact
    BY <2>1, SameOperators DEF Store!SlotIndexExact, WholeTree, SlotsExact
  <2>6. Store(n)!MainChainIsLongest
    BY <2>1, TipIsHighest, SameOperators DEF Store!MainChainIsLongest, Height
  <2>7. Store(n)!TipExists
    BY <2>1, HighestHasTip, SameOperators DEF Store!TipExists
  <2> QED  BY <2>2, <2>3, <2>4, <2>5, <2>6, <2>7 DEF StoreInvariants
<1>2. IInv => \A n \in Node : StoreInvariants(n)
  BY <1>1
<1> QED  BY <1>2, Invariance, PTL

(* The main chain of no node ever gets shorter, whatever arrives from the  *)
(* others and whenever forks are resolved.                                 *)
NoNodeShrinks ==
    [][\A n \in Node :
          \A tip \in get_chain_tip(chain[n]), tip2 \in get_chain_tip(chain'[n]) :
             Cardinality(Walk(chain[n], tip)) <= Cardinality(Walk(chain'[n], tip2))]_vars

(* A step of ChainStore from and to whole trees lowers no tip.             *)
LEMMA StoreStepKeepsHeight ==
    ASSUME IInv, IInv', NEW n \in Node, UNCHANGED Store(n)!vars \/ Store(n)!Next,
           NEW tip \in get_chain_tip(chain[n]), NEW tip2 \in get_chain_tip(chain'[n])
    PROVE  Cardinality(Walk(chain[n], tip)) <= Cardinality(Walk(chain'[n], tip2))
<1> DEFINE c == chain[n]
           d == chain'[n]
<1>1. WholeTree(c) /\ WholeTree(d) /\ Stored(c) # {}
  BY DEF IInv, ChainsOK, ChainOK
<1>2. ASSUME Store(n)!Genesis PROVE FALSE
  BY <1>1, <1>2, SameOperators DEF Store!Genesis
<1>3. ASSUME NEW h \in Hash, Store(n)!AddBlock(h)
      PROVE  Stored(c) \subseteq Stored(d)
  BY <1>1, <1>3, SameOperators, AddBlockIsWhole DEF Store!AddBlock
<1>4. ASSUME Store(n)!Resolve
      PROVE  \E t \in get_chain_tip(c) : d = resolve_chain(c, t)
  BY <1>4, SameOperators DEF Store!Resolve
<1>5. ASSUME Store(n)!Tick \/ UNCHANGED Store(n)!vars
      PROVE  Stored(c) \subseteq Stored(d)
  BY <1>5 DEF Store!Tick, Store!vars
<1>6. \/ Stored(c) \subseteq Stored(d)
      \/ \E t \in get_chain_tip(c) : d = resolve_chain(c, t)
  BY <1>2, <1>3, <1>4, <1>5 DEF Store!Next
<1> HIDE DEF c, d
<1> QED  BY <1>1, <1>6, TipsNeverLower DEF c, d

(* No node's main chain ever gets shorter: with NodesRefine it is the      *)
(* property MainChainNeverShrinks of every node.                           *)
THEOREM NodesNeverShrink == Spec => NoNodeShrinks
<1> DEFINE NotShorter ==
        \A n \in Node :
          \A tip \in get_chain_tip(chain[n]), tip2 \in get_chain_tip(chain'[n]) :
             Cardinality(Walk(chain[n], tip)) <= Cardinality(Walk(chain'[n], tip2))
<1>1. IInv /\ IInv' /\ [Next]_vars => [NotShorter]_vars
  BY StepRefines, StoreStepKeepsHeight
<1> QED  BY <1>1, Invariance, PTL DEF Spec, NoNodeShrinks

=============================================================================
