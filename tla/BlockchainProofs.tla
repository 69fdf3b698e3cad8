------------------------- MODULE BlockchainProofs --------------------------
(***************************************************************************)
(* Facts about the operators of Blockchain, for every universe of blocks:  *)
(* what the proofs about the modules that own chains rest on.              *)
(***************************************************************************)
EXTENDS Blockchain, FiniteSetTheorems, WellFoundedInduction, TLAPS

Height(h) == Cardinality(Lineage[h])

(* The lineage of a block holds the block itself.                          *)
LEMMA InOwnLineage ==
    ASSUME NEW h \in Hash
    PROVE  h \in Lineage[h]
<1>1. CASE h = GenesisHash  BY <1>1, LineageAssumption
<1>2. CASE h # GenesisHash  BY <1>2, LineageAssumption
<1> QED  BY <1>1, <1>2

(* Heights are numbers, and an ancestor is no higher than its descendant.  *)
LEMMA HeightMonotone ==
    ASSUME NEW h \in Hash, NEW a \in Lineage[h]
    PROVE  /\ Height(h) \in Nat
           /\ a \in Hash
           /\ Height(a) \in Nat
           /\ Height(a) <= Height(h)
<1>1. IsFiniteSet(Lineage[h]) /\ Lineage[a] \in SUBSET Lineage[h]
  BY LineageAssumption
<1>2. a \in Hash  BY LineageAssumption
<1>3. IsFiniteSet(Lineage[a]) /\ Cardinality(Lineage[a]) <= Cardinality(Lineage[h])
  BY <1>1, FS_Subset
<1>4. Cardinality(Lineage[h]) \in Nat /\ Cardinality(Lineage[a]) \in Nat
  BY <1>1, <1>3, FS_CardinalityType
<1> QED  BY <1>2, <1>3, <1>4 DEF Height

(* The least number of a set: what replaces induction in the proofs below. *)
LEMMA LeastNat ==
    ASSUME NEW S, S \subseteq Nat, S # {}
    PROVE  \E n \in S : \A m \in S : n <= m
<1>1. PICK n \in S : \A m \in S : ~ (<<m, n>> \in OpToRel(<, Nat))
  BY NatLessThanWellFounded, WFMin
<1>2. \A m \in S : ~ (m < n)
  BY <1>1 DEF OpToRel
<1> QED  BY <1>2

(* Genesis has height 1, every other block one more than its parent.       *)
LEMMA HeightStep ==
    ASSUME NEW h \in Hash
    PROVE  /\ Height(h) \in Nat \ {0}
           /\ h = GenesisHash => Height(h) = 1
           /\ h # GenesisHash =>
                 /\ previous_hash[h] \in Hash
                 /\ previous_hash[h] \in Lineage[h]
                 /\ Height(previous_hash[h]) \in Nat \ {0}
                 /\ Height(h) = Height(previous_hash[h]) + 1
<1>1. ASSUME NEW x \in Hash PROVE Height(x) \in Nat \ {0}
  <2>1. IsFiniteSet(Lineage[x]) /\ Lineage[x] # {}
    BY LineageAssumption, InOwnLineage
  <2> QED  BY <2>1, FS_CardinalityType, FS_EmptySet DEF Height
<1>2. h = GenesisHash => Height(h) = 1
  BY LineageAssumption, FS_Singleton DEF Height
<1>3. ASSUME h # GenesisHash
      PROVE  /\ previous_hash[h] \in Hash
             /\ previous_hash[h] \in Lineage[h]
             /\ Height(h) = Height(previous_hash[h]) + 1
  <2>1. previous_hash[h] \in Hash  BY <1>3, BlockAssumption
  <2>2. /\ Lineage[h] = Lineage[previous_hash[h]] \cup {h}
        /\ h \notin Lineage[previous_hash[h]]
        /\ IsFiniteSet(Lineage[previous_hash[h]])
    BY <1>3, <2>1, LineageAssumption
  <2>3. Height(h) = Height(previous_hash[h]) + 1
    BY <2>2, FS_AddElement DEF Height
  <2> QED  BY <2>1, <2>2, <2>3, InOwnLineage
<1> QED  BY <1>1, <1>2, <1>3

(* A lineage has a block of every height up to its tip's.                  *)
LEMMA BlockAtHeight ==
    ASSUME NEW h \in Hash, NEW k \in 1 .. Height(h)
    PROVE  \E a \in Lineage[h] : Height(a) = k
<1> DEFINE S == {Height(a) : a \in {b \in Lineage[h] : Height(b) >= k}}
<1>1. Height(h) \in Nat /\ k \in Nat /\ k >= 1 /\ k <= Height(h)
  BY HeightStep
<1>2. S \subseteq Nat  BY HeightMonotone
<1>3. Height(h) \in S  BY <1>1, InOwnLineage
<1>4. PICK n \in S : \A m \in S : n <= m
  <2> HIDE DEF S
  <2> QED  BY <1>2, <1>3, LeastNat
<1>5. PICK a \in Lineage[h] : Height(a) = n /\ Height(a) >= k  BY <1>4
<1>6. a \in Hash /\ Height(a) \in Nat  BY HeightMonotone
<1>7. CASE a = GenesisHash
  BY <1>1, <1>5, <1>6, <1>7, HeightStep
<1>8. CASE a # GenesisHash
  <2> DEFINE p == previous_hash[a]
  <2>1. p \in Hash /\ p \in Lineage[a] /\ Height(p) \in Nat /\ Height(a) = Height(p) + 1
    BY <1>6, <1>8, HeightStep
  <2>2. p \in Lineage[h]
    BY <2>1, LineageAssumption
  <2>3. ~ (Height(p) >= k)
    BY <1>4, <1>5, <2>1, <2>2
  <2> QED  BY <1>1, <1>5, <2>1, <2>3
<1> QED  BY <1>7, <1>8

(* And only one: two blocks of the same height never share a descendant.   *)
LEMMA OneBlockPerHeight ==
    ASSUME NEW h \in Hash, NEW a \in Lineage[h], NEW b \in Lineage[h],
           Height(a) = Height(b)
    PROVE  a = b
<1> DEFINE S == {Height(g) : g \in {x \in Hash : a \in Lineage[x] /\ b \in Lineage[x]}}
<1>1. S \subseteq Nat  BY HeightStep
<1>2. Height(h) \in S  OBVIOUS
<1>3. PICK n \in S : \A m \in S : n <= m
  <2> HIDE DEF S
  <2> QED  BY <1>1, <1>2, LeastNat
<1>4. PICK g \in Hash : a \in Lineage[g] /\ b \in Lineage[g] /\ Height(g) = n
  BY <1>3
<1>5. CASE g = GenesisHash
  BY <1>4, <1>5, LineageAssumption
<1>6. CASE g # GenesisHash
  <2> DEFINE p == previous_hash[g]
  <2>1. p \in Hash /\ Height(p) \in Nat /\ Height(g) = Height(p) + 1
    BY <1>6, HeightStep
  <2>2. Lineage[g] = Lineage[p] \cup {g}
    BY <1>6, LineageAssumption
  <2>3. ~ (a \in Lineage[p] /\ b \in Lineage[p])
    BY <1>3, <1>4, <2>1
  <2>4. \A x \in Lineage[p] : Height(x) \in Nat /\ Height(x) <= Height(p)
    BY <2>1, HeightMonotone
  <2> QED  BY <1>4, <2>1, <2>2, <2>3, <2>4
<1> QED  BY <1>5, <1>6

(* Of two blocks of a lineage the lower is an ancestor of the higher.      *)
LEMMA LowerIsAncestor ==
    ASSUME NEW h \in Hash, NEW a \in Lineage[h], NEW b \in Lineage[h],
           Height(a) <= Height(b)
    PROVE  a \in Lineage[b]
<1>1. a \in Hash /\ b \in Hash  BY HeightMonotone
<1>2. Height(a) \in 1 .. Height(b)  BY <1>1, HeightStep
<1>3. PICK x \in Lineage[b] : Height(x) = Height(a)
  BY <1>1, <1>2, BlockAtHeight
<1>4. x \in Lineage[h]  BY LineageAssumption
<1> QED  BY <1>3, <1>4, OneBlockPerHeight

(* What add_block does to a block that is not an orphan.                   *)
LEMMA AddBlockFields ==
    ASSUME NEW c, NEW h \in Hash, ~ IsOrphan(c, h)
    PROVE  /\ Stored(add_block(c, h)) = Stored(c) \cup {h}
           /\ add_block(c, h).blocks = InsertBlock(c.blocks, h)
           /\ add_block(c, h).leaves = (c.leaves \ {previous_hash[h]}) \cup {h}
           /\ add_block(c, h).slots = InsertSlot(c.slots, h)
BY DEF add_block, Stored, InsertBlock, InsertLeaf

(* Adding a block keeps the chain well formed.                             *)
LEMMA AddBlockType ==
    ASSUME NEW c, IsChain(c), NEW h \in Hash
    PROVE  IsChain(add_block(c, h))
<1>1. CASE IsOrphan(c, h)  BY <1>1 DEF add_block
<1>2. CASE ~ IsOrphan(c, h)
  <2> DEFINE d == add_block(c, h)
  <2>1. d = [blocks |-> InsertBlock(c.blocks, h),
             leaves |-> (c.leaves \ {previous_hash[h]}) \cup {h},
             slots  |-> InsertSlot(c.slots, h)]
    BY <1>2 DEF add_block, InsertLeaf
  <2>2. InsertBlock(c.blocks, h) \in [DOMAIN c.blocks \cup {h} -> SUBSET Hash]
    BY DEF InsertBlock, IsChain
  <2>3. /\ DOMAIN c.slots \cup {slot_number[h]} \subseteq Nat
        /\ InsertSlot(c.slots, h)
              \in [DOMAIN c.slots \cup {slot_number[h]} -> SUBSET Hash]
    BY BlockAssumption DEF InsertSlot, IsChain
  <2> QED  BY <2>1, <2>2, <2>3 DEF IsChain
<1> QED  BY <1>1, <1>2

(* The parent of the block add_block takes is stored, or nothing is.       *)
LEMMA ParentStored ==
    ASSUME NEW c, IsChain(c), Stored(c) # {}, NEW h \in Hash, ~ IsOrphan(c, h)
    PROVE  /\ h # GenesisHash
           /\ previous_hash[h] \in Stored(c)
           /\ previous_hash[h] # h
           /\ Lineage[h] = Lineage[previous_hash[h]] \cup {h}
<1>1. previous_hash[h] \in Stored(c)  BY DEF IsOrphan
<1>2. previous_hash[h] \in Hash       BY <1>1 DEF IsChain, Stored
<1>3. h # GenesisHash                 BY <1>2, BlockAssumption
<1>4. previous_hash[h] # h
  BY <1>2, <1>3, LineageAssumption, InOwnLineage
<1> QED  BY <1>1, <1>3, <1>4, LineageAssumption

(* Over a whole tree the walk from a stored block is its full lineage.     *)
LEMMA WalkIsLineage ==
    ASSUME NEW c, IsChain(c), NEW h \in Stored(c), Lineage[h] \subseteq Stored(c)
    PROVE  Walk(c, h) = Lineage[h] /\ h \in Hash
<1>1. h \in Hash  BY DEF IsChain, Stored
<1> QED  BY <1>1 DEF Walk, has_block

-----------------------------------------------------------------------------
(* Whole trees: what genesis, add_block and resolve_chain leave of a chain *)
(* that they found so.                                                     *)

(* No block without its ancestors.                                         *)
AncestorsStored(c) == \A h \in Stored(c) : Lineage[h] \subseteq Stored(c)

(* The leaves are stored, and every stored block is below one.             *)
LeavesOnTop(c) ==
    /\ c.leaves \subseteq Stored(c)
    /\ \A h \in Stored(c) : \E leaf \in c.leaves : h \in Lineage[leaf]

(* Recorded children are stored children.                                  *)
LinksSound(c) ==
    \A h \in Stored(c) : \A child \in c.blocks[h] :
        child \in Stored(c) /\ previous_hash[child] = h

(* The slot index lists what is stored.                                    *)
SlotsExact(c) ==
    /\ \A h \in Stored(c) : slot_number[h] \in DOMAIN c.slots
    /\ \A s \in DOMAIN c.slots : \A h \in Hash :
          h \in c.slots[s] <=> h \in Stored(c) /\ slot_number[h] = s

(* Some stored block is as high as any other: the universe may be          *)
(* infinite, and nothing says that a chain is not.                         *)
HasHighest(c) ==
    Stored(c) # {} =>
        \E top \in Stored(c) : \A h \in Stored(c) : Height(h) <= Height(top)

WholeTree(c) ==
    /\ IsChain(c)
    /\ AncestorsStored(c)
    /\ LeavesOnTop(c)
    /\ LinksSound(c)
    /\ SlotsExact(c)
    /\ HasHighest(c)

(* A chain without blocks is whole.                                        *)
LEMMA EmptyIsWhole == WholeTree(EmptyChain) /\ Stored(EmptyChain) = {}
<1>1. /\ Stored(EmptyChain) = {}
      /\ EmptyChain.leaves = {} /\ DOMAIN EmptyChain.slots = {}
      /\ IsChain(EmptyChain)
  BY DEF EmptyChain, EmptyMap, Stored, IsChain
<1> QED
  BY <1>1 DEF WholeTree, AncestorsStored, LeavesOnTop, LinksSound, SlotsExact, HasHighest

(* So is the chain that holds the genesis block alone.                     *)
LEMMA GenesisIsWhole == WholeTree(genesis) /\ Stored(genesis) = {GenesisHash}
<1>1. /\ IsChain(EmptyChain) /\ Stored(EmptyChain) = {}
      /\ EmptyChain.leaves = {} /\ DOMAIN EmptyChain.slots = {}
      /\ DOMAIN EmptyChain.blocks = {}
  BY DEF EmptyChain, EmptyMap, IsChain, Stored
<1>2. GenesisHash \in Hash /\ ~ IsOrphan(EmptyChain, GenesisHash)
  BY <1>1, BlockAssumption DEF IsOrphan
<1>3. /\ Stored(genesis) = {GenesisHash}
      /\ genesis.blocks = InsertBlock(EmptyChain.blocks, GenesisHash)
      /\ genesis.leaves = {GenesisHash}
      /\ genesis.slots = InsertSlot(EmptyChain.slots, GenesisHash)
  BY <1>1, <1>2, AddBlockFields DEF genesis
<1>4. IsChain(genesis)  BY <1>1, <1>2, AddBlockType DEF genesis
<1>5. AncestorsStored(genesis) /\ LeavesOnTop(genesis)
  BY <1>2, <1>3, LineageAssumption DEF AncestorsStored, LeavesOnTop
<1>6. LinksSound(genesis)
  <2>1. genesis.blocks[GenesisHash] = {}  BY <1>3 DEF InsertBlock
  <2> QED  BY <1>3, <2>1 DEF LinksSound
<1>7. SlotsExact(genesis)
  <2>1. genesis.slots = [s \in {slot_number[GenesisHash]} |-> {GenesisHash}]
    BY <1>1, <1>3 DEF InsertSlot
  <2> QED  BY <1>3, <2>1 DEF SlotsExact
<1>8. HasHighest(genesis)
  <2>1. Height(GenesisHash) \in Nat  BY <1>2, HeightStep
  <2> QED  BY <1>3, <2>1 DEF HasHighest
<1> QED  BY <1>3, <1>4, <1>5, <1>6, <1>7, <1>8 DEF WholeTree

(* An orphan changes nothing; any other block, new or stored already,      *)
(* joins the tree below its parent.                                        *)
LEMMA AddBlockIsWhole ==
    ASSUME NEW c, WholeTree(c), Stored(c) # {}, NEW h \in Hash
    PROVE  /\ WholeTree(add_block(c, h))
           /\ Stored(c) \subseteq Stored(add_block(c, h))
           /\ Stored(add_block(c, h)) \subseteq Stored(c) \cup {h}
           /\ previous_hash[h] \in Stored(c) => h \in Stored(add_block(c, h))
<1> USE DEF WholeTree
<1>1. CASE IsOrphan(c, h)
  BY <1>1 DEF add_block, IsOrphan
<1>2. CASE ~ IsOrphan(c, h)
  <2> DEFINE p == previous_hash[h]
             d == add_block(c, h)
  <2>1. /\ Stored(d) = Stored(c) \cup {h}
        /\ d.blocks = InsertBlock(c.blocks, h)
        /\ d.leaves = (c.leaves \ {p}) \cup {h}
        /\ d.slots = InsertSlot(c.slots, h)
        /\ IsChain(d)
    BY <1>2, AddBlockFields, AddBlockType
  <2>2. /\ h # GenesisHash /\ p \in Stored(c) /\ p # h
        /\ Lineage[h] = Lineage[p] \cup {h}
    BY <1>2, ParentStored
  <2> HIDE DEF d
  <2>3. AncestorsStored(d)
    BY <2>1, <2>2 DEF AncestorsStored
  <2>4. LeavesOnTop(d)
    <3>1. d.leaves \subseteq Stored(d)
      BY <2>1 DEF LeavesOnTop
    <3>2. ASSUME NEW x \in Stored(d)
          PROVE  \E leaf \in d.leaves : x \in Lineage[leaf]
      <4>1. CASE x = h
        BY <4>1, <2>1, InOwnLineage
      <4>2. CASE x # h
        <5>1. PICK leaf \in c.leaves : x \in Lineage[leaf]
          BY <4>2, <2>1 DEF LeavesOnTop
        <5>2. CASE leaf = p   BY <5>1, <5>2, <2>1, <2>2
        <5>3. CASE leaf # p   BY <5>1, <5>3, <2>1
        <5> QED  BY <5>2, <5>3
      <4> QED  BY <4>1, <4>2
    <3> QED  BY <3>1, <3>2 DEF LeavesOnTop
  <2>5. LinksSound(d)
    BY <2>1, <2>2 DEF LinksSound, InsertBlock, Stored
  <2>6. SlotsExact(d)
    <3>1. \A x \in Stored(d) : slot_number[x] \in DOMAIN d.slots
      BY <2>1 DEF SlotsExact, InsertSlot
    <3>2. ASSUME NEW s \in DOMAIN d.slots, NEW x \in Hash
          PROVE  x \in d.slots[s] <=> x \in Stored(d) /\ slot_number[x] = s
      <4>1. d.slots[s] = (IF s \in DOMAIN c.slots THEN c.slots[s] ELSE {})
                            \cup (IF s = slot_number[h] THEN {h} ELSE {})
        BY <2>1 DEF InsertSlot
      <4>2. CASE s \in DOMAIN c.slots
        BY <4>1, <4>2, <2>1 DEF SlotsExact
      <4>3. CASE s \notin DOMAIN c.slots
        <5>1. s = slot_number[h]
          BY <4>3, <2>1 DEF InsertSlot
        <5>2. x \in Stored(c) => slot_number[x] # s
          BY <4>3 DEF SlotsExact
        <5> QED  BY <4>1, <4>3, <5>1, <5>2, <2>1
      <4> QED  BY <4>2, <4>3
    <3> QED  BY <3>1, <3>2 DEF SlotsExact
  <2>7. HasHighest(d)
    <3>1. PICK top \in Stored(c) : \A x \in Stored(c) : Height(x) <= Height(top)
      BY DEF HasHighest
    <3>2. Stored(c) \subseteq Hash  BY DEF IsChain, Stored
    <3>3. \A x \in Stored(c) \cup {h} : Height(x) \in Nat
      BY <3>2, HeightStep
    <3>4. CASE Height(h) <= Height(top)
      BY <3>1, <3>4, <2>1 DEF HasHighest
    <3>5. CASE ~ (Height(h) <= Height(top))
      <4>1. \A x \in Stored(c) \cup {h} : Height(x) <= Height(h)
        BY <3>1, <3>3, <3>5
      <4> QED  BY <4>1, <2>1 DEF HasHighest
    <3> QED  BY <3>4, <3>5
  <2> QED  BY <2>1, <2>3, <2>4, <2>5, <2>6, <2>7 DEF d
<1> QED  BY <1>1, <1>2

(* A tip is stored; its walk is its lineage; no stored block is higher.    *)
LEMMA TipIsHighest ==
    ASSUME NEW c, WholeTree(c), NEW tip \in get_chain_tip(c)
    PROVE  /\ tip \in Stored(c)
           /\ tip \in Hash
           /\ Walk(c, tip) = Lineage[tip]
           /\ \A h \in Stored(c) : Height(h) <= Height(tip)
<1> USE DEF WholeTree
<1>1. tip \in Stored(c)  BY DEF get_chain_tip, LeavesOnTop
<1>2. tip \in Hash /\ Walk(c, tip) = Lineage[tip]
  BY <1>1, WalkIsLineage DEF AncestorsStored
<1>3. ASSUME NEW h \in Stored(c)
      PROVE  Height(h) <= Height(tip)
  <2>1. PICK leaf \in c.leaves : h \in Lineage[leaf]  BY DEF LeavesOnTop
  <2>2. leaf \in Hash /\ Walk(c, leaf) = Lineage[leaf]
    BY <2>1, WalkIsLineage DEF AncestorsStored, LeavesOnTop
  <2>3. Height(leaf) <= Height(tip)
    BY <1>2, <2>1, <2>2 DEF get_chain_tip, Height
  <2>4. Height(h) \in Nat /\ Height(leaf) \in Nat /\ Height(h) <= Height(leaf)
    BY <2>1, <2>2, HeightMonotone
  <2>5. Height(tip) \in Nat
    BY <1>2, HeightStep
  <2> QED  BY <2>3, <2>4, <2>5
<1> QED  BY <1>1, <1>2, <1>3

(* The leaf above the highest block is a tip.                              *)
LEMMA HighestHasTip ==
    ASSUME NEW c, WholeTree(c), Stored(c) # {}
    PROVE  get_chain_tip(c) # {}
<1> USE DEF WholeTree
<1>1. PICK top \in Stored(c) : \A h \in Stored(c) : Height(h) <= Height(top)
  BY DEF HasHighest
<1>2. PICK leaf \in c.leaves : top \in Lineage[leaf]
  BY DEF LeavesOnTop
<1>3. \A l \in c.leaves : l \in Stored(c) /\ l \in Hash /\ Walk(c, l) = Lineage[l]
  BY WalkIsLineage DEF AncestorsStored, LeavesOnTop
<1>4. \A l \in c.leaves : Height(l) \in Nat
  BY <1>3, HeightStep
<1>5. Height(top) \in Nat /\ Height(top) <= Height(leaf)
  BY <1>2, <1>3, HeightMonotone
<1>6. \A l \in c.leaves : Cardinality(Walk(c, l)) <= Cardinality(Walk(c, leaf))
  BY <1>1, <1>3, <1>4, <1>5 DEF Height
<1>7. Walk(c, leaf) # {}
  BY <1>2, <1>3
<1> QED  BY <1>2, <1>6, <1>7 DEF get_chain_tip

(* Cutting the tree back to the lineage of a tip keeps every index.        *)
LEMMA ResolveIsWhole ==
    ASSUME NEW c, WholeTree(c), NEW tip \in get_chain_tip(c)
    PROVE  /\ WholeTree(resolve_chain(c, tip))
           /\ Stored(resolve_chain(c, tip)) = Lineage[tip]
           /\ Lineage[tip] \subseteq Stored(c)
<1> DEFINE path == Lineage[tip]
           d == resolve_chain(c, tip)
<1>1. tip \in Stored(c) /\ tip \in Hash /\ Walk(c, tip) = path
  BY TipIsHighest
<1>2. path \subseteq Hash /\ tip \in path /\ path \subseteq Stored(c)
  BY <1>1, LineageAssumption, InOwnLineage DEF WholeTree, AncestorsStored
<1>3. /\ d = PathChain(path, tip)
      /\ Stored(d) = path
      /\ d.leaves = {tip}
      /\ d.blocks = [x \in path |-> {y \in path : previous_hash[y] = x}]
      /\ d.slots = [s \in {slot_number[x] : x \in path} |->
                       {x \in path : slot_number[x] = s}]
  BY <1>1 DEF resolve_chain, PathChain, Stored
<1>4. IsChain(d)
  <2>1. d.blocks \in [path -> SUBSET Hash]  BY <1>2, <1>3
  <2>2. /\ {slot_number[x] : x \in path} \subseteq Nat
        /\ d.slots \in [{slot_number[x] : x \in path} -> SUBSET Hash]
    BY <1>2, <1>3, BlockAssumption
  <2> QED  BY <1>1, <1>2, <1>3, <2>1, <2>2 DEF IsChain, PathChain
<1> HIDE DEF d
<1>5. AncestorsStored(d)
  BY <1>1, <1>3, LineageAssumption DEF AncestorsStored
<1>6. LeavesOnTop(d)
  BY <1>2, <1>3 DEF LeavesOnTop
<1>7. LinksSound(d)
  BY <1>3 DEF LinksSound
<1>8. SlotsExact(d)
  BY <1>2, <1>3 DEF SlotsExact
<1>9. HasHighest(d)
  BY <1>1, <1>2, <1>3, HeightMonotone DEF HasHighest
<1> QED  BY <1>2, <1>3, <1>4, <1>5, <1>6, <1>7, <1>8, <1>9 DEF WholeTree, d

(* Neither operation lowers the tip: after add_block it is still stored,   *)
(* and resolve_chain cuts back to a block as high.                         *)
LEMMA TipsNeverLower ==
    ASSUME NEW c, WholeTree(c), NEW d, WholeTree(d),
           \/ Stored(c) \subseteq Stored(d)
           \/ \E t \in get_chain_tip(c) : d = resolve_chain(c, t),
           NEW tip \in get_chain_tip(c), NEW tip2 \in get_chain_tip(d)
    PROVE  Cardinality(Walk(c, tip)) <= Cardinality(Walk(d, tip2))
<1>1. tip \in Stored(c) /\ tip \in Hash /\ Walk(c, tip) = Lineage[tip]
  BY TipIsHighest
<1>2. /\ tip2 \in Hash /\ Walk(d, tip2) = Lineage[tip2]
      /\ \A h \in Stored(d) : Height(h) <= Height(tip2)
  BY TipIsHighest
<1>3. CASE Stored(c) \subseteq Stored(d)
  BY <1>1, <1>2, <1>3 DEF Height
<1>4. ASSUME NEW t \in get_chain_tip(c), d = resolve_chain(c, t)
      PROVE  Height(tip) <= Height(tip2)
  <2>1. t \in Hash /\ \A h \in Stored(c) : Height(h) <= Height(t)
    BY TipIsHighest
  <2>2. t \in Stored(d)
    BY <1>4, <2>1, ResolveIsWhole, InOwnLineage
  <2>3. Height(tip) <= Height(t) /\ Height(t) <= Height(tip2)
    BY <1>1, <1>2, <2>1, <2>2
  <2>4. Height(tip) \in Nat /\ Height(t) \in Nat /\ Height(tip2) \in Nat
    BY <1>1, <1>2, <2>1, HeightStep
  <2> QED  BY <2>3, <2>4
<1> QED  BY <1>1, <1>2, <1>3, <1>4 DEF Height

-----------------------------------------------------------------------------
(* resolve_chain, block by block. *)

(* The blocks of a branch from genesis up: one per height, each the parent *)
(* of the next, and under each lies what came before it.                   *)
LEMMA OldestFirst ==
    ASSUME NEW tip \in Hash, NEW i \in 1 .. Height(tip)
    PROVE  LET h == oldest_first(Lineage[tip])[i]
           IN  /\ h \in Lineage[tip]
               /\ h \in Hash
               /\ Height(h) = i
               /\ i = Height(tip) => h = tip
               /\ i = 1 <=> h = GenesisHash
               /\ i > 1 => previous_hash[h] = oldest_first(Lineage[tip])[i - 1]
<1> DEFINE at(k) == oldest_first(Lineage[tip])[k]
<1>1. ASSUME NEW k \in 1 .. Height(tip)
      PROVE  at(k) \in Lineage[tip] /\ at(k) \in Hash /\ Height(at(k)) = k
  <2>1. at(k) = CHOOSE x \in Lineage[tip] : Cardinality(Lineage[tip] \cap Lineage[x]) = k
    BY DEF oldest_first, Height
  <2>2. \A x \in Lineage[tip] : Lineage[tip] \cap Lineage[x] = Lineage[x]
    BY LineageAssumption
  <2>3. \E x \in Lineage[tip] : Cardinality(Lineage[tip] \cap Lineage[x]) = k
    BY <2>2, BlockAtHeight DEF Height
  <2>4. at(k) \in Lineage[tip] /\ Cardinality(Lineage[tip] \cap Lineage[at(k)]) = k
    <3> HIDE DEF at
    <3> QED  BY <2>1, <2>3
  <2>5. at(k) \in Hash  BY <2>4, LineageAssumption
  <2> QED  BY <2>2, <2>4, <2>5 DEF Height
<1>2. Height(tip) \in Nat /\ i \in Nat /\ tip \in Lineage[tip]
  BY HeightStep, InOwnLineage
<1>3. at(i) \in Lineage[tip] /\ at(i) \in Hash /\ Height(at(i)) = i  BY <1>1
<1> HIDE DEF at
<1>4. i = Height(tip) => at(i) = tip
  BY <1>2, <1>3, OneBlockPerHeight
<1>5. i = 1 <=> at(i) = GenesisHash
  BY <1>3, HeightStep
<1>6. ASSUME i > 1 PROVE previous_hash[at(i)] = at(i - 1)
  <2> DEFINE p == previous_hash[at(i)]
  <2>1. p \in Lineage[at(i)] /\ Height(at(i)) = Height(p) + 1 /\ Height(p) \in Nat
    BY <1>3, <1>5, <1>6, HeightStep
  <2>2. p \in Lineage[tip] /\ Height(p) = i - 1
    BY <1>2, <1>3, <2>1, LineageAssumption
  <2>3. i - 1 \in 1 .. Height(tip)  BY <1>2, <1>6
  <2>4. at(i - 1) \in Lineage[tip] /\ Height(at(i - 1)) = i - 1
    BY <1>1, <2>3
  <2> QED  BY <2>2, <2>4, OneBlockPerHeight
<1> QED  BY <1>3, <1>4, <1>5, <1>6 DEF at

(* On a cleared chain the genesis block is taken whatever the leaves are.  *)
LEMMA ReAddGenesis ==
    ASSUME NEW c, c = [EmptyChain EXCEPT !.leaves = {GenesisHash}]
    PROVE  add_block(c, GenesisHash) = PathChain({GenesisHash}, GenesisHash)
<1> DEFINE g == GenesisHash
<1>1. c = [blocks |-> EmptyMap, leaves |-> {g}, slots |-> EmptyMap]
  BY DEF EmptyChain
<1>2. /\ g \in Hash /\ previous_hash[g] = NoHash /\ NoHash # g
  BY BlockAssumption
<1>3. ~ IsOrphan(c, g)
  BY <1>1 DEF IsOrphan, Stored, EmptyMap
<1>4. InsertBlock(c.blocks, g) = [x \in {g} |-> {y \in {g} : previous_hash[y] = x}]
  BY <1>1, <1>2 DEF InsertBlock, EmptyMap
<1>5. InsertLeaf(c.leaves, g) = {g}
  BY <1>1 DEF InsertLeaf
<1>6. InsertSlot(c.slots, g)
         = [s \in {slot_number[x] : x \in {g}} |-> {x \in {g} : slot_number[x] = s}]
  BY <1>1 DEF InsertSlot, EmptyMap
<1> QED  BY <1>3, <1>4, <1>5, <1>6 DEF add_block, PathChain

(* Added to the branch of its parent, a block makes that branch its own.   *)
LEMMA ReAddNext ==
    ASSUME NEW h \in Hash, h # GenesisHash
    PROVE  add_block(PathChain(Lineage[previous_hash[h]], previous_hash[h]), h)
              = PathChain(Lineage[h], h)
<1> DEFINE p == previous_hash[h]
           c == PathChain(Lineage[p], p)
<1>1. /\ p \in Hash /\ p \in Lineage[p] /\ h \notin Lineage[p] /\ p # h
      /\ Lineage[h] = Lineage[p] \cup {h}
      /\ Lineage[p] \subseteq Hash
  BY BlockAssumption, LineageAssumption, InOwnLineage
<1>2. ASSUME NEW y \in Lineage[p] PROVE previous_hash[y] # h
  <2>1. y \in Hash /\ Lineage[y] \subseteq Lineage[p] /\ NoHash # h
    BY <1>1, LineageAssumption, BlockAssumption
  <2>2. CASE y = GenesisHash  BY <2>1, <2>2, BlockAssumption
  <2>3. CASE y # GenesisHash  BY <1>1, <2>1, <2>3, HeightStep
  <2> QED  BY <2>2, <2>3
<1>3. /\ c.blocks = [x \in Lineage[p] |-> {y \in Lineage[p] : previous_hash[y] = x}]
      /\ c.leaves = {p}
      /\ c.slots = [s \in {slot_number[x] : x \in Lineage[p]} |->
                        {x \in Lineage[p] : slot_number[x] = s}]
      /\ Stored(c) = Lineage[p]
  BY DEF PathChain, Stored
<1>4. ~ IsOrphan(c, h)  BY <1>1, <1>3 DEF IsOrphan
<1>5. InsertBlock(c.blocks, h)
         = [x \in Lineage[h] |-> {y \in Lineage[h] : previous_hash[y] = x}]
  <2>1. \A x \in Lineage[h] :
            InsertBlock(c.blocks, h)[x] = {y \in Lineage[h] : previous_hash[y] = x}
    BY <1>1, <1>2, <1>3 DEF InsertBlock
  <2>2. InsertBlock(c.blocks, h)
           = [x \in Lineage[h] |-> InsertBlock(c.blocks, h)[x]]
    BY <1>1, <1>3 DEF InsertBlock
  <2> QED  BY <2>1, <2>2
<1>6. InsertLeaf(c.leaves, h) = {h}
  BY <1>3 DEF InsertLeaf
<1>7. InsertSlot(c.slots, h)
         = [s \in {slot_number[x] : x \in Lineage[h]} |->
                {x \in Lineage[h] : slot_number[x] = s}]
  <2> DEFINE S == {slot_number[x] : x \in Lineage[h]}
  <2>1. S = DOMAIN c.slots \cup {slot_number[h]}  BY <1>1, <1>3
  <2>2. \A s \in S : InsertSlot(c.slots, h)[s] = {x \in Lineage[h] : slot_number[x] = s}
    BY <1>1, <1>3, <2>1 DEF InsertSlot
  <2>3. InsertSlot(c.slots, h) = [s \in S |-> InsertSlot(c.slots, h)[s]]
    BY <2>1 DEF InsertSlot
  <2> QED  BY <2>2, <2>3
<1> QED  BY <1>4, <1>5, <1>6, <1>7 DEF add_block, PathChain

(* The loop of resolve_chain, from its recursive definition: after i       *)
(* rounds the chain is the branch of its i-th block.  The definition is    *)
(* sound because that very function satisfies it; it is the only one that  *)
(* does because a least round in which another differs would not.          *)
LEMMA ReplayedIs ==
    ASSUME NEW tip \in Hash, NEW i \in 1 .. Height(tip)
    PROVE  LET h == oldest_first(Lineage[tip])[i]
           IN  Replayed(Lineage[tip])[i] = PathChain(Lineage[h], h)
<1> DEFINE n == Height(tip)
           path == Lineage[tip]
           at == oldest_first(path)
           IsLoop(f) == f = [k \in 0 .. n |->
               IF k = 0 THEN Cleared(path) ELSE add_block(f[k - 1], at[k])]
           r == Replayed(path)
           w == [k \in 0 .. n |->
               IF k = 0 THEN Cleared(path) ELSE PathChain(Lineage[at[k]], at[k])]
<1>1. n \in Nat /\ n >= 1  BY HeightStep
<1>2. Cleared(path) = [EmptyChain EXCEPT !.leaves = {GenesisHash}]
  <2>1. 1 \in 1 .. n  BY <1>1
  <2> QED  BY <2>1, OldestFirst DEF Cleared
<1>3. ASSUME NEW k \in 1 .. n PROVE w[k] = add_block(w[k - 1], at[k])
  <2>1. k \in 0 .. n /\ k - 1 \in 0 .. n /\ k # 0  BY <1>1
  <2>2. w[k] = PathChain(Lineage[at[k]], at[k])  BY <2>1
  <2>3. CASE k = 1
    <3>1. at[k] = GenesisHash  BY <2>3, OldestFirst
    <3>2. w[k - 1] = Cleared(path)  BY <2>1, <2>3
    <3>3. Lineage[at[k]] = {GenesisHash}  BY <3>1, LineageAssumption
    <3> QED  BY <1>2, <2>2, <3>1, <3>2, <3>3, ReAddGenesis
  <2>4. CASE k > 1
    <3>1. at[k] \in Hash /\ at[k] # GenesisHash /\ previous_hash[at[k]] = at[k - 1]
      BY <2>4, OldestFirst
    <3>2. w[k - 1] = PathChain(Lineage[at[k - 1]], at[k - 1])  BY <2>1, <2>4
    <3> HIDE DEF w, at
    <3> QED  BY <2>2, <3>1, <3>2, ReAddNext
  <2> QED  BY <2>3, <2>4, <1>1
<1>4. IsLoop(w)
  <2>1. \A k \in 0 .. n : k = 0 \/ k \in 1 .. n  BY <1>1
  <2>2. \A k \in 0 .. n :
            w[k] = IF k = 0 THEN Cleared(path) ELSE add_block(w[k - 1], at[k])
    BY <1>1, <1>3, <2>1
  <2>3. w = [k \in 0 .. n |-> w[k]]  OBVIOUS
  <2> HIDE DEF w
  <2> QED  BY <2>2, <2>3
<1>5. r = CHOOSE f : IsLoop(f)
  BY DEF Replayed, Height
<1>6. IsLoop(r)
  <2> HIDE DEF IsLoop, r, w
  <2> QED  BY <1>4, <1>5
<1>7. \A k \in 0 .. n : r[k] = w[k]
  <2> DEFINE S == {k \in 0 .. n : r[k] # w[k]}
  <2>1. SUFFICES ASSUME S # {} PROVE FALSE  OBVIOUS
  <2>2. S \subseteq Nat  BY <1>1
  <2>3. PICK k \in S : \A m \in S : k <= m
    <3> HIDE DEF S
    <3> QED  BY <2>1, <2>2, LeastNat
  <2>4. k # 0
    <3> HIDE DEF r
    <3> QED  BY <1>1, <1>6, <2>3
  <2>5. k \in 1 .. n /\ k - 1 \in 0 .. n /\ ~ (k <= k - 1)
    BY <1>1, <2>2, <2>3, <2>4
  <2>6. r[k - 1] = w[k - 1]
    <3> HIDE DEF r, w
    <3> QED  BY <2>3, <2>5
  <2>7. r[k] = add_block(r[k - 1], at[k])
    <3> HIDE DEF r, at
    <3> QED  BY <1>6, <2>3, <2>4
  <2> HIDE DEF r, w, at
  <2> QED  BY <1>3, <2>3, <2>5, <2>6, <2>7
<1>8. i \in 0 .. n /\ i # 0  BY <1>1
<1>9. w[i] = PathChain(Lineage[at[i]], at[i])  BY <1>8
<1> HIDE DEF w, r
<1> QED  BY <1>7, <1>8, <1>9 DEF r

(* Adding the blocks of a branch back one by one gives PathChain.          *)
LEMMA ReplayIsPathChain ==
    ASSUME NEW tip \in Hash
    PROVE  Replay(Lineage[tip]) = PathChain(Lineage[tip], tip)
<1>1. Height(tip) \in 1 .. Height(tip)  BY HeightStep
<1>2. oldest_first(Lineage[tip])[Height(tip)] = tip
  BY <1>1, OldestFirst
<1>3. Replayed(Lineage[tip])[Height(tip)] = PathChain(Lineage[tip], tip)
  BY <1>1, <1>2, ReplayedIs
<1> QED  BY <1>3 DEF Replay, Height

=============================================================================
