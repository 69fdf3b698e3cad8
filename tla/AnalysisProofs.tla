--------------------------- MODULE AnalysisProofs ---------------------------
(***************************************************************************)
(* Proofs about Analysis: what the trunk of a resolved chain is, and what  *)
(* the edit score of two branches measures, for every universe of blocks.  *)
(***************************************************************************)
EXTENDS Analysis, ChainStoreProofs

-----------------------------------------------------------------------------
(* The logarithm. *)

(* A logarithm of at least 1 from 2 on, and never more than half: the      *)
(* subtraction of is_trunk_tall, on unsigned numbers, does not wrap.       *)
LEMMA Log2Bounds ==
    ASSUME NEW n \in Nat
    PROVE  /\ log2(n) \in Nat
           /\ n >= 2 => log2(n) >= 1
           /\ 2 * log2(n) <= n
<1> DEFINE IsLog(f, m) == f = [k \in 0 .. m |-> IF k <= 1 THEN 0 ELSE 1 + f[k \div 2]]
           r == CHOOSE f : IsLog(f, n)
<1>1. ASSUME NEW k \in Nat, k >= 2
      PROVE  k \div 2 \in Nat /\ k \div 2 < k /\ 2 * (k \div 2) <= k /\ k \div 2 >= 1
  BY <1>1
<1>2. \E f : IsLog(f, n)
  <2> DEFINE S == {m \in Nat : ~ \E f : IsLog(f, m)}
  <2>1. SUFFICES ASSUME S # {} PROVE FALSE  OBVIOUS
  <2>2. PICK m \in S : \A j \in S : m <= j
    <3>1. S \subseteq Nat  OBVIOUS
    <3> HIDE DEF S
    <3> QED  BY <2>1, <3>1, LeastNat
  <2>3. m \in Nat  OBVIOUS
  <2>4. CASE m = 0
    <3>1. 0 .. 0 = {0}  OBVIOUS
    <3>2. IsLog([k \in 0 .. m |-> 0], m)  BY <2>4, <3>1
    <3> HIDE DEF IsLog
    <3> QED  BY <3>2, <2>2
  <2>5. CASE m # 0
    <3>1. m - 1 \in Nat /\ ~ (m <= m - 1)  BY <2>3, <2>5
    <3>2. PICK f : IsLog(f, m - 1)
      <4> HIDE DEF IsLog
      <4> QED  BY <3>1, <2>2
    <3> DEFINE g == [k \in 0 .. m |->
                        IF k = m THEN (IF m <= 1 THEN 0 ELSE 1 + f[m \div 2]) ELSE f[k]]
    <3>3. ASSUME NEW k \in 0 .. m
          PROVE  g[k] = IF k <= 1 THEN 0 ELSE 1 + g[k \div 2]
      <4>1. CASE k <= 1  BY <2>3, <3>1, <3>2, <4>1
      <4>2. CASE k >= 2
        <5>1. k \div 2 \in 0 .. m /\ k \div 2 # m  BY <1>1, <2>3, <4>2
        <5>2. g[k \div 2] = f[k \div 2]  BY <5>1
        <5>3. k # m => f[k] = 1 + f[k \div 2]  BY <2>3, <3>1, <3>2, <4>2
        <5> QED  BY <4>2, <5>2, <5>3
      <4> QED  BY <2>3, <4>1, <4>2
    <3>4. g = [k \in 0 .. m |-> g[k]]  OBVIOUS
    <3>5. IsLog(g, m)
      <4> HIDE DEF g
      <4> QED  BY <3>3, <3>4
    <3> HIDE DEF IsLog, g
    <3> QED  BY <3>5, <2>2
  <2> QED  BY <2>4, <2>5
<1>3. IsLog(r, n)
  <2> HIDE DEF IsLog
  <2> QED  BY <1>2
<1>4. log2(n) = r[n]  BY DEF log2
<1> HIDE DEF r
<1>5. ASSUME NEW k \in 0 .. n
      PROVE  r[k] \in Nat /\ (k >= 2 => r[k] >= 1) /\ 2 * r[k] <= k
  <2> DEFINE Good(j) == r[j] \in Nat /\ (j >= 2 => r[j] >= 1) /\ 2 * r[j] <= j
             S == {j \in 0 .. n : ~ Good(j)}
  <2>1. SUFFICES ASSUME S # {} PROVE FALSE  OBVIOUS
  <2>2. PICK j \in S : \A i \in S : j <= i
    <3>1. S \subseteq Nat  OBVIOUS
    <3> HIDE DEF S
    <3> QED  BY <2>1, <3>1, LeastNat
  <2>3. j \in 0 .. n /\ j \in Nat /\ ~ Good(j)  OBVIOUS
  <2>4. r[j] = IF j <= 1 THEN 0 ELSE 1 + r[j \div 2]
    BY <1>3, <2>3
  <2>5. CASE j <= 1
    BY <2>3, <2>4, <2>5
  <2>6. CASE j >= 2
    <3> DEFINE i == j \div 2
    <3>1. i \in Nat /\ i < j /\ 2 * i <= j /\ i >= 1  BY <1>1, <2>3, <2>6
    <3>2. i \in 0 .. n  BY <2>3, <3>1
    <3>3. ~ (j <= i)  BY <2>3, <3>1
    <3>4. Good(i)
      <4> HIDE DEF Good, i
      <4> QED  BY <2>2, <3>2, <3>3
    <3>5. r[j] = 1 + r[i]  BY <2>3, <2>4, <2>6
    <3>6. r[i] \in Nat /\ 2 * r[i] <= i /\ (i >= 2 => r[i] >= 1)  BY <3>4
    <3> HIDE DEF i
    <3>7. 2 * r[j] <= j
      BY <2>3, <2>6, <3>1, <3>5, <3>6
    <3> QED  BY <2>3, <3>5, <3>6, <3>7
  <2> QED  BY <2>3, <2>5, <2>6
<1> QED  BY <1>4, <1>5

-----------------------------------------------------------------------------
(* The trunk of one branch. *)

(* Branch lists the blocks of a lineage from the tip down.                 *)
LEMMA BranchIs ==
    ASSUME NEW tip \in Hash
    PROVE  Branch(tip) =
              [i \in 1 .. Height(tip) |-> oldest_first(Lineage[tip])[Height(tip) + 1 - i]]
<1> DEFINE n == Height(tip)
           at(k) == oldest_first(Lineage[tip])[k]
<1>1. ASSUME NEW i \in 1 .. n
      PROVE  (CHOOSE a \in Lineage[tip] : Height(a) = n + 1 - i) = at(n + 1 - i)
  <2>1. n \in Nat /\ n + 1 - i \in 1 .. n  BY HeightStep
  <2>2. at(n + 1 - i) \in Lineage[tip] /\ Height(at(n + 1 - i)) = n + 1 - i
    BY <2>1, OldestFirst
  <2>3. \A a \in Lineage[tip] : Height(a) = n + 1 - i => a = at(n + 1 - i)
    BY <2>2, OneBlockPerHeight
  <2> HIDE DEF at, n
  <2> QED  BY <2>2, <2>3
<1>2. Branch(tip) = [i \in 1 .. n |-> CHOOSE a \in Lineage[tip] : Height(a) = n + 1 - i]
  BY DEF Branch, Height
<1> HIDE DEF at, n
<1>3. Branch(tip) = [i \in 1 .. n |-> at(n + 1 - i)]
  BY <1>1, <1>2
<1> QED  BY <1>3 DEF at, n

(* In a chain of one branch every block but the tip has the next block for *)
(* its only child.                                                         *)
LEMMA ChildrenOnBranch ==
    ASSUME NEW tip \in Hash, NEW k \in 1 .. Height(tip)
    PROVE  LET at == oldest_first(Lineage[tip])
           IN  PathChain(Lineage[tip], tip).blocks[at[k]]
                  = IF k = Height(tip) THEN {} ELSE {at[k + 1]}
<1> DEFINE n == Height(tip)
           at(i) == oldest_first(Lineage[tip])[i]
<1>1. n \in Nat /\ n >= 1 /\ k \in Nat /\ k >= 1 /\ k <= n  BY HeightStep
<1>2. at(k) \in Lineage[tip] /\ at(k) \in Hash /\ Height(at(k)) = k  BY OldestFirst
<1>3. PathChain(Lineage[tip], tip).blocks[at(k)]
         = {y \in Lineage[tip] : previous_hash[y] = at(k)}
  BY <1>2 DEF PathChain
<1>4. ASSUME NEW y \in Lineage[tip], previous_hash[y] = at(k)
      PROVE  y \in Hash /\ Height(y) = k + 1 /\ k + 1 \in 1 .. n
  <2>1. y \in Hash /\ Height(y) <= n  BY HeightMonotone
  <2>2. y # GenesisHash  BY <1>2, <1>4, BlockAssumption
  <2>3. Height(y) = k + 1
    BY <1>2, <1>4, <2>1, <2>2, HeightStep
  <2> QED  BY <1>1, <2>1, <2>3
<1>5. CASE k = n
  <2>1. ~ (k + 1 \in 1 .. n)  BY <1>1, <1>5
  <2> HIDE DEF at, n
  <2>2. {y \in Lineage[tip] : previous_hash[y] = at(k)} = {}
    BY <1>4, <2>1
  <2> QED  BY <1>3, <1>5, <2>2 DEF at, n
<1>6. CASE k # n
  <2>1. k + 1 \in 1 .. n /\ k + 1 > 1 /\ k + 1 - 1 = k  BY <1>1, <1>6
  <2>2. /\ at(k + 1) \in Lineage[tip] /\ Height(at(k + 1)) = k + 1
        /\ previous_hash[at(k + 1)] = at(k)
    BY <2>1, OldestFirst
  <2>3. \A y \in Lineage[tip] : Height(y) = k + 1 => y = at(k + 1)
    BY <2>2, OneBlockPerHeight
  <2> HIDE DEF at, n
  <2>4. {y \in Lineage[tip] : previous_hash[y] = at(k)} = {at(k + 1)}
    BY <1>4, <2>2, <2>3
  <2> QED  BY <1>3, <1>6, <2>4 DEF at, n
<1> QED  BY <1>5, <1>6

(* The loop of get_trunk over one branch visits every block but the tip.   *)
LEMMA TrunkOfBranch ==
    ASSUME NEW tip \in Hash
    PROVE  get_trunk(PathChain(Lineage[tip], tip))
              = [i \in 1 .. Height(tip) - 1 |-> oldest_first(Lineage[tip])[i]]
<1> DEFINE n == Height(tip)
           path == Lineage[tip]
           at == oldest_first(path)
           c == PathChain(path, tip)
           IsUp(f) == f = [h \in Stored(c) |->
               IF Cardinality(c.blocks[h]) = 1
               THEN <<h>> \o f[CHOOSE child \in c.blocks[h] : TRUE]
               ELSE <<>>]
           r == CHOOSE f : IsUp(f)
           above(k) == [i \in 1 .. n - k |-> at[k + i - 1]]
           w == [h \in Stored(c) |-> above(Height(h))]
<1>1. n \in Nat /\ n >= 1  BY HeightStep
<1>2. Stored(c) = path  BY DEF PathChain, Stored
<1>3. ASSUME NEW k \in 1 .. n
      PROVE  /\ at[k] \in path
             /\ Height(at[k]) = k
             /\ k = 1 <=> at[k] = GenesisHash
             /\ c.blocks[at[k]] = IF k = n THEN {} ELSE {at[k + 1]}
  <2>1. c.blocks[at[k]] = IF k = n THEN {} ELSE {at[k + 1]}
    BY ChildrenOnBranch
  <2>2. at[k] \in path /\ Height(at[k]) = k /\ (k = 1 <=> at[k] = GenesisHash)
    BY OldestFirst
  <2> HIDE DEF at, c, n
  <2> QED  BY <2>1, <2>2
<1>4. ASSUME NEW h \in path
      PROVE  Height(h) \in 1 .. n /\ h = at[Height(h)]
  <2>1. Height(h) \in 1 .. n  BY HeightMonotone, HeightStep
  <2>2. at[Height(h)] \in path /\ Height(at[Height(h)]) = Height(h)  BY <1>3, <2>1
  <2> HIDE DEF at
  <2> QED  BY <2>1, <2>2, OneBlockPerHeight
<1>5. ASSUME NEW k \in 1 .. n
      PROVE  /\ k = n => Cardinality(c.blocks[at[k]]) # 1
             /\ k # n => /\ Cardinality(c.blocks[at[k]]) = 1
                         /\ (CHOOSE child \in c.blocks[at[k]] : TRUE) = at[k + 1]
  <2>1. c.blocks[at[k]] = IF k = n THEN {} ELSE {at[k + 1]}  BY <1>3
  <2> HIDE DEF at, c, n
  <2> QED  BY <2>1, FS_EmptySet, FS_Singleton
<1>6. above(n) = <<>>
  <2>1. 1 .. n - n = {}  BY <1>1
  <2> QED  BY <2>1
<1>7. ASSUME NEW k \in 1 .. n, k # n
      PROVE  above(k) = <<at[k]>> \o above(k + 1)
  <2> DEFINE m == n - (k + 1)
  <2>1. m \in Nat /\ k \in Nat /\ n - k = m + 1  BY <1>1, <1>7
  <2>2. above(k + 1) = [i \in 1 .. m |-> at[k + i]]
    <3>1. \A i \in 1 .. m : k + 1 + i - 1 = k + i  BY <2>1
    <3> HIDE DEF at
    <3> QED  BY <3>1
  <2>3. above(k + 1) \in Seq({at[k + i] : i \in 1 .. m}) /\ Len(above(k + 1)) = m
    <3> HIDE DEF at
    <3> QED  BY <2>1, <2>2
  <2>4. <<at[k]>> \o above(k + 1)
           = [i \in 1 .. m + 1 |-> IF i = 1 THEN at[k] ELSE above(k + 1)[i - 1]]
    <3> HIDE DEF at, above
    <3> QED  BY <2>1, <2>3
  <2>5. \A i \in 1 .. m + 1 :
            (IF i = 1 THEN at[k] ELSE above(k + 1)[i - 1]) = at[k + i - 1]
    <3> SUFFICES ASSUME NEW i \in 1 .. m + 1
                 PROVE  (IF i = 1 THEN at[k] ELSE above(k + 1)[i - 1]) = at[k + i - 1]
      OBVIOUS
    <3>1. CASE i = 1  BY <2>1, <3>1
    <3>2. CASE i # 1
      <4>1. i - 1 \in 1 .. m /\ k + (i - 1) = k + i - 1  BY <2>1, <3>2
      <4> HIDE DEF at, above
      <4> QED  BY <2>2, <3>2, <4>1
    <3> QED  BY <3>1, <3>2
  <2>6. above(k) = [i \in 1 .. m + 1 |-> at[k + i - 1]]
    BY <2>1
  <2> HIDE DEF at, above, m
  <2> QED  BY <2>4, <2>5, <2>6
<1>8. IsUp(w)
  <2>1. ASSUME NEW h \in path
        PROVE  w[h] = IF Cardinality(c.blocks[h]) = 1
                      THEN <<h>> \o w[CHOOSE child \in c.blocks[h] : TRUE]
                      ELSE <<>>
    <3> DEFINE k == Height(h)
    <3>1. k \in 1 .. n /\ h = at[k]  BY <1>4
    <3>2. w[h] = above(k)  BY <1>2
    <3>3. CASE k = n
      <4> HIDE DEF at, c, w, above, n, k
      <4> QED  BY <1>5, <1>6, <3>1, <3>2, <3>3
    <3>4. CASE k # n
      <4>1. k + 1 \in 1 .. n  BY <1>1, <3>1, <3>4
      <4>2. at[k + 1] \in path /\ Height(at[k + 1]) = k + 1  BY <1>3, <4>1
      <4>3. w[at[k + 1]] = above(k + 1)  BY <1>2, <4>2
      <4> HIDE DEF at, c, w, above, n, k
      <4> QED  BY <1>5, <1>7, <3>1, <3>2, <3>4, <4>3
    <3> QED  BY <3>3, <3>4
  <2>2. w = [h \in path |-> w[h]]  BY <1>2
  <2> HIDE DEF w, c
  <2> QED  BY <1>2, <2>1, <2>2
<1>9. IsUp(r)
  <2> HIDE DEF IsUp, w
  <2> QED  BY <1>8
<1>10. ASSUME NEW k \in 1 .. n PROVE r[at[k]] = above(k)
  <2> DEFINE S == {n - j : j \in {i \in 1 .. n : r[at[i]] # above(i)}}
  <2>1. SUFFICES ASSUME S # {} PROVE FALSE
    <3>1. r[at[k]] # above(k) => n - k \in S  OBVIOUS
    <3> HIDE DEF S, r, at, above
    <3> QED  BY <3>1
  <2>2. PICK d \in S : \A e \in S : d <= e
    <3>1. S \subseteq Nat
      <4> HIDE DEF r, at, above, n
      <4> QED  BY <1>1
    <3> HIDE DEF S
    <3> QED  BY <2>1, <3>1, LeastNat
  <2>3. PICK j \in 1 .. n : r[at[j]] # above(j) /\ d = n - j
    <3> HIDE DEF r, at, above
    <3> QED  BY <2>2
  <2>4. r[at[j]] = IF Cardinality(c.blocks[at[j]]) = 1
                   THEN <<at[j]>> \o r[CHOOSE child \in c.blocks[at[j]] : TRUE]
                   ELSE <<>>
    <3>1. at[j] \in Stored(c)  BY <1>2, <1>3
    <3> HIDE DEF r, at, c
    <3> QED  BY <1>9, <3>1
  <2>5. CASE j = n
    <3> HIDE DEF r, at, c, above, n
    <3> QED  BY <1>5, <1>6, <2>3, <2>4, <2>5
  <2>6. CASE j # n
    <3>1. j + 1 \in 1 .. n /\ ~ (n - j <= n - (j + 1))
      <4> HIDE DEF r, at, above, n
      <4> QED  BY <1>1, <2>3, <2>6
    <3>2. r[at[j + 1]] = above(j + 1)
      <4>1. r[at[j + 1]] # above(j + 1) => n - (j + 1) \in S  BY <3>1
      <4> HIDE DEF S, r, at, above
      <4> QED  BY <2>2, <2>3, <3>1, <4>1
    <3> HIDE DEF r, at, c, above, n
    <3> QED  BY <1>5, <1>7, <2>3, <2>4, <2>6, <3>2
  <2> QED  BY <2>5, <2>6
<1>11. 1 \in 1 .. n /\ at[1] = GenesisHash /\ GenesisHash \in path
  <2>1. 1 \in 1 .. n  BY <1>1
  <2> HIDE DEF at, n, c
  <2> QED  BY <2>1, <1>3
<1>12. get_trunk(c) = r[GenesisHash]
  <2>1. GenesisHash \in path  BY <1>11
  <2>2. \A h \in path : previous_hash[h] = NoHash <=> h = GenesisHash
    BY LineageAssumption, BlockAssumption
  <2>3. (CHOOSE h \in Stored(c) : previous_hash[h] = NoHash) = GenesisHash
    <3> HIDE DEF c
    <3> QED  BY <1>2, <2>1, <2>2
  <2>4. get_trunk(c) = r[CHOOSE h \in Stored(c) : previous_hash[h] = NoHash]
    BY DEF get_trunk
  <2> HIDE DEF r, c
  <2> QED  BY <2>3, <2>4
<1>13. get_trunk(c) = above(1)
  <2> HIDE DEF r, at, c, above
  <2> QED  BY <1>10, <1>12, <1>11
<1>14. \A i \in 1 .. n - 1 : 1 + i - 1 = i  BY <1>1
<1> HIDE DEF at, c, n
<1> QED  BY <1>13, <1>14 DEF at, c, n

(* The branch without its tip, turned round, is the trunk.                 *)
LEMMA TrunkIsBranch ==
    ASSUME NEW tip \in Hash
    PROVE  LET trunk == get_trunk(PathChain(Lineage[tip], tip))
           IN  /\ trunk = Reverse(Tail(Branch(tip)))
               /\ tip # GenesisHash => is_trunk_tall(trunk, Branch(tip))
<1> DEFINE n == Height(tip)
           at(k) == oldest_first(Lineage[tip])[k]
           trunk == get_trunk(PathChain(Lineage[tip], tip))
<1>1. n \in Nat /\ n >= 1 /\ (tip # GenesisHash => n >= 2)
  BY HeightStep
<1>2. /\ trunk = [i \in 1 .. n - 1 |-> at(i)]
      /\ Branch(tip) = [i \in 1 .. n |-> at(n + 1 - i)]
  BY TrunkOfBranch, BranchIs
<1>3. \A i \in 1 .. n : at(n + 1 - i) \in Hash
  BY <1>1, OldestFirst
<1> HIDE DEF n, at, trunk
<1>4. Branch(tip) \in Seq(Hash) /\ Len(Branch(tip)) = n
  BY <1>1, <1>2, <1>3
<1>5. /\ Len(Tail(Branch(tip))) = n - 1
      /\ \A i \in 1 .. n - 1 : Tail(Branch(tip))[i] = at(n - i)
  <2>1. \A i \in 1 .. n - 1 : i + 1 \in 1 .. n /\ n + 1 - (i + 1) = n - i  BY <1>1
  <2>2. Branch(tip) # <<>>  BY <1>1, <1>4
  <2>3. /\ Len(Tail(Branch(tip))) = n - 1
        /\ \A i \in 1 .. n - 1 : Tail(Branch(tip))[i] = Branch(tip)[i + 1]
    BY <1>1, <1>4, <2>2
  <2> QED  BY <1>2, <2>1, <2>3
<1>6. Reverse(Tail(Branch(tip))) = [i \in 1 .. n - 1 |-> Tail(Branch(tip))[n - 1 - i + 1]]
  BY <1>5 DEF Reverse
<1>7. \A i \in 1 .. n - 1 : Tail(Branch(tip))[n - 1 - i + 1] = at(i)
  <2>1. \A i \in 1 .. n - 1 : n - 1 - i + 1 \in 1 .. n - 1 /\ n - (n - 1 - i + 1) = i
    BY <1>1
  <2> QED  BY <1>5, <2>1
<1>8. trunk = Reverse(Tail(Branch(tip)))
  BY <1>2, <1>6, <1>7
<1>9. ASSUME tip # GenesisHash PROVE is_trunk_tall(trunk, Branch(tip))
  <2>1. Len(trunk) = n - 1  BY <1>1, <1>2
  <2>2. log2(n) \in Nat /\ log2(n) >= 1  BY <1>1, <1>9, Log2Bounds
  <2> QED  BY <1>1, <1>4, <2>1, <2>2 DEF is_trunk_tall
<1> QED  BY <1>8, <1>9 DEF trunk

(* A fork resolution leaves a chain whose trunk is the whole main chain    *)
(* but for its tip, and a tall one: chain.rs:607-628.                      *)
THEOREM TrunkIsMainChain == Spec => TrunkAfterResolve
<1> DEFINE Whole ==
        Resolve =>
            \A tip \in get_chain_tip(chain') :
                /\ get_trunk(chain') = Reverse(Tail(Branch(tip)))
                /\ tip # GenesisHash => is_trunk_tall(get_trunk(chain'), Branch(tip))
<1>1. ASSUME IInv, Resolve, NEW tip \in get_chain_tip(chain')
      PROVE  tip \in Hash /\ chain' = PathChain(Lineage[tip], tip)
  <2>1. PICK t \in get_chain_tip(chain) : chain' = resolve_chain(chain, t)
    BY <1>1 DEF Resolve
  <2>2. t \in Hash /\ Walk(chain, t) = Lineage[t]
    BY <1>1, TipIsHighest DEF IInv
  <2>3. chain' = PathChain(Lineage[t], t) /\ chain'.leaves = {t}
    BY <2>1, <2>2 DEF resolve_chain, PathChain
  <2> QED  BY <1>1, <2>2, <2>3 DEF get_chain_tip
<1>2. IInv => Whole
  BY <1>1, TrunkIsBranch
<1>3. IInv => [Whole]_vars
  BY <1>2
<1> HIDE DEF Whole
<1>4. Spec => [][Whole]_vars
  BY <1>3, Invariance, PTL
<1> QED  BY <1>4 DEF Whole, TrunkAfterResolve

-----------------------------------------------------------------------------
(* The edit distance of two branches. *)

Bigger(x, y) == IF x >= y THEN x ELSE y

Smaller(x, y) == IF x <= y THEN x ELSE y

Apart(x, y) == IF x >= y THEN x - y ELSE y - x

(* The distance of prefixes of length i and j of two sequences that share  *)
(* nothing but what follows their first p and q elements: as long as one   *)
(* prefix has nothing shared, all of it is substituted; beyond that, the   *)
(* shared parts can be matched instead, once they are lined up.            *)
Distance(p, q, i, j) ==
    IF i <= p \/ j <= q
    THEN Bigger(i, j)
    ELSE Smaller(Bigger(i, j), Bigger(p, q) + Apart(i - p, j - q))

(* Distance obeys the recurrence of the table: on its edges and where two  *)
(* elements match,                                                         *)
LEMMA DistanceMatches ==
    ASSUME NEW p \in Nat, NEW q \in Nat, NEW i \in Nat, NEW j \in Nat
    PROVE  /\ Distance(p, q, i, j) \in Nat
           /\ i = 0 \/ j = 0 => Distance(p, q, i, j) = i + j
           /\ i > p /\ j > q /\ i - p = j - q =>
                 Distance(p, q, i, j) = Distance(p, q, i - 1, j - 1)
BY DEF Distance, Bigger, Smaller, Apart

(* and where they do not.                                                  *)
LEMMA DistanceEdits ==
    ASSUME NEW p \in Nat, NEW q \in Nat, NEW i \in Nat, NEW j \in Nat,
           i > 0, j > 0, ~ (i > p /\ j > q /\ i - p = j - q)
    PROVE  Distance(p, q, i, j)
              = 1 + Smaller(Distance(p, q, i - 1, j - 1),
                            Smaller(Distance(p, q, i, j - 1), Distance(p, q, i - 1, j)))
BY DEF Distance, Bigger, Smaller, Apart

(* The least of three numbers.                                             *)
LEMMA MinOfThree ==
    ASSUME NEW x \in Nat, NEW y \in Nat, NEW z \in Nat
    PROVE  Min({x, y, z}) = Smaller(x, Smaller(y, z))
<1> DEFINE m == Smaller(x, Smaller(y, z))
<1>1. m \in {x, y, z} /\ \A k \in {x, y, z} : m <= k /\ k \in Nat
  BY DEF Smaller
<1> HIDE DEF m
<1>2. \A k \in {x, y, z} : (\A l \in {x, y, z} : k <= l) => k = m
  BY <1>1
<1> DEFINE S == {x, y, z}
<1>3. Min(S) = CHOOSE k \in S : \A l \in S : k <= l
  BY DEF Min
<1> HIDE DEF S
<1>4. m \in S /\ (\A l \in S : m <= l) /\ \A k \in S : (\A l \in S : k <= l) => k = m
  BY <1>1, <1>2 DEF S
<1>5. Min(S) = m
  BY <1>3, <1>4
<1> QED  BY <1>5 DEF S, m

(* The last s elements of a and of b are the same, and no others are: p of *)
(* them come before in a, q in b.                                          *)
ShareSuffix(a, b, p, q, s) ==
    /\ Len(a) = p + s
    /\ Len(b) = q + s
    /\ \A i \in 1 .. p + s, j \in 1 .. q + s :
           a[i] = b[j] <=> i > p /\ j > q /\ i - p = j - q

(* Such sequences are as far apart as the longer of the parts they do not  *)
(* share is long.                                                          *)
LEMMA SharedSuffixDistance ==
    ASSUME NEW a, NEW b, NEW p \in Nat, NEW q \in Nat, NEW s \in Nat \ {0},
           ShareSuffix(a, b, p, q, s)
    PROVE  levenshtein_distance_vec(a, b) = Bigger(p, q)
<1> DEFINE n == p + s
           m == q + s
           cell == (0 .. n) \X (0 .. m)
           Entry(f, i, j) ==
               IF i = 0 \/ j = 0 THEN i + j
               ELSE IF a[i] = b[j] THEN f[<<i - 1, j - 1>>]
               ELSE 1 + Min({f[<<i - 1, j - 1>>], f[<<i, j - 1>>], f[<<i - 1, j>>]})
           IsTable(f) == f = [c \in cell |-> Entry(f, c[1], c[2])]
           r == CHOOSE f : IsTable(f)
           w == [c \in cell |-> Distance(p, q, c[1], c[2])]
<1>1. n \in Nat /\ m \in Nat /\ n >= 1 /\ m >= 1  OBVIOUS
<1>2. ASSUME NEW i \in 0 .. n, NEW j \in 0 .. m
      PROVE  w[<<i, j>>] = Distance(p, q, i, j)
  OBVIOUS
<1>3. ASSUME NEW i \in 1 .. n, NEW j \in 1 .. m
      PROVE  /\ i - 1 \in 0 .. n /\ i \in 0 .. n
             /\ j - 1 \in 0 .. m /\ j \in 0 .. m
  BY <1>1
<1> HIDE DEF w, n, m
<1>4. ASSUME NEW i \in 0 .. n, NEW j \in 0 .. m
      PROVE  w[<<i, j>>] = Entry(w, i, j)
  <2>1. i \in Nat /\ j \in Nat  BY <1>1
  <2>2. CASE i = 0 \/ j = 0
    <3>1. Distance(p, q, i, j) = i + j  BY <2>1, <2>2, DistanceMatches
    <3> QED  BY <2>2, <3>1, <1>2
  <2>3. CASE i # 0 /\ j # 0
    <3>1. i \in 1 .. n /\ j \in 1 .. m  BY <1>1, <2>3
    <3>2. a[i] = b[j] <=> i > p /\ j > q /\ i - p = j - q
      BY <3>1 DEF n, m, ShareSuffix
    <3>3. /\ w[<<i, j>>] = Distance(p, q, i, j)
          /\ w[<<i - 1, j - 1>>] = Distance(p, q, i - 1, j - 1)
          /\ w[<<i, j - 1>>] = Distance(p, q, i, j - 1)
          /\ w[<<i - 1, j>>] = Distance(p, q, i - 1, j)
      BY <1>2, <1>3, <3>1
    <3>4. CASE a[i] = b[j]
      BY <2>1, <2>3, <3>2, <3>3, <3>4, DistanceMatches
    <3>5. CASE a[i] # b[j]
      <4> DEFINE x == Distance(p, q, i - 1, j - 1)
                 y == Distance(p, q, i, j - 1)
                 z == Distance(p, q, i - 1, j)
      <4>1. /\ x \in Nat /\ y \in Nat /\ z \in Nat
            /\ Distance(p, q, i, j) = 1 + Smaller(x, Smaller(y, z))
        <5>1. i > 0 /\ j > 0 /\ ~ (i > p /\ j > q /\ i - p = j - q)
          BY <2>1, <2>3, <3>2, <3>5
        <5>2. i - 1 \in Nat /\ j - 1 \in Nat  BY <2>1, <2>3
        <5>3. x \in Nat /\ y \in Nat /\ z \in Nat
          BY <2>1, <5>2, DistanceMatches
        <5>4. Distance(p, q, i, j) = 1 + Smaller(x, Smaller(y, z))
          BY <2>1, <5>1, DistanceEdits
        <5> QED  BY <5>3, <5>4
      <4> HIDE DEF x, y, z
      <4>2. Min({x, y, z}) = Smaller(x, Smaller(y, z))
        BY <4>1, MinOfThree
      <4> QED  BY <2>3, <3>3, <3>5, <4>1, <4>2 DEF x, y, z
    <3> QED  BY <3>4, <3>5
  <2> QED  BY <2>2, <2>3
<1>5. IsTable(w)
  <2>1. \A c \in cell : c[1] \in 0 .. n /\ c[2] \in 0 .. m /\ c = <<c[1], c[2]>>
    OBVIOUS
  <2>2. \A c \in cell : w[c] = Entry(w, c[1], c[2])
    <3> SUFFICES ASSUME NEW c \in cell PROVE w[c] = Entry(w, c[1], c[2])
      OBVIOUS
    <3> HIDE DEF Entry
    <3>1. w[<<c[1], c[2]>>] = Entry(w, c[1], c[2])  BY <1>4, <2>1
    <3> QED  BY <2>1, <3>1
  <2>3. w = [c \in cell |-> w[c]]  BY DEF w
  <2> QED  BY <2>2, <2>3
<1>6. IsTable(r)
  <2> HIDE DEF IsTable
  <2> QED  BY <1>5
<1>7. levenshtein_distance_vec(a, b) = r[<<n, m>>]
  BY DEF levenshtein_distance_vec, n, m, ShareSuffix
<1> HIDE DEF r
<1>8. ASSUME NEW i \in 0 .. n, NEW j \in 0 .. m
      PROVE  r[<<i, j>>] = Entry(r, i, j)
  <2>1. <<i, j>> \in cell /\ <<i, j>>[1] = i /\ <<i, j>>[2] = j  OBVIOUS
  <2> QED  BY <1>6, <2>1
<1>9. ASSUME NEW i \in 0 .. n, NEW j \in 0 .. m
      PROVE  r[<<i, j>>] = w[<<i, j>>]
  <2> DEFINE Wrong(k, l) == r[<<k, l>>] # w[<<k, l>>]
             S == {t \in Nat : \E k \in 0 .. n, l \in 0 .. m : Wrong(k, l) /\ t = k + l}
  <2> HIDE DEF Wrong
  <2>1. SUFFICES ASSUME S # {} PROVE FALSE
    <3>1. i + j \in Nat  BY <1>1
    <3>2. Wrong(i, j) => i + j \in S  BY <3>1
    <3> HIDE DEF S
    <3> QED  BY <3>2 DEF Wrong
  <2>2. PICK t \in S : \A u \in S : t <= u
    <3>1. S \subseteq Nat  OBVIOUS
    <3> HIDE DEF S
    <3> QED  BY <2>1, <3>1, LeastNat
  <2>3. PICK k \in 0 .. n, l \in 0 .. m : Wrong(k, l) /\ t = k + l
    BY <2>2
  <2>4. ASSUME NEW x \in 0 .. n, NEW y \in 0 .. m, x + y < k + l
        PROVE  r[<<x, y>>] = w[<<x, y>>]
    <3>1. x + y \in Nat /\ ~ (t <= x + y)  BY <1>1, <2>3, <2>4
    <3>2. Wrong(x, y) => x + y \in S  BY <3>1
    <3> HIDE DEF S
    <3> QED  BY <2>2, <3>1, <3>2 DEF Wrong
  <2> HIDE DEF S
  <2>5. CASE k = 0 \/ l = 0
    <3>1. r[<<k, l>>] = k + l  BY <1>8, <2>5
    <3>2. w[<<k, l>>] = k + l  BY <1>4, <2>5
    <3> QED  BY <2>3, <3>1, <3>2 DEF Wrong
  <2>6. CASE k # 0 /\ l # 0
    <3>1. k \in 1 .. n /\ l \in 1 .. m  BY <1>1, <2>3, <2>6
    <3>2. /\ k - 1 + (l - 1) < k + l
          /\ k + (l - 1) < k + l
          /\ k - 1 + l < k + l
      BY <1>1, <2>3
    <3>3. /\ r[<<k - 1, l - 1>>] = w[<<k - 1, l - 1>>]
          /\ r[<<k, l - 1>>] = w[<<k, l - 1>>]
          /\ r[<<k - 1, l>>] = w[<<k - 1, l>>]
      BY <1>3, <2>4, <3>1, <3>2
    <3>4. r[<<k, l>>] = w[<<k, l>>]
      <4>1. /\ r[<<k, l>>] =
                   IF a[k] = b[l] THEN r[<<k - 1, l - 1>>]
                   ELSE 1 + Min({r[<<k - 1, l - 1>>], r[<<k, l - 1>>], r[<<k - 1, l>>]})
            /\ w[<<k, l>>] =
                   IF a[k] = b[l] THEN w[<<k - 1, l - 1>>]
                   ELSE 1 + Min({w[<<k - 1, l - 1>>], w[<<k, l - 1>>], w[<<k - 1, l>>]})
        BY <1>4, <1>8, <2>3, <2>6
      <4> QED  BY <3>3, <4>1
    <3> QED  BY <2>3, <3>4 DEF Wrong
  <2> QED  BY <2>5, <2>6
<1>10. levenshtein_distance_vec(a, b) = Distance(p, q, n, m)
  <2>1. n \in 0 .. n /\ m \in 0 .. m  BY <1>1
  <2> QED  BY <1>2, <1>7, <1>9, <2>1
<1>11. Distance(p, q, n, m) = Bigger(p, q)
  BY DEF Distance, n, m, Bigger, Smaller, Apart
<1> QED  BY <1>10, <1>11

(* The sum over the two ordered pairs of two chains.                       *)
LEMMA ScoreOfTwo ==
    ASSUME NEW a, NEW b,
           levenshtein_distance_vec(a, b) \in Nat, levenshtein_distance_vec(b, a) \in Nat
    PROVE  chains_edit_score(<<a, b>>).score
              = levenshtein_distance_vec(a, b) + levenshtein_distance_vec(b, a)
<1> DEFINE mc == <<a, b>>
           node == DOMAIN mc
           u == <<1, 2>>
           v == <<2, 1>>
           pairs == {c \in node \X node : c[1] # c[2]}
           f(c) == levenshtein_distance_vec(mc[c[1]], mc[c[2]])
           one(S) == CHOOSE c \in S : TRUE
           Entry(g, S) == IF S = {} THEN 0 ELSE f(one(S)) + g[S \ {one(S)}]
           IsSum(g) == g = [S \in SUBSET pairs |-> Entry(g, S)]
           r == CHOOSE g : IsSum(g)
           w == [S \in SUBSET pairs |->
                    (IF u \in S THEN f(u) ELSE 0) + (IF v \in S THEN f(v) ELSE 0)]
<1>1. pairs = {u, v} /\ u # v
  <2>1. node = {1, 2}  OBVIOUS
  <2>2. \A c \in node \X node : c = <<c[1], c[2]>> /\ c[1] \in {1, 2} /\ c[2] \in {1, 2}
    BY <2>1
  <2>3. \A c \in pairs : c = u \/ c = v
    <3> HIDE DEF node
    <3> QED  BY <2>2
  <2>4. u \in pairs /\ v \in pairs /\ u # v
    <3>1. u \in node \X node /\ v \in node \X node  BY <2>1
    <3>2. u[1] # u[2] /\ v[1] # v[2] /\ u[1] # v[1]  OBVIOUS
    <3> QED  BY <3>1, <3>2
  <2> HIDE DEF pairs, u, v
  <2> QED  BY <2>3, <2>4
<1>2. /\ f(u) = levenshtein_distance_vec(a, b) /\ f(u) \in Nat
      /\ f(v) = levenshtein_distance_vec(b, a) /\ f(v) \in Nat
  OBVIOUS
<1>3. chains_edit_score(mc).score = r[pairs]
  BY DEF chains_edit_score, MapThenSumSet, MapThenFoldSet
<1> HIDE DEF u, v, pairs, f, mc, node
<1>4. ASSUME NEW S \in SUBSET pairs
      PROVE  S = {} \/ S = {u} \/ S = {v} \/ S = {u, v}
  BY <1>1
<1>5. one({u}) = u /\ one({v}) = v /\ (one({u, v}) = u \/ one({u, v}) = v)
  OBVIOUS
<1> HIDE DEF one
<1>6. /\ {u} \ {u} = {} /\ {v} \ {v} = {}
      /\ {u, v} \ {u} = {v} /\ {u, v} \ {v} = {u}
  BY <1>1
<1>7. /\ {} \in SUBSET pairs /\ {u} \in SUBSET pairs
      /\ {v} \in SUBSET pairs /\ {u, v} \in SUBSET pairs
  BY <1>1
<1>8. w[{}] = 0 /\ w[{u}] = f(u) /\ w[{v}] = f(v) /\ w[{u, v}] = f(u) + f(v)
  BY <1>1, <1>2, <1>7
<1>9. w = [S \in SUBSET pairs |-> w[S]]  OBVIOUS
<1> HIDE DEF w
<1> DEFINE none == {}
           us == {u}
           vs == {v}
           both == {u, v}
<1>10. ASSUME NEW g
       PROVE  /\ Entry(g, none) = 0
              /\ Entry(g, us) = f(u) + g[none]
              /\ Entry(g, vs) = f(v) + g[none]
              /\ \/ Entry(g, both) = f(u) + g[vs]
                 \/ Entry(g, both) = f(v) + g[us]
  <2>1. Entry(g, none) = 0  OBVIOUS
  <2>2. \A S : S # none => Entry(g, S) = f(one(S)) + g[S \ {one(S)}]  OBVIOUS
  <2>3. us # none /\ vs # none /\ both # none  OBVIOUS
  <2> HIDE DEF Entry
  <2>4. Entry(g, us) = f(u) + g[none]  BY <1>5, <1>6, <2>2, <2>3
  <2>5. Entry(g, vs) = f(v) + g[none]  BY <1>5, <1>6, <2>2, <2>3
  <2>6. both \ {u} = vs /\ both \ {v} = us  BY <1>6
  <2>7. Entry(g, both) = f(one(both)) + g[both \ {one(both)}]  BY <2>2, <2>3
  <2>8. one(both) = u \/ one(both) = v  BY <1>5
  <2> HIDE DEF both, us, vs
  <2> QED  BY <2>1, <2>4, <2>5, <2>6, <2>7, <2>8
<1>11. \A S \in SUBSET pairs : S = none \/ S = us \/ S = vs \/ S = both
  BY <1>4
<1>12. /\ none \in SUBSET pairs /\ us \in SUBSET pairs
       /\ vs \in SUBSET pairs /\ both \in SUBSET pairs /\ both = pairs
  BY <1>1, <1>7
<1>13. w[none] = 0 /\ w[us] = f(u) /\ w[vs] = f(v) /\ w[both] = f(u) + f(v)
  BY <1>8
<1> HIDE DEF Entry, none, us, vs, both
<1>14. IsSum(w)
  <2>1. w[none] = Entry(w, none)  BY <1>10, <1>13
  <2>2. w[us] = Entry(w, us) /\ w[vs] = Entry(w, vs)  BY <1>2, <1>10, <1>13
  <2>3. w[both] = Entry(w, both)  BY <1>2, <1>10, <1>13
  <2>4. \A S \in SUBSET pairs : w[S] = Entry(w, S)
    BY <1>11, <2>1, <2>2, <2>3
  <2> QED  BY <1>9, <2>4
<1>15. IsSum(r)
  <2> HIDE DEF IsSum
  <2> QED  BY <1>14
<1> HIDE DEF r
<1>16. \A S \in SUBSET pairs : r[S] = Entry(r, S)
  BY <1>15
<1>17. r[both] = f(u) + f(v)
  <2>1. r[none] = 0  BY <1>10, <1>12, <1>16
  <2>2. r[us] = f(u) /\ r[vs] = f(v)  BY <1>2, <1>10, <1>12, <1>16, <2>1
  <2>3. r[both] = Entry(r, both)  BY <1>12, <1>16
  <2> QED  BY <1>2, <1>10, <2>2, <2>3
<1> QED  BY <1>2, <1>3, <1>12, <1>17 DEF mc

(* Two lineages share the lineage of one block, so that of the blocks of   *)
(* either the shared ones are the lowest.                                  *)
LEMMA SharedAreLowest ==
    ASSUME NEW h1 \in Hash, NEW h2 \in Hash
    PROVE  LET shared == Lineage[h1] \cap Lineage[h2]
           IN  /\ IsFiniteSet(shared)
               /\ Cardinality(shared) \in Nat \ {0}
               /\ \A a \in Lineage[h1] : a \in shared <=> Height(a) <= Cardinality(shared)
               /\ \A a \in Lineage[h2] : a \in shared <=> Height(a) <= Cardinality(shared)
<1> DEFINE shared == Lineage[h1] \cap Lineage[h2]
           S == {Height(h1) - Height(x) : x \in shared}
<1>1. ASSUME NEW h \in Hash PROVE GenesisHash \in Lineage[h]
  <2>1. 1 \in 1 .. Height(h)  BY HeightStep
  <2>2. PICK a \in Lineage[h] : Height(a) = 1  BY <2>1, BlockAtHeight
  <2>3. a \in Hash  BY LineageAssumption
  <2> QED  BY <2>2, <2>3, HeightStep
<1>2. GenesisHash \in shared  BY <1>1
<1>3. \A x \in shared : x \in Hash /\ Height(x) \in Nat /\ Height(x) <= Height(h1)
  BY HeightMonotone
<1>4. Height(h1) \in Nat  BY HeightStep
<1>5. PICK d \in S : \A e \in S : d <= e
  <2>1. S \subseteq Nat
    <3> HIDE DEF shared
    <3> QED  BY <1>3, <1>4
  <2>2. S # {}  BY <1>2
  <2> HIDE DEF S
  <2> QED  BY <2>1, <2>2, LeastNat
<1>6. PICK top \in shared : d = Height(h1) - Height(top)  BY <1>5
<1>7. ASSUME NEW x \in shared PROVE Height(x) <= Height(top)
  <2>1. d <= Height(h1) - Height(x)  BY <1>5
  <2> HIDE DEF S, shared
  <2> QED  BY <1>3, <1>4, <1>6, <2>1
<1>8. shared = Lineage[top]
  <2>1. \A x \in shared : x \in Lineage[top]  BY <1>7, LowerIsAncestor
  <2>2. Lineage[top] \subseteq shared  BY LineageAssumption
  <2> QED  BY <2>1, <2>2
<1>9. top \in Hash /\ IsFiniteSet(shared) /\ Cardinality(shared) = Height(top)
  BY <1>3, <1>8, LineageAssumption DEF Height
<1>10. ASSUME NEW h \in {h1, h2}, NEW a \in Lineage[h]
       PROVE  a \in shared <=> Height(a) <= Height(top)
  <2>1. a \in shared => Height(a) <= Height(top)  BY <1>7
  <2>2. top \in Lineage[h]  OBVIOUS
  <2>3. Height(a) <= Height(top) => a \in Lineage[top]
    BY <2>2, LowerIsAncestor
  <2> QED  BY <2>1, <2>3, <1>8
<1> QED  BY <1>9, <1>10, HeightStep

(* Two branches are as far apart as the longer of their stretches above    *)
(* the fork is long, in either direction.                                  *)
LEMMA BranchDistance ==
    ASSUME NEW h1 \in Hash, NEW h2 \in Hash
    PROVE  LET shared == Lineage[h1] \cap Lineage[h2]
               p == Cardinality(Lineage[h1] \ shared)
               q == Cardinality(Lineage[h2] \ shared)
           IN  /\ p \in Nat /\ q \in Nat
               /\ levenshtein_distance_vec(Branch(h1), Branch(h2)) = Bigger(p, q)
<1> DEFINE shared == Lineage[h1] \cap Lineage[h2]
           s == Cardinality(shared)
           p == Cardinality(Lineage[h1] \ shared)
           q == Cardinality(Lineage[h2] \ shared)
           a == Branch(h1)
           b == Branch(h2)
           at1(k) == oldest_first(Lineage[h1])[k]
           at2(k) == oldest_first(Lineage[h2])[k]
<1>1. /\ s \in Nat \ {0}
      /\ \A x \in Lineage[h1] : x \in shared <=> Height(x) <= s
      /\ \A x \in Lineage[h2] : x \in shared <=> Height(x) <= s
  BY SharedAreLowest
<1>2. ASSUME NEW h \in {h1, h2}
      PROVE  /\ Cardinality(Lineage[h] \ shared) \in Nat
             /\ Height(h) = Cardinality(Lineage[h] \ shared) + s
  <2>1. IsFiniteSet(Lineage[h]) /\ Lineage[h] \cap shared = shared
    BY LineageAssumption
  <2>2. /\ IsFiniteSet(Lineage[h] \ shared)
        /\ Cardinality(Lineage[h] \ shared) = Cardinality(Lineage[h]) - Cardinality(Lineage[h] \cap shared)
    BY <2>1, FS_Difference
  <2>3. Cardinality(Lineage[h] \ shared) \in Nat /\ Cardinality(Lineage[h]) \in Nat
    BY <2>1, <2>2, FS_CardinalityType
  <2>4. Cardinality(Lineage[h] \cap shared) = s /\ s \in Nat
    <3> HIDE DEF shared
    <3> QED  BY <1>1, <2>1
  <2> HIDE DEF shared, s
  <2> QED  BY <2>2, <2>3, <2>4 DEF Height
<1>3. p \in Nat /\ q \in Nat /\ Height(h1) = p + s /\ Height(h2) = q + s
  BY <1>2
<1>4. /\ a = [i \in 1 .. p + s |-> at1(p + s + 1 - i)]
      /\ b = [j \in 1 .. q + s |-> at2(q + s + 1 - j)]
  BY <1>3, BranchIs
<1>5. ASSUME NEW i \in 1 .. p + s
      PROVE  a[i] \in Lineage[h1] /\ Height(a[i]) = p + s + 1 - i
  <2>1. p + s + 1 - i \in 1 .. Height(h1)  BY <1>1, <1>3
  <2>2. /\ at1(p + s + 1 - i) \in Lineage[h1]
        /\ Height(at1(p + s + 1 - i)) = p + s + 1 - i
    BY <2>1, OldestFirst
  <2> HIDE DEF at1, p, s
  <2> QED  BY <1>4, <2>2
<1>6. ASSUME NEW j \in 1 .. q + s
      PROVE  b[j] \in Lineage[h2] /\ Height(b[j]) = q + s + 1 - j
  <2>1. q + s + 1 - j \in 1 .. Height(h2)  BY <1>1, <1>3
  <2>2. /\ at2(q + s + 1 - j) \in Lineage[h2]
        /\ Height(at2(q + s + 1 - j)) = q + s + 1 - j
    BY <2>1, OldestFirst
  <2> HIDE DEF at2, q, s
  <2> QED  BY <1>4, <2>2
<1>7. Len(a) = p + s /\ Len(b) = q + s
  <2> HIDE DEF at1, at2, p, q, s, a, b
  <2> QED  BY <1>1, <1>3, <1>4
<1> HIDE DEF p, q, s, a, b, at1, at2
<1>8. ASSUME NEW i \in 1 .. p + s, NEW j \in 1 .. q + s
      PROVE  a[i] = b[j] <=> i > p /\ j > q /\ i - p = j - q
  <2>1. /\ a[i] \in Lineage[h1] /\ Height(a[i]) = p + s + 1 - i
        /\ b[j] \in Lineage[h2] /\ Height(b[j]) = q + s + 1 - j
    BY <1>5, <1>6
  <2>2. i \in Nat /\ j \in Nat  BY <1>1, <1>3
  <2>3. ASSUME a[i] = b[j] PROVE i > p /\ j > q /\ i - p = j - q
    <3>1. a[i] \in shared  BY <2>1, <2>3
    <3>2. Height(a[i]) <= s /\ Height(a[i]) = Height(b[j])  BY <1>1, <2>1, <2>3, <3>1
    <3> HIDE DEF shared
    <3> QED  BY <1>1, <1>3, <2>1, <2>2, <3>2
  <2>4. ASSUME i > p, j > q, i - p = j - q PROVE a[i] = b[j]
    <3>1. Height(a[i]) <= s /\ Height(b[j]) <= s /\ Height(a[i]) = Height(b[j])
      BY <1>1, <1>3, <2>1, <2>2, <2>4
    <3>2. a[i] \in Lineage[h1] /\ b[j] \in Lineage[h1]  BY <1>1, <2>1, <3>1
    <3> QED  BY <3>1, <3>2, OneBlockPerHeight
  <2> QED  BY <2>3, <2>4
<1>9. levenshtein_distance_vec(a, b) = Bigger(p, q)
  <2>1. p \in Nat /\ q \in Nat /\ s \in Nat \ {0}  BY <1>1, <1>3
  <2>2. ShareSuffix(a, b, p, q, s)  BY <1>7, <1>8 DEF ShareSuffix
  <2> QED  BY <2>1, <2>2, SharedSuffixDistance
<1> QED  BY <1>3, <1>9 DEF a, b, p, q

(* The score of two nodes that follow different branches of one tree is    *)
(* twice the longer stretch above the fork: chain.rs:566-600 and 670-686.  *)
THEOREM ScoreIsForkLength == Spec => []ScoreMeasuresForks
<1>1. ASSUME NEW h1 \in Hash, NEW h2 \in Hash
      PROVE  LET shared == Lineage[h1] \cap Lineage[h2]
                 above == {Cardinality(Lineage[h] \ shared) : h \in {h1, h2}}
             IN  chains_edit_score(<<Branch(h1), Branch(h2)>>).score = 2 * Max(above)
  <2> DEFINE shared == Lineage[h1] \cap Lineage[h2]
             above == {Cardinality(Lineage[h] \ shared) : h \in {h1, h2}}
             p == Cardinality(Lineage[h1] \ shared)
             q == Cardinality(Lineage[h2] \ shared)
             m == Bigger(p, q)
  <2>1. /\ p \in Nat /\ q \in Nat
        /\ levenshtein_distance_vec(Branch(h1), Branch(h2)) = m
    BY BranchDistance
  <2>2. levenshtein_distance_vec(Branch(h2), Branch(h1)) = m
    <3>1. Lineage[h2] \cap Lineage[h1] = shared  OBVIOUS
    <3>2. levenshtein_distance_vec(Branch(h2), Branch(h1)) = Bigger(q, p)
      BY <3>1, BranchDistance
    <3> HIDE DEF p, q
    <3> QED  BY <2>1, <3>2 DEF Bigger
  <2>3. above = {p, q}  OBVIOUS
  <2> HIDE DEF p, q, above
  <2>4. m \in Nat /\ m \in {p, q} /\ m >= p /\ m >= q
    BY <2>1 DEF Bigger
  <2> HIDE DEF m
  <2>5. m \in above /\ (\A x \in above : m >= x)
        /\ \A y \in above : (\A x \in above : y >= x) => y = m
    BY <2>1, <2>3, <2>4
  <2>6. Max(above) = m
    BY <2>5 DEF Max
  <2>7. chains_edit_score(<<Branch(h1), Branch(h2)>>).score = m + m
    BY <2>1, <2>2, <2>4, ScoreOfTwo
  <2>8. chains_edit_score(<<Branch(h1), Branch(h2)>>).score = 2 * Max(above)
    BY <2>4, <2>6, <2>7
  <2> QED  BY <2>8 DEF above
<1>2. IInv => ScoreMeasuresForks
  <2> SUFFICES ASSUME IInv, NEW h1 \in chain.leaves, NEW h2 \in chain.leaves
               PROVE  h1 \in Hash /\ h2 \in Hash
    BY <1>1 DEF ScoreMeasuresForks
  <2> QED  BY DEF IInv, WholeTree, IsChain
<1> QED  BY <1>2, Invariance, PTL

=============================================================================
