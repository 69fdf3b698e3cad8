------------------------------ MODULE Analysis ------------------------------
(***************************************************************************)
(* BlockchainAnaylsisOperations of mini_chain/chain.rs: the trunk of a     *)
(* chain, and how far the main chains of several nodes are apart.  The     *)
(* simulation judges its outcome by them.                                  *)
(***************************************************************************)
EXTENDS ChainStore, SequencesExt

(* The branch that ends in h, as get_main_chain lists it: tip first.       *)
Branch(h) ==
    [i \in 1 .. Cardinality(Lineage[h]) |->
        CHOOSE a \in Lineage[h] :
            Cardinality(Lineage[a]) = Cardinality(Lineage[h]) + 1 - i]

-----------------------------------------------------------------------------
(* get_trunk *)

(* From genesis upward, as long as a block has exactly one child.          *)
get_trunk(c) ==
    LET upward[h \in Stored(c)] ==
            IF Cardinality(c.blocks[h]) = 1
            THEN <<h>> \o upward[CHOOSE child \in c.blocks[h] : TRUE]
            ELSE <<>>
    IN  upward[CHOOSE h \in Stored(c) : previous_hash[h] = NoHash]

(* The base-2 logarithm, rounded down; of an empty chain the code makes 0. *)
log2(n) ==
    LET halvings[m \in 0 .. n] == IF m <= 1 THEN 0 ELSE 1 + halvings[m \div 2]
    IN  halvings[n]

is_trunk_tall(trunk, main_chain) ==
    Len(trunk) >= Len(main_chain) - 2 * log2(Len(main_chain))

-----------------------------------------------------------------------------
(* levenshtein_distance_vec, chains_edit_score *)

(* Mutant: blocks are inserted and deleted, but never substituted.         *)
BugNoSubstitution(a, b) ==
    LET dp[c \in (0 .. Len(a)) \X (0 .. Len(b))] ==
            LET i == c[1]
                j == c[2]
            IN  IF i = 0 \/ j = 0 THEN i + j
                ELSE IF a[i] = b[j] THEN dp[<<i - 1, j - 1>>]
                ELSE 1 + Min({dp[<<i, j - 1>>], dp[<<i - 1, j>>]})
    IN  dp[<<Len(a), Len(b)>>]

(* Equal blocks are matched, and else the cheapest of substitution,        *)
(* insertion and deletion taken.                                           *)
levenshtein_distance_vec(a, b) ==
    LET dp[c \in (0 .. Len(a)) \X (0 .. Len(b))] ==
            LET i == c[1]
                j == c[2]
            IN  IF i = 0 \/ j = 0 THEN i + j
                ELSE IF a[i] = b[j] THEN dp[<<i - 1, j - 1>>]
                ELSE 1 + Min({dp[<<i - 1, j - 1>>], dp[<<i, j - 1>>], dp[<<i - 1, j>>]})
    IN  dp[<<Len(a), Len(b)>>]

(* Both sums run over the ordered pairs of different nodes; the result is  *)
(* 1 - score / max_score.                                                  *)
chains_edit_score(main_chains) ==
    LET node == DOMAIN main_chains
        pairs == {p \in node \X node : p[1] # p[2]}
        distance(p) == levenshtein_distance_vec(main_chains[p[1]], main_chains[p[2]])
        lengths(p) == Len(main_chains[p[1]]) + Len(main_chains[p[2]])
    IN  [score     |-> MapThenSumSet(distance, pairs),
         max_score |-> MapThenSumSet(lengths, pairs)]

-----------------------------------------------------------------------------

(* Once forks are resolved, get_trunk finds the whole main chain but for   *)
(* its tip, whatever the children of its blocks were before, and a chain   *)
(* of more than genesis has a tall trunk.                                  *)
TrunkAfterResolve ==
    [][Resolve =>
          \A tip \in get_chain_tip(chain') :
              /\ get_trunk(chain') = Reverse(Tail(Branch(tip)))
              /\ tip # GenesisHash => is_trunk_tall(get_trunk(chain'), Branch(tip))]_vars

(* Two nodes that follow different branches of one tree are scored by the  *)
(* longer stretch above the fork, once per direction: chains are compared  *)
(* tip first, so that a longer branch shifts everything they share.        *)
ScoreMeasuresForks ==
    \A h1, h2 \in chain.leaves :
        LET shared == Lineage[h1] \cap Lineage[h2]
            above == {Cardinality(Lineage[h] \ shared) : h \in {h1, h2}}
        IN  chains_edit_score(<<Branch(h1), Branch(h2)>>).score = 2 * Max(above)

=============================================================================
