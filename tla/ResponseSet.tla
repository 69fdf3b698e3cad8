---------------------------- MODULE ResponseSet ----------------------------
(***************************************************************************)
(* synchronizer_response_set of mini_chain/node.rs: by hash, how often a   *)
(* block has been asked for, and the answer that is kept, if any.  Each    *)
(* operation holds the write lock of the table.                            *)
(***************************************************************************)
EXTENDS Naturals

CONSTANTS
    Hash,
    NoBlock         \* None

Entry == [count : Nat \ {0}, kept : Hash \cup {NoBlock}]

IsResponseSet(table) ==
    /\ DOMAIN table \subseteq Hash
    /\ table \in [DOMAIN table -> Entry]

EmptyTable == [h \in {} |-> {}]

count(table, h) == IF h \in DOMAIN table THEN table[h].count ELSE 0

kept(table, h) == IF h \in DOMAIN table THEN table[h].kept ELSE NoBlock

Without(table, h) == [k \in DOMAIN table \ {h} |-> table[k]]

With(table, h, entry) ==
    [k \in DOMAIN table \cup {h} |-> IF k = h THEN entry ELSE table[k]]

(* Where an answer is kept, nothing is counted.                            *)
add_synchronizer_request(table, h) ==
    IF kept(table, h) # NoBlock
    THEN table
    ELSE With(table, h, [count |-> count(table, h) + 1, kept |-> NoBlock])

(* Mutant: an answer nobody asked for is kept.                             *)
BugKeepAll(table, b) ==
    With(table, b, [count |-> count(table, b), kept |-> b])

(* A block that was asked for is kept under its own hash.                  *)
add_synchronizer_response(table, b) ==
    IF count(table, b) = 0
    THEN table
    ELSE With(table, b, [count |-> count(table, b), kept |-> b])

(* What a look for h, which finds kept(table, h), leaves of the table.     *)
(* What it finds is written back under the hash of the block; the entry of *)
(* h goes with the last request, and so it does with any look, found or    *)
(* not, when only one request was counted.                                 *)
get_synchronizer_response(table, h, last_chance) ==
    LET left  == IF count(table, h) < 1 THEN 0 ELSE count(table, h) - 1
        block == kept(table, h)
        noted == IF block # NoBlock
                 THEN With(table, block, [count |-> left, kept |-> block])
                 ELSE IF last_chance
                 THEN With(table, h, [count |-> left, kept |-> NoBlock])
                 ELSE table
    IN  IF left < 1 THEN Without(noted, h) ELSE noted

=============================================================================
