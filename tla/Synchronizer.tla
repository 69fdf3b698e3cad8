---------------------------- MODULE Synchronizer ----------------------------
(***************************************************************************)
(* run_verifier of mini_chain/node.rs: blocks mined anywhere are received  *)
(* one by one and synchronized, parents first.  A parent is asked for over *)
(* the network; every node answers, itself included, with the block or     *)
(* with None, to all nodes at once.                                        *)
(*                                                                         *)
(* The network may drop, delay and reorder every copy of a message, and    *)
(* the other nodes send and ask for what they like, so at any time any     *)
(* block there is may arrive as mined, and any block, or None, as an       *)
(* answer, to this request or to another.  Mined blocks pass verify_block: *)
(* the miner has set the hash, the slot number and the proof of work that  *)
(* it checks.                                                              *)
(*                                                                         *)
(* Of the chain only the set of stored blocks matters: ChainStore          *)
(* implements LongestChain, and has_block and add_block depend on that set *)
(* alone.  The miner and run_blockchain go on changing it.                 *)
(***************************************************************************)
EXTENDS ResponseSet, SequencesExt

CONSTANTS
    NoHash, GenesisHash, previous_hash, Lineage, Height,    \* as in LongestChain
    MaxTries,       \* how many answers 200 ms leave time for, 4 ms apart
    MaxReceived     \* bound: how many mined blocks are received

ASSUME SynchronizerAssumption ==
    /\ GenesisHash \in Hash
    /\ NoHash \notin Hash
    /\ NoBlock \notin Hash
    /\ previous_hash \in [Hash -> Hash \cup {NoHash}]
    /\ \A h \in Hash : previous_hash[h] = NoHash <=> h = GenesisHash
    /\ Lineage \in [Hash -> SUBSET Hash]
    /\ \A h \in Hash : {h, GenesisHash} \subseteq Lineage[h]
    /\ Height \in [Hash -> Nat \ {0}]
    /\ \A h \in Hash \ {GenesisHash} : Height[previous_hash[h]] < Height[h]
    /\ MaxTries \in Nat
    /\ MaxReceived \in Nat

VARIABLES
    tree,           \* the stored blocks
    pc,             \* where the verifier is: idle, checking, asking, adding
    syncing,        \* its calls of synchronize_chain, the innermost last
    tries,          \* how many answers the request in hand has received
    table,          \* synchronizer_response_set
    undisturbed,    \* history: no missing block was given up, and none cut
    received        \* how many mined blocks have been received

vars == <<tree, pc, syncing, tries, table, undisturbed, received>>

Chain == INSTANCE LongestChain

(* The hash request_block asks for.                                        *)
Wanted == previous_hash[Last(syncing)]

-----------------------------------------------------------------------------

(* initialize has run.                                                     *)
Init ==
    /\ tree = {GenesisHash}
    /\ pc = "idle"
    /\ syncing = <<>>
    /\ tries = 0
    /\ table = EmptyTable
    /\ undisturbed = TRUE
    /\ received = 0

(* Blockchain::add_block: an orphan is dropped.                            *)
add_block(h) ==
    tree' = IF previous_hash[h] \in tree \/ tree = {} THEN tree \cup {h} ELSE tree

(* mine_next_block adds a block mined on a leaf of some earlier time.      *)
MinerAdds(h) ==
    /\ add_block(h)
    /\ UNCHANGED <<pc, syncing, tries, table, undisturbed, received>>

(* run_blockchain *)
resolve_chain ==
    /\ \E tip \in tree :
          /\ Chain!IsHighest(tip)
          /\ tree' = Lineage[tip]
    /\ undisturbed' = (undisturbed /\ tree' = tree)
    /\ UNCHANGED <<pc, syncing, tries, table, received>>

-----------------------------------------------------------------------------
(* run_verifier *)

receive_mined_block(h) ==
    /\ pc = "idle"
    /\ received < MaxReceived
    /\ received' = received + 1
    /\ syncing' = <<h>>
    /\ pc' = "checking"
    /\ undisturbed' = TRUE
    /\ UNCHANGED <<tree, tries, table>>

(* synchronize_chain: a block that is stored is added again.               *)
BlockIsStored ==
    /\ pc = "checking"
    /\ Last(syncing) \in tree
    /\ pc' = "adding"
    /\ UNCHANGED <<tree, syncing, tries, table, undisturbed, received>>

(* The parent of a new block is asked for, be it stored or not.            *)
RequestParent ==
    /\ pc = "checking"
    /\ Last(syncing) \notin tree
    /\ table' = add_synchronizer_request(table, Wanted)
    /\ pc' = "asking"
    /\ UNCHANGED <<tree, syncing, tries, undisturbed, received>>

(* Mutant: the parent is taken for stored and the block added at once.     *)
BugSkipParent(h) ==
    /\ pc' = "adding"
    /\ tries' = 0
    /\ UNCHANGED syncing

(* request_block returns the block h, which is synchronized first.         *)
Obtain(h) ==
    /\ syncing' = Append(syncing, h)
    /\ pc' = "checking"
    /\ tries' = 0

(* Mutant: the time limit runs anew from each answer.                      *)
BugNewLimit ==
    /\ tries' = 0
    /\ UNCHANGED <<pc, syncing>>

(* request_block goes on waiting.                                          *)
KeepAsking ==
    /\ tries' = tries + 1
    /\ UNCHANGED <<pc, syncing>>

(* Mutant: any block that arrives is taken for the answer.                 *)
BugAnyIsMine(answer) == answer # NoBlock

(* "if it's yours"                                                         *)
IsMine(answer) == answer = Wanted

(* The block that is asked for arrives; the table does not hear of it.     *)
ReceiveMine(answer) ==
    /\ pc = "asking"
    /\ tries < MaxTries
    /\ IsMine(answer)
    /\ Obtain(answer)
    /\ UNCHANGED <<tree, table, undisturbed, received>>

(* Another answer arrives, is kept if it was asked for, and whatever the   *)
(* table keeps for the block that is asked for is taken.                   *)
ReceiveOther(answer) ==
    LET heard == IF answer = NoBlock THEN table
                 ELSE add_synchronizer_response(table, answer)
        found == kept(heard, Wanted)
    IN  /\ pc = "asking"
        /\ tries < MaxTries
        /\ ~ IsMine(answer)
        /\ table' = get_synchronizer_response(heard, Wanted, FALSE)
        /\ IF found # NoBlock THEN Obtain(found) ELSE KeepAsking
        /\ UNCHANGED <<tree, undisturbed, received>>

(* request_block returns None, and the block is added all the same.        *)
GiveUp ==
    /\ pc' = "adding"
    /\ tries' = 0
    /\ undisturbed' = (undisturbed /\ Wanted \in tree)
    /\ UNCHANGED syncing

(* Mutant: the time limit runs from the first answer.                      *)
BugNoTimeLimit ==
    /\ pc = "asking"
    /\ tries > 0
    /\ table' = get_synchronizer_response(table, Wanted, TRUE)
    /\ IF kept(table, Wanted) # NoBlock
       THEN Obtain(kept(table, Wanted)) /\ UNCHANGED undisturbed
       ELSE GiveUp
    /\ UNCHANGED <<tree, received>>

(* 200 ms are over, with or without answers; the table is looked up a last *)
(* time.                                                                   *)
TimeOut ==
    /\ pc = "asking"
    /\ table' = get_synchronizer_response(table, Wanted, TRUE)
    /\ IF kept(table, Wanted) # NoBlock
       THEN Obtain(kept(table, Wanted)) /\ UNCHANGED undisturbed
       ELSE GiveUp
    /\ UNCHANGED <<tree, received>>

(* The innermost call adds its block and returns.                          *)
AddBlock ==
    /\ pc = "adding"
    /\ add_block(Last(syncing))
    /\ syncing' = Front(syncing)
    /\ pc' = IF Len(syncing) = 1 THEN "idle" ELSE "adding"
    /\ UNCHANGED <<tries, table, undisturbed, received>>

Next ==
    \/ \E h \in Hash \ {GenesisHash} : MinerAdds(h)
    \/ resolve_chain
    \/ \E h \in Hash \ {GenesisHash} : receive_mined_block(h)
    \/ BlockIsStored
    \/ RequestParent
    \/ \E answer \in Hash : ReceiveMine(answer)
    \/ \E answer \in Hash \cup {NoBlock} : ReceiveOther(answer)
    \/ TimeOut
    \/ AddBlock

Spec == Init /\ [][Next]_vars

(* The verifier's own steps happen, and 200 ms pass.  Nothing is asked of  *)
(* the network or of the other nodes.                                      *)
Fairness ==
    /\ WF_vars(BlockIsStored \/ RequestParent)
    /\ WF_vars(TimeOut)
    /\ WF_vars(AddBlock)

FairSpec == Spec /\ Fairness

-----------------------------------------------------------------------------

(* Type invariant of the verifier and of its table.                        *)
TypeOK ==
    /\ tree \subseteq Hash
    /\ pc \in {"idle", "checking", "asking", "adding"}
    /\ syncing \in Seq(Hash)
    /\ tries \in 0 .. MaxTries
    /\ IsResponseSet(table)
    /\ undisturbed \in BOOLEAN
    /\ received \in 0 .. MaxReceived

(* Whatever answers arrive, to whichever request, late or twice, and       *)
(* whatever the table kept of earlier ones, the calls of synchronize_chain *)
(* that wait for one another are for a block, its parent, the parent of    *)
(* that, and so on: no block that request_block returns, from the channel  *)
(* or from the table, is another than the one it was asked for, so the     *)
(* recursion is never deeper than the lineage of the block.                *)
CallsFollowLineage ==
    \A i \in 1 .. Len(syncing) - 1 : syncing[i + 1] = previous_hash[syncing[i]]

(* A block is stored when its synchronization ends if every ancestor that  *)
(* was given up was stored already, unless a resolution cut a block:       *)
(* has_block is asked, the lock given back, and the block added much       *)
(* later, while other tasks add to the same chain.                         *)
ObtainedIsStored ==
    [][pc # "idle" /\ pc' = "idle" /\ undisturbed => Head(syncing) \in tree']_vars

(* How many steps the verifier is away from idle at most: a call that is   *)
(* still about the parent may go through all its tries and call itself for *)
(* every lower height, and each call adds its block before it returns.     *)
StepsLeft ==
    Len(syncing) +
        CASE pc = "checking" -> Height[Last(syncing)] * (MaxTries + 3)
          [] pc = "asking"   -> Height[Last(syncing)] * (MaxTries + 3) - 1 - tries
          [] OTHER           -> 0

(* Every step of a synchronization brings its end nearer, whatever answers *)
(* arrive, to whichever request and however often, and whatever the other  *)
(* tasks do to the chain meanwhile: a block of height k asks for its       *)
(* ancestors in at most k * (MaxTries + 3) + 1 steps.                      *)
SynchronizationAdvances ==
    [][pc # "idle" =>
          \/ StepsLeft' \in 0 .. StepsLeft - 1
          \/ UNCHANGED <<pc, syncing, tries, table>>]_vars

(* Every synchronization ends, whatever the network drops.                 *)
SynchronizationEnds == pc # "idle" ~> pc = "idle"

(* A hash is counted while it is requested, and no longer: the count is    *)
(* incremented by a request (node.rs:626) and decremented by its end       *)
(* (node.rs:669 and 673).                                                  *)
CountsRequests ==
    \A h \in Hash :
        count(table, h) = IF pc = "asking" /\ Wanted = h THEN 1 ELSE 0

=============================================================================
