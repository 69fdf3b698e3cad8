------------------------------ MODULE Cluster -------------------------------
(***************************************************************************)
(* The nodes of a simulation (lib.rs) and the network between them         *)
(* (network.rs): proposals, mining, verification and synchronization on    *)
(* one chain per node.                                                     *)
(*                                                                         *)
(* What a node sends, the network copies to every node, the sender         *)
(* included; each copy is dropped or delayed on its own.  A message stays  *)
(* in the set of what was broadcast, and a node takes it from there at any *)
(* time or never.                                                          *)
(*                                                                         *)
(* What Proposer, Synchronizer and ForkResolver model is only what it      *)
(* looks like from outside here: any transactions a mempool may hold are   *)
(* proposed, requests end with an answer or without, a chain is resolved   *)
(* at any time.                                                            *)
(***************************************************************************)
EXTENDS Block

CONSTANTS
    Node,
    StartTime,      \* the time the simulation is started
    MaxTime,        \* bound: the clock stops here
    MaxProposals,   \* bound on the proposals of the simulation
    Offers,         \* what each proposer may come up with: sets of transactions
    MaxRounds,      \* bound on the blocks each node sets out to mine
    MaxResolutions  \* bound on the fork resolutions of each node

ASSUME ClusterAssumption ==
    /\ StartTime \in Nat
    /\ MaxTime \in Nat
    /\ get_query_slot_lower_bound(StartTime) >= 0
    /\ MaxProposals \in Nat
    /\ Offers \in [Node -> SUBSET SUBSET Txn]
    /\ MaxRounds \in [Node -> Nat]
    /\ MaxResolutions \in [Node -> Nat]

VARIABLES
    now,            \* the clock, shared
    chain,          \* the Blockchain of each node
    pc,             \* where its miner is: idle, selected, mined, stored
    block,          \* the block it has selected, or stored and not yet sent;
                    \* genesis for none
    todo,           \* the mined blocks it has still to store and send
    taken,          \* the proposals its miner has taken from its channel
    round,          \* how many blocks its miner has set out to mine
    resolved,       \* how often its forks were resolved
    since,          \* history: resolved, when its miner read the leaves
    proposed,       \* broadcast: proposed blocks, with their senders
    mined,          \* broadcast: mined blocks, with sender and since
    answered        \* broadcast: blocks sent in answer to a request

miner == <<pc, block, todo, taken, round, since>>
messages == <<proposed, mined, answered>>
vars == <<now, chain, miner, resolved, messages>>

-----------------------------------------------------------------------------
(* The network *)

(* A message is copied to the channel of every node.                       *)
broadcast(sent, message) == sent \cup {message}

(* Of the copies it has not taken yet, the first that a node finds in its  *)
(* channel may be any: a copy may be dropped, and each has a latency of    *)
(* its own.                                                                *)
arrived(sent, got) == SUBSET (sent \ got)

-----------------------------------------------------------------------------

(* Every node has run initialize, and nothing has been sent.               *)
Init ==
    /\ now = StartTime
    /\ chain = [n \in Node |-> genesis]
    /\ pc = [n \in Node |-> "idle"]
    /\ block = [n \in Node |-> GenesisBlock]
    /\ todo = [n \in Node |-> {}]
    /\ taken = [n \in Node |-> {}]
    /\ round = [n \in Node |-> 0]
    /\ resolved = [n \in Node |-> 0]
    /\ since = [n \in Node |-> 0]
    /\ proposed = {}
    /\ mined = {}
    /\ answered = {}

(* run_proposer sends what it has been building since `started`.  A client *)
(* submits to the mempools of all nodes, and what is in flight re-enters,  *)
(* so any node may propose any transactions, proposed elsewhere or not.    *)
send_proposed_block(n, txns, started) ==
    /\ Cardinality(proposed) < MaxProposals
    /\ proposed' = broadcast(proposed, [from |-> n, block |-> new(txns, started)])
    /\ UNCHANGED <<now, chain, miner, resolved, mined, answered>>

-----------------------------------------------------------------------------
(* run_miner *)

(* The least proposal in the order of Block, which compares timestamps     *)
(* first.                                                                  *)
Least(proposals) ==
    {p.block : p \in
        {p \in proposals : \A q \in proposals :
            p.block.timestamp <= q.block.timestamp}}

(* The body of the genesis block stands in when none arrives in time.      *)
receive_proposed_block(proposals) ==
    IF proposals = {} THEN {GenesisBlock} ELSE Least(proposals)

(* Transactions that are already in the chain are dropped.                 *)
Select(c, b) ==
    drop_transactions(b, {txn \in b.transactions : has_transaction(c, txn, now)})

(* Of up to five proposals one is mined and the rest thrown away.          *)
(* What is received does not depend on the chain, so receiving and looking *)
(* up, under the read lock, is one step.                                   *)
SelectTransactions(n) ==
    /\ pc[n] = "idle"
    /\ round[n] < MaxRounds[n]
    /\ \E proposals \in arrived(proposed, taken[n]) :
          /\ Cardinality(proposals) <= 5
          /\ taken' = [taken EXCEPT ![n] = @ \cup proposals]
          /\ \E b \in receive_proposed_block(proposals) :
                block' = [block EXCEPT ![n] = Select(chain[n], b)]
    /\ pc' = [pc EXCEPT ![n] = "selected"]
    /\ round' = [round EXCEPT ![n] = @ + 1]
    /\ UNCHANGED <<now, chain, todo, since, resolved, messages>>

(* The leaves are read under a second read lock; the block is mined on     *)
(* each of them.                                                           *)
MineOnLeaves(n) ==
    /\ pc[n] = "selected"
    /\ todo' = [todo EXCEPT ![n] = UNION
          {mine_block([block[n] EXCEPT !.previous_hash = leaf]) :
              leaf \in chain[n].leaves}]
    /\ block' = [block EXCEPT ![n] = GenesisBlock]
    /\ pc' = [pc EXCEPT ![n] = IF todo'[n] = {} THEN "idle" ELSE "mined"]
    /\ since' = [since EXCEPT ![n] = resolved[n]]
    /\ UNCHANGED <<now, chain, taken, round, resolved, messages>>

(* Mutant: the block is left to come back over the network.                *)
BugLeaveToNetwork(n, b) == chain

(* The chain of n with a block more.                                       *)
Keep(n, b) == [chain EXCEPT ![n] = add_block(@, b.hash)]

(* A mined block is stored, without a second look at the chain.  That it   *)
(* is stored a second time if it is on the chain tip and was refused       *)
(* changes nothing.                                                        *)
StoreMined(n) ==
    /\ pc[n] = "mined"
    /\ \E b \in todo[n] :
          /\ todo' = [todo EXCEPT ![n] = @ \ {b}]
          /\ block' = [block EXCEPT ![n] = b]
          /\ chain' = Keep(n, b)
    /\ pc' = [pc EXCEPT ![n] = "stored"]
    /\ UNCHANGED <<now, taken, round, since, resolved, messages>>

(* What n says of its block to all.                                        *)
Announcement(n) == [from |-> n, since |-> since[n], block |-> block[n]]

(* Mutant: a block without transactions is not worth sending.              *)
BugSendNoEmpty(n) ==
    IF block[n].transactions = {} THEN mined ELSE broadcast(mined, Announcement(n))

Announce(n) == broadcast(mined, Announcement(n))

(* It is sent when the write lock is gone, so that other tasks may see it  *)
(* stored and not sent.  No mined block is the genesis block.              *)
send_mined_block(n) ==
    /\ pc[n] = "stored"
    /\ mined' = Announce(n)
    /\ block' = [block EXCEPT ![n] = GenesisBlock]
    /\ pc' = [pc EXCEPT ![n] = IF todo[n] = {} THEN "idle" ELSE "mined"]
    /\ UNCHANGED <<now, chain, todo, taken, round, since, resolved, proposed, answered>>

-----------------------------------------------------------------------------
(* run_verifier, run_synchronizer_service *)

verify_block(b) == verify_self(b)

(* A mined block arrives and passes; whether its ancestors were obtained   *)
(* before it is added is open.  Several nodes may send one block.          *)
verify_next_block(n, m) ==
    /\ verify_block(m.block)
    /\ chain' = [chain EXCEPT ![n] = add_block(@, m.block.hash)]
    /\ UNCHANGED <<now, miner, resolved, messages>>

(* What a node that synchronizes asks for.                                 *)
Requested ==
    {m.block.previous_hash : m \in mined} \cup {previous_hash[h] : h \in answered}

(* Every node answers, with the block if it has it.                        *)
check_for_next_block(n, h) ==
    /\ h \in Requested
    /\ has_block(chain[n], h)
    /\ answered' = broadcast(answered, h)
    /\ UNCHANGED <<now, chain, miner, resolved, proposed, mined>>

(* A block that was obtained is added as it is: only the block that came   *)
(* as mined was verified.                                                  *)
AddObtained(n, h) ==
    /\ h \in answered
    /\ chain' = [chain EXCEPT ![n] = add_block(@, h)]
    /\ UNCHANGED <<now, miner, resolved, messages>>

-----------------------------------------------------------------------------

(* run_blockchain *)
Resolve(n) ==
    /\ resolved[n] < MaxResolutions[n]
    /\ \E tip \in get_chain_tip(chain[n]) :
          chain' = [chain EXCEPT ![n] = resolve_chain(@, tip)]
    /\ resolved' = [resolved EXCEPT ![n] = @ + 1]
    /\ UNCHANGED <<now, miner, messages>>

Tick ==
    /\ now < MaxTime
    /\ now' = now + 1
    /\ UNCHANGED <<chain, miner, resolved, messages>>

Next ==
    \/ \E n \in Node : \E txns \in Offers[n], started \in StartTime..now :
          send_proposed_block(n, txns, started)
    \/ \E n \in Node : SelectTransactions(n)
    \/ \E n \in Node : MineOnLeaves(n)
    \/ \E n \in Node : StoreMined(n)
    \/ \E n \in Node : send_mined_block(n)
    \/ \E n \in Node, m \in mined : verify_next_block(n, m)
    \/ \E n \in Node, h \in Hash : check_for_next_block(n, h)
    \/ \E n \in Node, h \in Hash : AddObtained(n, h)
    \/ \E n \in Node : Resolve(n)
    \/ Tick

Spec == Init /\ [][Next]_vars

-----------------------------------------------------------------------------

Proposal == [from : Node, block : BlockType]
Mined == [from : Node, since : Nat, block : BlockType]
Announced == {m.block.hash : m \in mined}

(* Type invariant.                                                         *)
TypeOK ==
    /\ now \in Nat
    /\ chain = [n \in Node |-> chain[n]]
    /\ \A n \in Node : IsChain(chain[n])
    /\ pc \in [Node -> {"idle", "selected", "mined", "stored"}]
    /\ block \in [Node -> BlockType]
    /\ todo \in [Node -> SUBSET BlockType]
    /\ taken \in [Node -> SUBSET proposed]
    /\ round \in [Node -> Nat]
    /\ resolved \in [Node -> Nat]
    /\ since \in [Node -> Nat]
    /\ proposed \subseteq Proposal
    /\ mined \subseteq Mined
    /\ answered \subseteq Hash

(* The block a miner has stored and not yet sent.                          *)
InHand(n) == IF pc[n] = "stored" THEN {block[n]} ELSE {}

(* Only a block that arrives as mined is verified, and the ancestors that  *)
(* synchronize_chain obtains are stored unseen.  Still every block a chain *)
(* holds, genesis apart, was announced and would pass, or is about to be   *)
(* announced by the node itself and would pass; and the service, which     *)
(* reads the same chain between storing and sending, lets no block out     *)
(* before it is announced.                                                 *)
StoredWouldPass ==
    /\ \A m \in mined : verify_self(m.block)
    /\ answered \subseteq {GenesisHash} \cup Announced
    /\ \A n \in Node :
          /\ \A b \in InHand(n) : verify_self(b)
          /\ Stored(chain[n]) \subseteq
                {GenesisHash} \cup Announced \cup {b.hash : b \in InHand(n)}

(* Everything below an announced block was announced as well, so that      *)
(* whoever synchronizes can be given the whole branch: a miner announces   *)
(* what it mined on any leaf of its chain, its own or obtained unverified, *)
(* and another node may have cut that branch since.                        *)
LineageAnnounced ==
    \A h \in Announced : Lineage[h] \subseteq {GenesisHash} \cup Announced

(* A block that a miner announces is in its chain, until its forks are     *)
(* resolved.  mine_next_block adds the block long after it has read the    *)
(* leaves, without looking whether the leaf is still one; that it is still *)
(* there can change only with a resolution, and then the block is refused  *)
(* and announced all the same.                                             *)
MinedIsStored ==
    \A m \in mined :
        m.since = resolved[m.from] => m.block.hash \in Stored(chain[m.from])

(* However many resolutions came between reading the leaves and now, and   *)
(* whether the block was refused or has been cut: no miner is more than    *)
(* one block behind what it told others to build on.                       *)
MinerNotOutrun ==
    \A m \in mined : \E h \in Stored(chain[m.from]) :
        Cardinality(Lineage[m.block.hash]) <= Cardinality(Lineage[h]) + 1

(* Each node, in the company of the others, does nothing to its chain that *)
(* ChainStore does not: what holds of every run of that module holds of    *)
(* every node.  In particular no block reaches a chain before its slot.    *)
Store(n) == INSTANCE ChainStore WITH chain <- chain[n]

NodesRunChainStore ==
    [][\A n \in Node : UNCHANGED Store(n)!vars \/ Store(n)!Next]_vars

(* No branch of a chain holds a transaction twice: mine_next_block says it *)
(* drops "transactions that are already in the chain" (node.rs:479).       *)
NoTransactionTwice ==
    \A n \in Node : \A h \in Stored(chain[n]) : \A a \in Lineage[h] \ {h} :
        transactions[a] \cap transactions[h] = {}

=============================================================================
