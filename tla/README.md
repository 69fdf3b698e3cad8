# Verification of the mini chain

TLA+ specifications, model-checking runs and machine-checked proofs for the
blockchain simulator in `src/blockchain/starter/src` (paths below are relative
to it, and `node.rs` stands for `mini_chain/node.rs`). A simulation runs several
full nodes in one process; each node proposes blocks from a mempool, mines them
on every leaf of its chain, verifies and stores the blocks of the others,
fetches missing ancestors, and now and then cuts its tree of blocks back to its
longest branch. Nodes talk over a simulated network with drops and latency.

## The system

| Part | State | Operations | Where |
|---|---|---|---|
| Blockchain | `blocks` (block and child hashes by hash), `leaves`, `slots` | `genesis`, `add_block`, `get_main_chain`, `get_chain_tip`, `resolve_chain`, `get_transaction` | `chain.rs` |
| Block, Transaction | none | hash, mine, verify | `block.rs` |
| Metadata | constants | slot arithmetic, windows, expiry | `metadata.rs` |
| Mempool | `queue`, `in_flight`, a private `Blockchain` | push, pop, tick | `mempool.rs` |
| Proposer, mempool service, mempool tick | a block being built; time bounds | `run_proposer`, `run_mempool_service`, `run_mempool` | `node.rs`, `client.rs` |
| Miner | a proposal, a snapshot of the leaves | `run_miner` | `node.rs` |
| Verifier and synchronizer | a recursion of blocks to add; `synchronizer_response_set` | `run_verifier`, `request_block`, `run_synchronizer_service` | `node.rs` |
| Fork resolver | two readings of the clock | `run_blockchain` | `node.rs` |
| Network | messages on their way | broadcast with drop and latency | `network.rs` |
| Chain analysis | none | trunk, edit distance, success rate | `chain.rs` |

The tasks of a node share the chain and the mempool, each behind a
`tokio::sync::RwLock`, and reach other nodes only through channels. `run_full_node`
polls all of them in one future (`try_join!`), so they interleave at every
`await`.

What is hard, and what makes each part correct:

* **Blockchain.** Blocks arrive in any order, several times, without their
  parents, and between any two of them the tree may be cut. Three indexes are
  updated by hand. Correct means: ancestors are there (no stored orphan), every
  branch can be reached from a leaf, the indexes agree, the main chain is a
  longest branch and never gets shorter, a resolution keeps exactly that branch,
  and the query window is the one documented.
* **Mempool and its tasks.** Three tasks and the clients interleave on one queue;
  a block handed to the network may vanish. Correct means: nothing submitted is
  lost, nothing is multiplied, nothing is in flight that no block has offered, and
  what is offered comes back for another try.
* **Fork resolver.** It sleeps by one clock, decides by another, and does so with
  the chain locked. Correct means: it is there only when a resolution is due, and
  gives the lock back.
* **Miner, verifier, synchronizer, network.** State read before an `await` is used
  after it (leaves, presence of a block); requests and answers are dropped, late,
  or answered by everyone; a time limit of 200 ms races with the answers. Correct
  means: a block whose ancestors were obtained ends up stored, a branch holds a
  transaction once, nothing is stored that would not pass verification, a miner
  has what it announces, and no chain is harmed by the company of the others.

## Modules

| Module | Models | Note |
|---|---|---|
| `Metadata` | slot arithmetic of `metadata.rs` | `slot_secs` of the node, `chain_slot_secs` of its chain and `query_slots` are parameters |
| `Blockchain` | the struct `Blockchain` and its methods, as operators on a record | pure |
| `ChainStore` | the chain of one node over time, behind its lock | one action per method |
| `LongestChain` | what a chain store promises: a tree that grows by children and is cut back to a longest branch | abstract |
| `Analysis` | trunk, edit distance and edit score of chains | pure, with properties of `ChainStore` |
| `Mempool` | the struct `Mempool` and its operations, as operators on a record | pure |
| `Proposer` | the mempool with the proposer, the service, the tick and the clients | one action per critical section |
| `ForkResolver` | `run_blockchain`, the two clocks, and the lock of the chain | |
| `ResponseSet` | `synchronizer_response_set` and its three operations, as operators on a table | pure |
| `Synchronizer` | `run_verifier`: the recursion of `synchronize_chain`, `request_block` and its time limit, on a chain that other tasks change | uses `LongestChain` for that chain |
| `Block` | the struct `Block` while it is proposed, mined and verified, as operators on a record | pure |
| `Cluster` | the nodes of a simulation: miners, verifiers, answering services and resolvers on one chain per node, and the network between them | uses `Blockchain` for the chains, and `ChainStore` as what each node implements |
| `MCChainStore`, `MCProposer`, `MCReentry`, `MCForkResolver`, `MCSynchronizer`, `MCCluster` | instances for TLC, and history for one property | |
| `BlockchainProofs` | lemmas about the operators of `Blockchain`, on a chain by itself | used wherever there is a chain |
| `ChainStoreProofs`, `AnalysisProofs`, `ProposerProofs`, `ForkResolverProofs`, `SynchronizerProofs`, `ClusterProofs` | theorems | |

### How state and actions correspond to the code

*Blocks.* A block is known by its hash. `calculate_hash` covers the timestamp, the
previous hash, the nonce and the transactions, so hashes determine blocks (taking
SHA-256 to be injective), and the fields of `Block` are constant functions
`previous_hash`, `slot_number`, `transactions` on the set `Hash`. Because a hash
covers its parent's, previous hashes form no cycle; `Lineage` gives for each hash
the finite set of hashes below it, down to genesis. `BlockAssumption` and
`LineageAssumption` say exactly this. Universes may hold genesis-shaped blocks:
slot 0, no transactions, any parent, which is what a miner that receives no
proposal mines (`node.rs:442`).

*The chain.* `chain.blocks` maps a stored hash to its recorded children,
`chain.leaves` and `chain.slots` are the other two indexes. `add_block` is one
operator built from `IsOrphan`, `InsertBlock`, `InsertLeaf` and `InsertSlot`, in
the terms of `chain.rs:122-152`: a stored block that is added again loses its
children and becomes a leaf, as `HashMap::insert` and `HashSet::insert` make it.
`get_main_chain` compares the walks from the leaves in the order of a `HashSet`,
so `get_chain_tip` is the set of tips it may pick and every use of it is
nondeterministic. `resolve_chain` clears the indexes and adds the blocks of the
main chain back. The module gives the result in closed form (`PathChain`), and beside
it the loop itself (`Replay`); `ResolveIsReplay` says that the two agree, checked in
every state of a run and proved for chains of any length.
The walk stops at a hash that is not stored; `Walk` says so without recursion, so
that the module can be proved about.

*Critical sections.* A task holds the write lock of the chain or of the mempool
for one method at a time, so one method is one action; in between, every other
task may run. `ChainStore!AddBlock` is the lock section of `synchronize_chain` and
of `mine_next_block`: any block of the universe whose time has come, any number
of times, orphan or not. That covers what stale snapshots of the leaves, late
answers and rebroadcasts can do to one chain.

*The mempool.* The `Mempool` of a node asks a `Blockchain` that `default()` makes
and nobody writes (`mempool.rs:203-212`), so `blockchain_has_transaction` is
`FALSE`; the real chain is never asked. `pop_from_queue` takes the last element.
`tick_mempool` re-enters in the order of a `BTreeSet`, by timestamps and then by
random nonces: any order.

*The verifier.* `syncing` is the stack of calls of `synchronize_chain`, outermost
first; `pc` says what the innermost is about. Between `has_block`, each answer and
`add_block` all locks are free, and each is an action of its own. The rest of the
world is one environment: any block may arrive as mined, any block or `None` as an
answer, in any order, any number of times or never. That contains what a network
that drops, delays and reorders copies, and other nodes that answer everybody's
requests to everybody, can deliver; it also contains answers queued up behind
others. A mined block has passed `verify_block`, which checks what the miner has
made true. The chain is its set of stored blocks: `has_block` and `add_block`
depend on nothing else, and `ChainStore` is shown to implement `LongestChain` on
that set. An entry of the table is a count and the block that is kept, or `NoBlock`.
What `request_block` returns is whatever block the answer is (`ReceiveMine`) or the
entry holds (`ReceiveOther`, `TimeOut`); that it is the one asked for is left to
`CallsFollowLineage` to say. `GiveUp` keeps, as history, whether the
parent that was not obtained is missing.

*The network.* `broadcast_message` gives every node, the sender included, a copy of
each message, and each copy is dropped or delayed by itself. `Cluster` keeps what was
broadcast as a set that only grows, from which a node takes a message at any time or
never. That a mined block, or an answer, may be taken more than once stands for equal
messages that several nodes send. A proposal is taken at most once from each sender
(`taken`), in groups of up to five, in any order. Two proposals of one node that agree
in time and transactions count as one. Proposals, mined blocks and answers are
messages; requests are the set `Requested` of the hashes somebody may be asking for.
The transactions of the clients take the same way, but end in the mempools, of which
`Cluster` shows only what they may offer: any set of `Offers`, dated any time since the
start.

*The miner.* `receive_proposed_block` and the lookup of the transactions are one action,
`SelectTransactions`, since what is received does not depend on the chain; the second
read lock, under which the leaves are read, is `MineOnLeaves`. Each mined block is stored
under the write lock (`StoreMined`) and sent when that lock is gone (`send_mined_block`):
in between, other tasks of the node, the answering service among them, find a block
that has not been announced. When no proposal arrives in time the body of the
genesis block stands in for one. A block is a record here, because a proposal has no
parent and a candidate not yet its hash; mining picks, of the hashes in `Solved`, the
one that fits the fields (`MiningAssumption`: there is at most one, since the nonce is
counted up from zero to the first that meets the difficulty). A chain holds hashes, as
in `Blockchain`. The second `add_block` for a block on the tip (`node.rs:518-521`) would
repeat a refusal, and `node.rs:395` compares a block without a parent with one that has
one; both change nothing and are left out. `since`, `round` and `resolved` are history:
`since` is how many resolutions there had been when the leaves were read.

*The verifier in a cluster.* `Synchronizer` says which ancestors are asked for and when
a synchronization ends. In `Cluster` that is loosened: a mined block that passes may
be added at any time, and so may any block that was sent in answer to a request.

*Time.* `Proposer` counts whole seconds for the two bounds of its tasks and lets
them stop at the bound. `ForkResolver` has the wall clock (`SystemTime`), which may
be set back, and the time slept by the runtime's clock, which only grows. `Synchronizer` lets the 200 ms of a request
end at any point and bounds the answers that fit in. Nothing
else in the modules depends on how long a step takes.

*Metadata of the chain.* `ChannelFullNode::default` gives the chain its own
`BlockchainMetadata::default()` (8-second slots) while the simulation gives the
node `fast_chain()` (2-second slots): the query window of the chain and the slots
of the blocks are computed with different lengths. `Metadata` has both,
`chain_slot_secs` and `slot_secs`; the disagreement of units that the run `query` shows,
with the lengths of the code, is there for either. `chain` gives both one second, the
only length at which `QueryWindowInSlots` can hold, and `included_twice` does so in order
to show a repetition that is not the query's fault; `readded` and `cluster` have the
lengths of the code.

## Runs

| Run | Question | Instance | Result |
|---|---|---|---|
| `chain` | the chain behind its lock | 10 blocks: three forks of depth up to 3, among them a genesis-shaped block in the middle of a branch; clock of 3 values; 1 211 states | holds |
| `query` | the query window | as above, slots of 2 s for the blocks and of 8 s for the query, 4 slots back, as in the code | violated |
| `readded` | the parent's entry after add_block | as above | violated |
| `cluster` | two nodes and their network | 2 nodes, one transaction, 2 proposals, 2 blocks of one miner and 1 of the other, 1 resolution, two levels of blocks above genesis, 2 seconds; 301 476 states | holds |
| `included_twice` | a transaction on one branch twice | as above, slots of 1 s | violated |
| `mempool` | proposer, service, ticks, clients | 2 transactions, 2 submissions each, blocks of 2 pops, 134 049 states | holds |
| `keeps_looking` | pop of an undeliverable transaction | as above | violated |
| `reentry` | how long a transaction stays in flight | 1 submission each | violated |
| `resolver` | clocks and lock of `run_blockchain` | 2 other tasks, 9 seconds (four rounds), 2 steps back, 7 604 states | holds |
| `resolver_back` | the little naps | 1 step back | violated |
| `synchronizer` | the verifier, its requests and its chain | 6 blocks: a branch of three above genesis and a fork of two, 2 mined blocks, 2 answers per request, 60 997 states | holds |
| `sync_counts` | what the response table counts | as above | violated |

What the properties say is written above each of them in the modules. What the
runs show:

* **chain.** `LineageStored`: no orphan is ever stored. `LeavesCoverTree`: every
  stored block is below a leaf, although leaves may be wrong in the other
  direction (see `readded`), so `get_main_chain` overlooks no branch.
  `MainChainIsLongest`, `MainChainNeverShrinks`, `TipExists`: the tip is a highest
  stored block, whatever was re-added. `ChildLinksSound`, `SlotIndexExact`: the
  other two indexes name only what is stored. `ResolveIsReplay`: adding the main
  chain back into cleared indexes refuses nothing and rebuilds all of them.
  `QueryWindowInSlots` holds with slots of one second. `ImplementsLongestChain`:
  seen through the set of its blocks the store does nothing but grow by children
  and be cut to a longest branch. `TrunkAfterResolve`: `get_trunk` follows recorded
  children, and right after a resolution finds the main chain without its tip,
  although before one it may miss a fork (see `readded`). `ScoreMeasuresForks`: the
  edit distance of two branches is the longer stretch above their fork.
  Three forks of depth three are enough for a
  longest branch to lose its lead, for ties, for a fork below the main chain and
  for cut blocks that come back; a deeper tree repeats these cases.
* **mempool.** Two transactions submitted twice give copies in the channel, in the
  queue and in flight at once. A block of two pops ends on its count or on time.
  `InFlightReenters` and `WaitingIsForOthers` are checked under fairness of every
  task: a transaction in flight comes back to the queue, and the queue is never left
  waiting by a proposer that wastes its pops or its time. `InFlightWasOffered`: a
  transaction in flight is in the block being built or in one that was sent, so none
  waits for a tick without having been offered. That each transaction gets its turn is not said, and
  not so: the queue is last in, first out.
* **resolver.** Two rounds with a step back between them suffice to reach the little
  naps; with two other tasks there is always one that waits behind the resolver.
  `LockedWhenDue` says when the chain is taken at all; where the clock is not set back
  it leaves no room for the naps, which would never end. `EveryTaskServed`: then whoever
  asks for the chain gets it.
* **synchronizer.** `CallsFollowLineage`: no stray, late or kept answer makes the
  recursion leave the lineage of its block, so it is never deeper than that.
  `ObtainedIsStored`: a block is stored at the end unless an ancestor was given up
  while missing, or a resolution cut a block; the tests of presence, the requests
  and the additions lie far apart. `SynchronizationAdvances`: each step
  of the verifier lowers `StepsLeft`, so that a block of height `k` costs at most
  `k * (MaxTries + 3) + 1` of them whatever answers come, and answers to other requests
  do not hold it up for longer. `SynchronizationEnds`: always, with a
  network that delivers nothing. The branch of three makes the recursion three calls
  deep with kept answers for two of them; the second mined block finds the table as
  the first left it; the fork lets resolutions cut either branch.

* **cluster.** `StoredWouldPass`: only a block that arrives as mined is verified, the
  ancestors that answers bring are not, and still everything stored would pass, and was
  announced by a node, but for the block a miner has stored and is about to send; no
  answer gives that block away. `LineageAnnounced`: whatever is announced hangs on
  announced blocks, so that a node that lacks ancestors asks for blocks somebody has
  sent, although a leaf is not looked at again before it is mined on. `MinedIsStored`: a miner holds what it announced
  until its forks are resolved, although it does not look at the leaf again before it
  adds a block. `MinerNotOutrun`: when a resolution comes between reading the leaves and
  storing, the block is refused and announced all the same, or cut after it was
  announced; even so the miner's chain is never more than one block lower than what it
  announced.
  `NodesRunChainStore`: what one node does to its chain in the company of others is
  what `ChainStore` does, so that the properties of the run `chain`, but for the query
  window, and their proofs hold of every node. One node proposes and resolves and the other only
  mines, which is enough for a block to reach a node before its parent, for a leaf to
  be cut while it is mined on, for both to mine one proposal and for a miner without
  proposals to mine the genesis body. A second level is needed for a block on a mined
  block; a third would repeat it. Universes hold an unsolved hash beside the solved
  ones. `cluster` and `included_twice` stop at their bounds, so deadlock is not
  checked there.

### Disagreements between the code and what it says

1. `has_transaction` compares slot numbers with seconds (`chain.rs:219`): with slots
   longer than a second, as all of the code are, it finds nothing, and miners never drop
   a transaction that is on the chain (`query`).
2. A block that is added again forgets its children and is a leaf again
   (`chain.rs:131`, `chain.rs:142`); the parent of every new block is added again by
   `synchronize_chain` (`readded`).
3. `pop_transaction` does not "continue looking" (`mempool.rs:144`,
   `keeps_looking`).
4. A tick re-enters transactions however short a time they have been in flight, even
   before the block they were popped into has been sent (`mempool.rs:165`, `reentry`).
5. The little naps never read the clock again and hold the lock of the chain
   (`node.rs:853`, `resolver_back`).
6. A request answered directly is never uncounted, and a request with one count
   loses its entry at the first foreign answer (`node.rs:736`, `node.rs:680`,
   `sync_counts`). The verifier survives this, as `synchronizer` shows, because it
   takes its own answer without asking the table and the time limit covers the rest;
   what is lost are answers that could have been kept, and what is left behind are
   entries nobody removes.
7. `mine_next_block` drops "transactions that are already in the chain" (`node.rs:479`)
   but reads the leaves it mines on after it has looked, under a second lock. A block
   stored in between is mined on with the same transactions, and because every proposal
   reaches every miner it may be another miner's block of the same proposal
   (`included_twice`).

### Fairness

`Synchronizer!Fairness` asks that the verifier's own steps and its time limit
happen, and nothing of the network or the other nodes. `Proposer!Fairness` and
`ForkResolver!Fairness` ask weak fairness of each task's
next step, of the lock, and of the clock. The code justifies it: the tasks are
branches of one `try_join!` that polls every future that has been woken, `tokio`'s
`RwLock` is granted first come first served, a channel wakes its receiver, and a
`sleep` ends. Nothing is asked of clients, of other nodes, or of a wall clock
that is set back.

## Theorems

All are theorems of `Spec`, for every value of the constants the assumptions allow.

* **BlockchainProofs.** Lemmas about one chain, with no state machine around it.
  Heights grow by one along a lineage, and a lineage has exactly one block of each
  height up to its top (`OneBlockPerHeight`). `WholeTree(c)` says of a chain what every
  operation preserves: its type, `AncestorsStored`, `LeavesOnTop`, `LinksSound`,
  `SlotsExact`, `HasHighest`. Ancestors alone are not enough to compare branches: that
  every stored block lies below a leaf is what makes the longest walk from a leaf a
  highest stored block, and that there is a highest one at all is carried along, as the
  universe may be infinite. `GenesisIsWhole`, `AddBlockIsWhole` and `ResolveIsWhole` are
  the three operations; `TipsNeverLower` compares the tips before and after an addition.
  `ReplayIsPathChain`: the loop of `resolve_chain` refuses no block and ends with
  `PathChain`. There is no induction over the path; a shortest prefix on which the two
  differ is taken (`LeastNat`), and the block that follows refutes it.
* **ChainStoreProofs.** The inductive invariant is `WholeTree(chain)` and that the clock
  is a number, and every action is one of the lemmas above. From it follow
  `TypeCorrect`, `NoOrphanStored`, `LeavesCover`, `NoDanglingChild`,
  `SlotIndexAgrees`, `LongestReturned`, `ReplayRebuilds`, `TipAlwaysExists`, the action
  property `NeverShrinks`, and `Implementation`: every step of `ChainStore` is a step or
  a stutter of `LongestChain`. `QueryFindsNothing` is the disagreement of the run `query`
  as a theorem: with slots of two seconds or more no transaction is ever found. The
  number of a slot is at most half the time, the lower bound is less than a window
  and a slot before the time, and the node was started later than twice that. That
  slot numbers do not run ahead of the clock is an invariant beside the inductive one.
* **AnalysisProofs.** `log2` and the table of the edit distance are recursive functions
  in `Analysis`. To say what one computes, a function that satisfies the same equation
  is given or built, so that the recursive one satisfies it too, and the least argument
  at which the two differ is refuted. `TrunkIsMainChain` says that after a resolution
  `get_trunk` walks the whole main chain up to its tip; that it is called tall needs
  `Log2Bounds`. For `ScoreIsForkLength` two branches, tip first, share a suffix and
  nothing else. `Distance` is the closed form of the table: prefixes are as far apart as
  the longer one is long while one of them ends above the fork, and beyond that the
  shared parts may be matched instead once they are lined up. `DistanceMatches` and
  `DistanceEdits` are the cases of the dynamic program for it, and at the last entry it
  is the longer stretch above the fork (`SharedSuffixDistance`).
* **ProposerProofs.** The inductive invariant adds to the three invariants that the
  loop of `build_block` is within its bounds and that `in_flight` is finite (a tick
  could not list it otherwise). From it `TypeCorrect`, `NothingLost`,
  `ProposedHeld`. `InFlightOffered` needs besides that the last block was sent before the
  next is begun. `NeverMultiplied` counts:
  the lemmas `ConcatCount`, `HeadCount` and `ListingCount` say how many occurrences a
  sequence has of what it is made of, and with them each operation of the mempool
  makes no more copies than were submitted.
* **ForkResolverProofs.** The inductive invariant adds how far the wall clock must
  have moved since `last`: at least as far as the big nap has lasted, but for what
  it was set back, and that the lock is the resolver's in the places where it decides.
  From it `TypeCorrect` and `TakenWhenDue`.
* **SynchronizerProofs.** The inductive invariant adds that genesis is stored, that
  every entry of the table keeps no other block than its own (`SoundTable`), that
  place, calls and tries agree (`CallsInHand`: the block whose parent is asked for is
  not genesis, so that the parent has a hash), and `ReadyToAdd`: while nothing
  missing was given up or cut, the block to be added, or its parent, is stored. That
  holds of the next call when one returns because the calls follow the lineage.
  From it `TypeCorrect`, `LineageFollowed`, and the action property
  `SynchronizedIsStored`. The lemmas about the response table say for each of its
  operations that every entry left in it has been asked for (`RequestIsTable` and its
  like) and keeps its own block (`LookIsSound` and its like), so that what a look
  returns is what was wanted (`ReturnsWanted`). `StepsRunOut` is a ranking argument: `StepsLeft` is a natural
  number, and every step of the verifier lowers it, since the call for a parent costs
  less than what its child may still have had to spend on asking (`LowerCostsLess`). What
  is left of `SynchronizationEnds` is that the verifier is scheduled, which is fairness.
* **ClusterProofs.** The inductive invariant adds to the type and the three safety
  invariants: that each chain is a `WholeTree` (`ChainsOK`); that no block is dated ahead of the
  clock (`BlocksDated`); that the blocks a miner has still to store or to send would pass,
  have their parents announced or about to be, and, unless forks were resolved since the
  leaves were read, stored (`TodoOK`, `HandOK`); that the history runs forward
  (`SinceOK`); and that of every announced block the chain of its miner holds one of at
  least the height of its parent (`MinedFollow`), which a resolution keeps because it
  keeps a longest branch. Without the parts about blocks in hand, neither
  `StoredWouldPass` nor `MinedIsStored` survives the two steps that store and send.
  From it `TypeCorrect`, `StoredPasses`, `BranchesAnnounced`, `AnnouncedIsHeld`,
  `NeverOutrun`, and the refinement `NodesRefine`: each step is for each node's chain a step or a stutter of
  `ChainStore`, whose guard on time holds because a block is stored only when its slot
  has come. A node starts with genesis, where `ChainStore` is after its first step.
  Because of that `ChainStore`'s theorems do not carry over by themselves;
  `EveryNodeKeepsItsTree` and `NodesNeverShrink` state its invariants, and that no main
  chain gets shorter, for every node, from the same lemmas of `BlockchainProofs`.

Assumptions: `MetadataAssumption` (slots last at least a second, else the code
divides by zero), `BlockAssumption`, `LineageAssumption` (above), `ClockAssumption`
(the node starts late enough for the query window not to wrap below the epoch),
`MiningAssumption` (a block's slot is that of its timestamp, and a block content has at
most one solved hash), `ClusterAssumption`,
`TxnAssumption`, `ProposerAssumption`, `ResolverAssumption`, `SynchronizerAssumption` (ranges of
parameters, that names differ, and that a parent is lower than its child, as the sizes
of lineages are). TLC evaluates all of them on the instances.

Only model-checked: the four liveness properties `InFlightReenters`,
`WaitingIsForOthers`, `EveryTaskServed` and `SynchronizationEnds`, since the prover has no
rule for fairness here, and `QueryWindowInSlots`, which holds with slots of one second
only, a length the code does not have. Every other safety and action property of the
passing runs is a theorem.

## Not modelled

* Printing (`pretty_print_tree`), `main.rs`, the threads and the time limit of `lib.rs`,
  and the generators of the tests: no state a property is about.
* How a hash is computed, and how long that takes: a hash is an element of a set, and
  the difficulty picks a subset.
* How many answers wait in a channel (`node.rs:753`): any answer may come at any time.
* The error paths of `Result`: every operation modelled returns `Ok`, as no channel
  is closed while a node runs.
* `compute_transaction_success_rate` and its stream: members of a set are counted.
* `has_transaction_expired`, `get_fork_resolution_time`, `peek_from_queue`: called by
  nothing.

## Plan

What is left, in this order:

1. `Synchronizer` against the part of `Cluster` that loosens it: that every addition of
   the verifier is one that `Cluster` allows.
2. Nodes that hear of every block: that they agree on the height of the main chain once
   mining stops, under fairness of the network.
