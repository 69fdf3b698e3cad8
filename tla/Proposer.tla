------------------------------ MODULE Proposer ------------------------------
(***************************************************************************)
(* The mempool of one node and the three tasks that share it, each waiting *)
(* for its write lock once per operation (mini_chain/node.rs, client.rs):  *)
(*    run_mempool_service   pushes what the transaction channel delivers   *)
(*    run_proposer          pops transactions into a block, sends it, and  *)
(*                          starts the next one                            *)
(*    run_mempool           sleeps, then ticks the mempool over            *)
(* Clients submit through the channel or push to the mempool directly.     *)
(***************************************************************************)
EXTENDS Mempool

CONSTANTS
    block_size,                 \* pops per block, successful or not
    maximum_proposer_time,      \* seconds after which a block is sent
    mempool_reentrancy_secs,    \* seconds between ticks
    MaxSubmits                  \* bound: how often one transaction is submitted

ASSUME ProposerAssumption ==
    /\ block_size \in Nat \ {0}
    /\ maximum_proposer_time \in Nat
    /\ mempool_reentrancy_secs \in Nat
    /\ MaxSubmits \in Nat

VARIABLES
    inbox,          \* the transaction channel, mempool_transaction_receiver
    received,       \* what the service took from it and has not pushed yet
    mempool,        \* the Mempool behind the lock
    pc,             \* where build_block is: idle, popping, waiting, sending
    block,          \* the transactions of the block being built
    iteration,      \* how many of block_size iterations are done
    elapsed,        \* whole seconds since build_block set its time bound
    slept,          \* whole seconds run_mempool has slept
    proposed,       \* the blocks sent to proposed_block_sender, ever
    submits         \* how often each transaction has been submitted

serviceVars == <<inbox, received>>
buildVars == <<pc, block, iteration, elapsed>>
vars == <<serviceVars, mempool, buildVars, slept, proposed, submits>>

-----------------------------------------------------------------------------

Init ==
    /\ inbox = <<>>
    /\ received = NoTxn
    /\ mempool = EmptyMempool
    /\ pc = "idle"
    /\ block = {}
    /\ iteration = 0
    /\ elapsed = 0
    /\ slept = 0
    /\ proposed = {}
    /\ submits = [t \in Txn |-> 0]

(* Clients *)

CountSubmit(t) ==
    /\ submits[t] < MaxSubmits
    /\ submits' = [submits EXCEPT ![t] = @ + 1]

(* ChannelClient::submit_transaction.                                      *)
SubmitToChannel(t) ==
    /\ CountSubmit(t)
    /\ inbox' = Append(inbox, t)
    /\ UNCHANGED <<received, mempool, buildVars, slept, proposed>>

(* MempoolAccessClient::submit_transaction.                                *)
SubmitToMempool(t) ==
    /\ CountSubmit(t)
    /\ mempool' = push_transaction(mempool, t)
    /\ UNCHANGED <<serviceVars, buildVars, slept, proposed>>

(* run_mempool_service *)

receive_mempool_transaction ==
    /\ received = NoTxn
    /\ inbox # <<>>
    /\ received' = Head(inbox)
    /\ inbox' = Tail(inbox)
    /\ UNCHANGED <<mempool, buildVars, slept, proposed, submits>>

add_transaction_to_mempool ==
    /\ received # NoTxn
    /\ mempool' = push_transaction(mempool, received)
    /\ received' = NoTxn
    /\ UNCHANGED <<inbox, buildVars, slept, proposed, submits>>

(* run_proposer *)

StartBlock ==
    /\ pc = "idle"
    /\ pc' = "popping"
    /\ block' = {}
    /\ iteration' = 0
    /\ elapsed' = 0
    /\ UNCHANGED <<serviceVars, mempool, slept, proposed, submits>>

(* Mutant: the loop runs once too often.                                   *)
BugOneIterationMore ==
    /\ iteration' = iteration + 1
    /\ pc' = IF iteration >= block_size \/ elapsed >= maximum_proposer_time
             THEN "sending"
             ELSE "popping"

(* Mutant: a block that takes too long is given up, not sent.              *)
BugTimeDiscards ==
    /\ iteration' = iteration + 1
    /\ pc' = CASE elapsed >= maximum_proposer_time -> "idle"
               [] iteration + 1 >= block_size -> "sending"
               [] OTHER -> "popping"

(* An iteration of the loop ends: on time or on count, the block is done.  *)
EndIteration ==
    /\ iteration' = iteration + 1
    /\ pc' = IF iteration + 1 >= block_size \/ elapsed >= maximum_proposer_time
             THEN "sending"
             ELSE "popping"

PopIntoBlock ==
    LET pop == pop_transaction(mempool) IN
    /\ pc = "popping"
    /\ pop.next # NoTxn
    /\ mempool' = pop.mempool
    /\ block' = block \cup {pop.next}
    /\ EndIteration
    /\ UNCHANGED <<serviceVars, elapsed, slept, proposed, submits>>

(* Nothing to deliver: the proposer sleeps for proposer_wait_ms.           *)
PopNothing ==
    LET pop == pop_transaction(mempool) IN
    /\ pc = "popping"
    /\ pop.next = NoTxn
    /\ mempool' = pop.mempool
    /\ pc' = "waiting"
    /\ UNCHANGED <<serviceVars, block, iteration, elapsed, slept, proposed, submits>>

Awake ==
    /\ pc = "waiting"
    /\ EndIteration
    /\ UNCHANGED <<serviceVars, mempool, block, elapsed, slept, proposed, submits>>

send_proposed_block ==
    /\ pc = "sending"
    /\ proposed' = proposed \cup {block}
    /\ pc' = "idle"
    /\ UNCHANGED <<serviceVars, mempool, block, iteration, elapsed, slept, submits>>

(* run_mempool *)

Tick ==
    /\ slept >= mempool_reentrancy_secs
    /\ mempool' \in tick_mempool(mempool)
    /\ slept' = 0
    /\ UNCHANGED <<serviceVars, buildVars, proposed, submits>>

(* Time passes whatever the tasks do; only the two bounds are told apart.  *)
Second ==
    /\ slept' = IF slept < mempool_reentrancy_secs THEN slept + 1 ELSE slept
    /\ elapsed' = IF elapsed < maximum_proposer_time THEN elapsed + 1 ELSE elapsed
    /\ UNCHANGED <<serviceVars, mempool, pc, block, iteration, proposed, submits>>

Next ==
    \/ \E t \in Txn : SubmitToChannel(t) \/ SubmitToMempool(t)
    \/ receive_mempool_transaction
    \/ add_transaction_to_mempool
    \/ StartBlock
    \/ PopIntoBlock
    \/ PopNothing
    \/ Awake
    \/ send_proposed_block
    \/ Tick
    \/ Second

Spec == Init /\ [][Next]_vars

(* Every task runs: the runtime polls each future that is ready, the lock  *)
(* is fair and held only for one operation, and clocks advance.  Nothing   *)
(* is asked of the clients.                                                *)
Fairness ==
    /\ WF_vars(receive_mempool_transaction)
    /\ WF_vars(add_transaction_to_mempool)
    /\ WF_vars(StartBlock)
    /\ WF_vars(PopIntoBlock \/ PopNothing)
    /\ WF_vars(Awake)
    /\ WF_vars(send_proposed_block)
    /\ WF_vars(Tick)
    /\ WF_vars(Second)

FairSpec == Spec /\ Fairness

-----------------------------------------------------------------------------

(* Type invariant of the mempool and of its tasks.                         *)
TypeOK ==
    /\ inbox \in Seq(Txn)
    /\ received \in Txn \cup {NoTxn}
    /\ IsMempool(mempool)
    /\ pc \in {"idle", "popping", "waiting", "sending"}
    /\ block \subseteq Txn
    /\ iteration \in 0 .. block_size
    /\ elapsed \in 0 .. maximum_proposer_time
    /\ slept \in 0 .. mempool_reentrancy_secs
    /\ proposed \subseteq SUBSET Txn
    /\ submits \in [Txn -> 0 .. MaxSubmits]

(* A transaction, once submitted, is never lost inside the node: it is on  *)
(* its way to the mempool, queued, or in flight, whatever the three tasks  *)
(* do and however often it is submitted again.                             *)
NoTransactionLost ==
    \A t \in Txn : submits[t] > 0 =>
        t \in ToSet(inbox) \cup {received} \cup Held(mempool)

(* What a block offers the mempool still holds, so a block that is dropped *)
(* by the network, or that no miner picks, costs no transaction.           *)
ProposedIsHeld == block \cup UNION proposed \subseteq Held(mempool)

(* Whatever is in flight was offered: it is in the block being built or in *)
(* one that was sent, so that no popped transaction waits in flight for    *)
(* the next tick without any miner ever getting to see it.                 *)
InFlightWasOffered == mempool.in_flight \subseteq block \cup UNION proposed

Occurrences(t, s) == Cardinality({i \in DOMAIN s : s[i] = t})
Present(p) == IF p THEN 1 ELSE 0

(* Copies are never multiplied: pops, ticks and re-submissions that meet   *)
(* in any order leave no more copies of a transaction than submissions.    *)
CopiesBounded ==
    \A t \in Txn :
        Occurrences(t, inbox) + Present(received = t)
            + Occurrences(t, mempool.queue) + Present(t \in mempool.in_flight)
        <= submits[t]

(* A transaction in flight is offered again, however its block ended.      *)
InFlightReenters ==
    \A t \in Txn : t \in mempool.in_flight ~> t \in ToSet(mempool.queue)

(* The queue is last in, first out, so a transaction may wait for ever.    *)
(* But only behind others: as long as anything waits, blocks that offer    *)
(* something are sent again and again, however many pops are wasted on     *)
(* copies of what is in flight and however short the time for a block is.  *)
WaitingIsForOthers ==
    <>[](mempool.queue # <<>>) => []<>(pc = "sending" /\ block # {})

(* A pop that meets an undeliverable transaction continues looking for a   *)
(* valid one (mempool.rs:144).                                             *)
PopKeepsLooking ==
    [][PopNothing => \A t \in ToSet(mempool.queue) :
                        ~ is_transaction_deliverable(mempool, t)]_vars

=============================================================================
