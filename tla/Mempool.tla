------------------------------ MODULE Mempool ------------------------------
(***************************************************************************)
(* The Mempool struct of mini_chain/mempool.rs as a value                  *)
(*    queue     : transactions waiting to be put in a block (a Vec)        *)
(*    in_flight : transactions handed to a proposer (a BTreeSet)           *)
(* and its operations.  Each runs under the write lock of the mempool.     *)
(***************************************************************************)
EXTENDS Integers, SequencesExt

CONSTANTS
    Txn,            \* transactions
    NoTxn           \* the None of pop_transaction

ASSUME TxnAssumption == NoTxn \notin Txn

IsMempool(m) ==
    /\ m = [queue |-> m.queue, in_flight |-> m.in_flight]
    /\ m.queue \in Seq(Txn)
    /\ m.in_flight \subseteq Txn

EmptyMempool == [queue |-> <<>>, in_flight |-> {}]

(* Everything the mempool answers for.                                     *)
Held(m) == ToSet(m.queue) \cup m.in_flight

(* The mempool asks a Blockchain of its own, an Arc made by default() that *)
(* is never written: it has no block, hence no transaction.                *)
blockchain_has_transaction(txn) == FALSE

(* The queue is not consulted: it may hold a transaction twice.            *)
is_transaction_acceptable(m, txn) ==
    txn \notin m.in_flight /\ ~ blockchain_has_transaction(txn)

is_transaction_deliverable(m, txn) == is_transaction_acceptable(m, txn)

push_transaction(m, txn) ==
    IF is_transaction_acceptable(m, txn)
    THEN [m EXCEPT !.queue = Append(@, txn)]
    ELSE m

(* Mutants: a pop that only peeks; a pop that marks nothing in flight.     *)
BugPopPeeks(m) ==
    LET txn == IF m.queue = <<>> THEN NoTxn ELSE Last(m.queue)
    IN  IF txn # NoTxn /\ is_transaction_deliverable(m, txn)
        THEN [next |-> txn, mempool |-> [m EXCEPT !.in_flight = @ \cup {txn}]]
        ELSE [next |-> NoTxn, mempool |-> m]
BugPopForgets(m) ==
    IF m.queue = <<>>
    THEN [next |-> NoTxn, mempool |-> m]
    ELSE [next |-> Last(m.queue), mempool |-> [m EXCEPT !.queue = Front(@)]]

(* The last transaction leaves the queue; the caller gets it, and it is in *)
(* flight, only if it is deliverable.                                      *)
pop_transaction(m) ==
    LET txn == IF m.queue = <<>> THEN NoTxn ELSE Last(m.queue)
        rest == [m EXCEPT !.queue = IF @ = <<>> THEN @ ELSE Front(@)]
    IN  IF txn # NoTxn /\ is_transaction_deliverable(m, txn)
        THEN [next |-> txn,
              mempool |-> [rest EXCEPT !.in_flight = @ \cup {txn}]]
        ELSE [next |-> NoTxn, mempool |-> rest]

(* Mutant: in_flight is cleared, not re-entered.                           *)
BugTickClears(m) == {[m EXCEPT !.in_flight = {}]}

(* All of in_flight re-enters the queue, in the order of the BTreeSet,     *)
(* which is the order of timestamps, then of random nonces: any order.     *)
tick_mempool(m) ==
    {[queue |-> m.queue \o listing, in_flight |-> {}] :
        listing \in SetToSeqs(m.in_flight)}

=============================================================================
