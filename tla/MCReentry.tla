----------------------------- MODULE MCReentry ------------------------------
(***************************************************************************)
(* Proposer with the age of every transaction in flight.                   *)
(***************************************************************************)
EXTENDS MCProposer

VARIABLE age        \* whole seconds each transaction has been in flight

AgeInit == Init /\ age = [t \in Txn |-> 0]

AgeNext ==
    /\ Next
    /\ age' = [t \in Txn |->
                 IF t \notin mempool'.in_flight THEN 0
                 ELSE IF Second /\ age[t] < mempool_reentrancy_secs
                      THEN age[t] + 1
                 ELSE age[t]]

AgeSpec == AgeInit /\ [][AgeNext]_<<vars, age>>

(* mempool_reentrancy_secs is the time a transaction is in flight before   *)
(* it is re-entered (metadata.rs:48).                                      *)
InFlightForReentrancySecs ==
    [][\A t \in mempool.in_flight \ mempool'.in_flight :
          age[t] >= mempool_reentrancy_secs]_<<vars, age>>

=============================================================================
