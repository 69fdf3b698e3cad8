----------------------------- MODULE MCProposer -----------------------------
(***************************************************************************)
(* Small instances of Proposer for TLC: transactions are model values, and *)
(* the code treats them all alike.                                         *)
(***************************************************************************)
EXTENDS Proposer

CONSTANTS t1, t2

MCTxn == {t1, t2}

=============================================================================
