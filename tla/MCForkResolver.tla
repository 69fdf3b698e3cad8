--------------------------- MODULE MCForkResolver ---------------------------
(***************************************************************************)
(* Two tasks beside the resolver, say the miner and the verifier.          *)
(***************************************************************************)
EXTENDS ForkResolver

CONSTANTS miner, verifier

MCTask == {miner, verifier}

=============================================================================
