-------------------------------- MODULE MCInput --------------------------------
(***************************************************************************)
(* Instances of the input exchange for TLC.                                *)
(***************************************************************************)
EXTENDS InputExchange

MessageSymmetry == Permutations(Messages)

=============================================================================
