------------------------------ MODULE MCAccounts ------------------------------
(* AccountRotation with small sets of accounts. *)
EXTENDS AccountRotation
=============================================================================
