------------------------------- MODULE MCControl -------------------------------
(***************************************************************************)
(* Instances of the control session for TLC. The .cfg files choose the     *)
(* devices, the calls and the bounds.                                      *)
(***************************************************************************)
EXTENDS ControlSession

=============================================================================
