---------------------------- MODULE MCRelayBinding ----------------------------
(***************************************************************************)
(* A small instance of RelayBinding.                                       *)
(***************************************************************************)
EXTENDS RelayBinding
=============================================================================
