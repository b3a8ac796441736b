-------------------------- MODULE MCProviderAdapter --------------------------
(***************************************************************************)
(* Instances of ProviderAdapter; the .cfg files choose the endpoints and   *)
(* limits.                                                                 *)
(***************************************************************************)
EXTENDS ProviderAdapter
=============================================================================
