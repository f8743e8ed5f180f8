-------------------------- MODULE MCCollectiveOutput --------------------------
(* Model-checking instance of CollectiveOutput. *)
EXTENDS CollectiveOutput
=============================================================================
