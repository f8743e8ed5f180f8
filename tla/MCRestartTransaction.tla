------------------------ MODULE MCRestartTransaction ------------------------
(* Model-checking instance of RestartTransaction. *)
EXTENDS RestartTransaction
=============================================================================
