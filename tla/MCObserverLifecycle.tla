------------------------- MODULE MCObserverLifecycle -------------------------
(* Model-checking instance of ObserverLifecycle. *)
EXTENDS ObserverLifecycle
=============================================================================
