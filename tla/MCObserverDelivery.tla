------------------------- MODULE MCObserverDelivery -------------------------
(* Model-checking instance of ObserverDelivery. *)
EXTENDS ObserverDelivery
MCFrames == 1..NumFrames
MCThreads == {"main", "worker"}

\* Bound: after an abandoned promotion one process fewer is started.
AbandonedEarly == ledger.exposed => ledger.processes < MaxProcesses
=============================================================================
