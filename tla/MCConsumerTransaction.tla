----------------------- MODULE MCConsumerTransaction -----------------------
(* Model-checking instance of ConsumerTransaction. *)
EXTENDS ConsumerTransaction

\* Bound: a method is interrupted in two plans, one with every failure action
\* and one in which every failure compensates.  All plans run uninterrupted.
InterruptedPlans ==
  interrupts = 0 \/ action \in {<<"Skip", "Retry", "FailRun">>,
                                <<"FailRun", "FailRun", "FailRun">>}

\* Bound: at most one effect leaves an inode in quarantine.
OneQuarantine == Cardinality(quarantined) <= 1
=============================================================================
