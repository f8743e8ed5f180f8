------------------------- MODULE MCRuntimeInstance --------------------------
EXTENDS RuntimeInstance

\* Bound: the first run takes up to two steps.  The second starts after at most
\* one accepted step, takes one step, and neither run rejects an attempt then.
\* With a quarantine race it only publishes the samples of its start.
SecondRun ==
  runs = 2 => /\ entry.step <= 1 /\ temporal.rejected = 0
              /\ steps = 0 \/ Resting
              /\ races = 0 \/ mode = "fire"
=============================================================================
