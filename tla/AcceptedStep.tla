---------------------------- MODULE AcceptedStep ----------------------------
(***************************************************************************)
(* What a run promises: the accepted solution and the consumer cursors     *)
(* change together or not at all.  A step advances the solution by one and *)
(* publishes a sample of some clocks; between steps (the start of a run)   *)
(* samples may be published alone.                                         *)
(***************************************************************************)
EXTENDS Integers

CONSTANT Clocks

VARIABLES step,      \* accepted macro step
          published  \* samples published for each clock

Init == step = 0 /\ published = [c \in Clocks |-> 0]

PublishSome ==
  \E due \in SUBSET Clocks :
    published' = [c \in Clocks |-> published[c] + (IF c \in due THEN 1 ELSE 0)]

Advance == step' = step + 1 /\ PublishSome
Sample == step' = step /\ PublishSome

Spec == Init /\ [][Advance \/ Sample]_<<step, published>>
=============================================================================
