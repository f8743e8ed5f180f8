-------------------------- MODULE MCStepController --------------------------
(* Fractions are given here because a cfg cannot write a tuple of numbers. *)
EXTENDS StepController
MCShrink == <<1, 2>>
MCGrowth == <<5, 4>>
=============================================================================
