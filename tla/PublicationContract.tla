------------------------ MODULE PublicationContract ------------------------
(***************************************************************************)
(* The abstract specification of one consumer transaction: each method is  *)
(* one atomic step.  ConsumerTransaction implements it when no             *)
(* asynchronous exception cuts a method short.                             *)
(***************************************************************************)
EXTENDS PublicationOutcomes

VARIABLE txn

Init == txn = Blank("preparing")

Construct == txn.state = "preparing" /\ txn' \in ConstructOutcomes(txn)
Accept == txn.state = "staged" /\ txn' \in AcceptOutcomes(txn)
Abort == txn' \in AbortOutcomes(txn)
Seal == txn.state \in {"accepted", "sealed"} /\ txn' \in SealOutcomes(txn)

\* A running method takes over a quarantine authority.
Retain ==
  /\ txn.state \in {"preparing", "staged", "accepted"}
  /\ txn' = Seen(txn.state, txn.public, txn.unremoved, txn.unreleased, TRUE)

Next == Construct \/ Accept \/ Abort \/ Seal \/ Retain

Spec == Init /\ [][Next]_txn
=============================================================================
