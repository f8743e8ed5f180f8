------------------------ MODULE PublicationOutcomes ------------------------
(***************************************************************************)
(* What the methods of a ConsumerTransaction may do, as seen by their      *)
(* caller: for each method the set of transactions it may leave behind.    *)
(* RuntimeInstance is written with these outcomes; PublicationContract     *)
(* turns them into a specification that ConsumerTransaction implements.    *)
(***************************************************************************)

\* state      : _state
\* public     : an artifact of this transaction is visible
\* unremoved  : its report says that something could not be cleaned up
\* unreleased : finalize_pending
\* recovered  : it holds quarantine authorities
Txn == [state : {"none", "preparing", "staged", "accepted", "rejected",
                 "failed", "sealed"},
        public : BOOLEAN, unremoved : BOOLEAN, unreleased : BOOLEAN,
        recovered : BOOLEAN]

Seen(s, p, u, l, r) ==
  [state |-> s, public |-> p, unremoved |-> u, unreleased |-> l, recovered |-> r]

Blank(s) == Seen(s, FALSE, FALSE, FALSE, FALSE)

\* A failure may leave artifacts and report residues, and it may leave a
\* quarantine authority behind.
Recovering(t) == {t.recovered, TRUE}

Failures(t) ==
  {Seen("failed", p, u, t.unreleased, r) :
     p \in BOOLEAN, u \in BOOLEAN, r \in Recovering(t)}

\* The constructor: everything is staged, or nothing of it remains except
\* what the report names.
ConstructOutcomes(t) ==
  {Seen("staged", t.public, t.unremoved, t.unreleased, t.recovered)} \cup
  {x \in Failures(t) : ~x.public}

\* accept(): published (or skipped) completely, or compensated; what stays
\* public after a failure is reported as not removed.
AcceptOutcomes(t) ==
  {Seen("accepted", p, t.unremoved, t.unreleased, r) :
     p \in BOOLEAN, r \in Recovering(t)} \cup
  {x \in Failures(t) : x.public => x.unremoved}

\* abort(): reject() of a staged, rollback_accepted() of an accepted
\* transaction, and nothing for a resolved one.
AbortOutcomes(t) ==
  IF t.state \notin {"staged", "accepted"} THEN {t} ELSE
    {Seen("rejected", FALSE, t.unremoved, t.unreleased, t.recovered)} \cup
    {x \in Failures(t) : x.unremoved /\ (x.public => t.public)}

\* seal(): only what was published can have an unfinished release.
SealOutcomes(t) ==
  {Seen("sealed", t.public, t.unremoved, u, t.recovered) : u \in {FALSE, t.public}}
=============================================================================
