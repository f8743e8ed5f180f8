----------------------- MODULE RuntimeInstanceProofs -----------------------
(***************************************************************************)
(* Proofs about RuntimeInstance for any number of clocks, runs, steps and  *)
(* retries, and every outcome of the consumer transactions.                *)
(***************************************************************************)
EXTENDS RuntimeInstance, FiniteSetTheorems, TLAPS

\* The macro step that the run has accepted.
Base == IF snap = None THEN engine ELSE snap

\* The statements at which no transaction is open.
Outside == {"idle", "loop", "enter", "begin", "raise"}

\* The statements between the snapshot of the envelope and its end.
Inside == {"begin", "attempt", "plan", "stage", "commit", "accept", "finalize",
           "abort", "rollback", "restore"}

\* A step runs in an envelope; only a step can be rejected, and an attempt is
\* within the budget.
ModeInv ==
  /\ pc \in {"enter", "begin", "attempt", "commit", "finalize", "rollback", "restore"}
       => mode = "step"
  /\ error = "rejected" => mode = "step"
  /\ mode = "step" /\ pc \notin {"idle", "loop"} => steps < MaxSteps
  /\ pc \in {"enter", "begin", "attempt"} => tries <= RetryBudget

\* Where the engine stands relative to the snapshot and the temporal authority.
NativeInv ==
  /\ committed => snap # None
  /\ pc \in Outside \cup {"seal"} \/ mode = "fire"
       => snap = None /\ engine = temporal.step
  /\ pc = "attempt" => begun /\ snap = engine /\ engine = temporal.step
  /\ mode = "step" /\ pc \in {"plan", "stage", "commit", "accept", "finalize"}
       => begun /\ snap # None /\ engine = snap + 1 /\ engine = temporal.step
  /\ mode = "step" /\ pc \in {"abort", "rollback"} => snap = None \/ begun
  /\ pc = "restore" => snap = None

\* The envelope snapshot is the accepted state, books included.
EnvelopeInv ==
  mode = "step" /\ pc \in Inside =>
    /\ env.temporal.step = Base
    /\ env.cursors = cursors /\ env.reports = reports

\* A run that has accepted no step yet still stands on its entry state.
EntryInv ==
  steps = 0 /\ pc # "idle" /\ ~(pc = "seal" /\ mode = "step") => entry.step = Base

\* The states of the open transactions at each statement.
Open ==
  [p \in {"stage", "commit", "accept", "finalize", "seal", "abort"} |->
     CASE p = "stage" -> {"none", "staged"}
       [] p = "commit" -> {"staged"}
       [] p = "accept" -> {"staged", "accepted"}
       [] p = "finalize" -> {"accepted"}
       [] p = "seal" -> {"accepted", "sealed"}
       [] p = "abort" -> {"none", "staged", "accepted", "failed"}]

\* Which transactions exist, and what they may already have made public.
TxnInv ==
  /\ \A c \in Clocks : txn[c].state = "none" => txn[c] = Blank("none")
  /\ \A c \in Clocks : txn[c].state = "staged" => ~txn[c].public
  /\ \A c \in Clocks \ due : txn[c].state = "none"
  /\ IF pc \in DOMAIN Open THEN \A c \in due : txn[c].state \in Open[pc] ELSE due = {}

\* The transaction of clock c has published a sample that no cursor counts yet.
Uncounted(c) == txn[c].state \in {"accepted", "sealed"} /\ txn[c].public

\* Every public artifact is counted by a cursor, named by a report as not
\* removable, or owned by an open transaction.
ArtifactInv ==
  \A c \in Clocks :
    artifacts[c] = cursors[c] + stray[c] + (IF Uncounted(c) THEN 1 ELSE 0)

\* The reports of published samples of clock c.
Published(rs, c) == {i \in DOMAIN rs : rs[i] = [clock |-> c, public |-> TRUE]}

\* Cursors count reports.
CountInv == \A c \in Clocks : cursors[c] = Cardinality(Published(reports, c))

\* The registry knows recovery q, or a transaction that will register it does.
Owned(q) ==
  \/ q \in registry.retained \cup registry.restored
  \/ \E c \in Clocks : txn[c].state # "sealed" /\ q \in authority[c]

\* Every unreleased resource has a finalizer, and every quarantined inode an
\* owner, unless the constructor that put it there failed.
OwnersInv ==
  /\ holding \subseteq finalizers
  /\ \A c \in Clocks : txn[c].state = "none" => authority[c] = {}
  /\ \A q \in quarantines \ orphans : Owned(q)

\* A staged checkpoint holds what the step will accept.
PayloadInv ==
  /\ payload # None /\ pc \in {"stage", "commit", "accept", "finalize", "seal"} =>
       payload = [step |-> engine, cursors |-> Predicted(due)] /\ due \cap Skipping = {}
  /\ \A c \in Clocks \ Skipping :
       txn[c].state \in {"accepted", "sealed"} => txn[c].public
-----------------------------------------------------------------------------
(***************************************************************************)
(* What the methods of a consumer transaction can leave behind             *)
(***************************************************************************)

\* The record that a caller sees has the fields it is made of.
LEMMA SeenFacts ==
  ASSUME NEW s, NEW p, NEW u, NEW l, NEW r
  PROVE  /\ Seen(s, p, u, l, r).state = s
         /\ Seen(s, p, u, l, r).public = p
         /\ Seen(s, p, u, l, r).unremoved = u
         /\ Seen(s, p, u, l, r).unreleased = l
         /\ Seen(s, p, u, l, r).recovered = r
BY DEF Seen

\* It is a transaction when its fields have the right domains.
LEMMA SeenType ==
  ASSUME NEW s \in {"none", "preparing", "staged", "accepted", "rejected", "failed", "sealed"},
         NEW p \in BOOLEAN, NEW u \in BOOLEAN, NEW l \in BOOLEAN, NEW r \in BOOLEAN
  PROVE  Seen(s, p, u, l, r) \in Txn
BY DEF Seen, Txn

\* The fields of a transaction.
LEMMA TxnFields ==
  ASSUME NEW t \in Txn
  PROVE  /\ t.public \in BOOLEAN /\ t.unremoved \in BOOLEAN
         /\ t.unreleased \in BOOLEAN /\ t.recovered \in BOOLEAN
BY DEF Txn

\* An authority that was held before is still held.
LEMMA RecoveringFacts ==
  ASSUME NEW u \in Txn, NEW r \in Recovering(u)
  PROVE  r \in BOOLEAN /\ (u.recovered => r)
BY TxnFields DEF Recovering

\* What a failure leaves.
LEMMA FailureFacts ==
  ASSUME NEW u \in Txn, NEW t \in Failures(u)
  PROVE  /\ t \in Txn /\ t.state = "failed"
         /\ u.recovered => t.recovered
<1>1. PICK p \in BOOLEAN, m \in BOOLEAN, r \in Recovering(u) :
        t = Seen("failed", p, m, u.unreleased, r)
  BY DEF Failures
<1>2. r \in BOOLEAN /\ (u.recovered => r)
  BY RecoveringFacts
<1>3. t \in Txn
  BY <1>1, <1>2, SeenType, TxnFields
<1>4. t.state = "failed" /\ t.recovered = r
  BY <1>1, SeenFacts
<1> QED BY <1>2, <1>3, <1>4

\* A construction stages a blank transaction or raises.
LEMMA ConstructFacts ==
  ASSUME NEW t \in ConstructOutcomes(Blank("preparing"))
  PROVE  /\ t \in Txn /\ t.state \in {"staged", "failed"}
         /\ t.state = "staged" => ~t.public /\ ~t.recovered
<1>1. CASE t = Blank("staged")
  BY <1>1 DEF Blank, Seen, Txn
<1>2. Blank("preparing") \in Txn
  BY DEF Blank, Seen, Txn
<1>3. t = Blank("staged") \/ t \in Failures(Blank("preparing"))
  BY DEF ConstructOutcomes, Blank, Seen
<1> QED BY <1>1, <1>2, <1>3, FailureFacts

\* accept() leaves an accepted or a failed transaction.
LEMMA AcceptFacts ==
  ASSUME NEW u \in Txn, NEW t \in AcceptOutcomes(u)
  PROVE  /\ t \in Txn /\ t.state \in {"accepted", "failed"}
         /\ u.recovered => t.recovered
<1>1. CASE t \in Failures(u)
  BY <1>1, FailureFacts
<1>2. CASE t \notin Failures(u)
  <2>1. PICK p \in BOOLEAN, r \in Recovering(u) :
          t = Seen("accepted", p, u.unremoved, u.unreleased, r)
    BY <1>2 DEF AcceptOutcomes
  <2>2. r \in BOOLEAN /\ (u.recovered => r)
    BY RecoveringFacts
  <2>3. t \in Txn
    BY <2>1, <2>2, SeenType, TxnFields
  <2>4. t.state = "accepted" /\ t.recovered = r
    BY <2>1, SeenFacts
  <2> QED BY <2>2, <2>3, <2>4
<1> QED BY <1>1, <1>2

\* abort() of an open transaction withdraws it or fails; a resolved one stays.
LEMMA AbortFacts ==
  ASSUME NEW u \in Txn, NEW t \in AbortOutcomes(u)
  PROVE  /\ t \in Txn
         /\ u.recovered => t.recovered
         /\ t.public => u.public
         /\ u.state \notin {"staged", "accepted"} => t = u
<1>1. CASE u.state \notin {"staged", "accepted"}
  BY <1>1 DEF AbortOutcomes
<1>2. CASE u.state \in {"staged", "accepted"} /\ t \in Failures(u)
  <2>1. t # Seen("rejected", FALSE, u.unremoved, u.unreleased, u.recovered)
    <3>1. t.state = "failed"
      BY <1>2, FailureFacts
    <3> QED BY <3>1 DEF Seen
  <2>2. t.public => u.public
    BY <1>2, <2>1 DEF AbortOutcomes
  <2> QED BY <1>2, <2>2, FailureFacts
<1>3. CASE t = Seen("rejected", FALSE, u.unremoved, u.unreleased, u.recovered)
           /\ u.state \in {"staged", "accepted"}
  <2>1. t \in Txn
    BY <1>3, SeenType, TxnFields
  <2>2. ~t.public /\ t.recovered = u.recovered
    BY <1>3 DEF Seen
  <2> QED BY <1>3, <2>1, <2>2
<1> QED BY <1>1, <1>2, <1>3 DEF AbortOutcomes

\* seal() changes the state and what is unreleased.
LEMMA SealFacts ==
  ASSUME NEW u \in Txn, NEW t \in SealOutcomes(u)
  PROVE  t \in Txn /\ t.state = "sealed" /\ t.public = u.public
<1>1. PICK l \in {FALSE, u.public} :
        t = Seen("sealed", u.public, u.unremoved, l, u.recovered)
  BY DEF SealOutcomes
<1>2. l \in BOOLEAN
  BY TxnFields
<1>3. t \in Txn
  BY <1>1, <1>2, SeenType, TxnFields
<1>4. t.state = "sealed" /\ t.public = u.public
  BY <1>1, SeenFacts
<1> QED BY <1>3, <1>4
-----------------------------------------------------------------------------
(***************************************************************************)
(* Report indices: the due clocks get consecutive indices in their order   *)
(***************************************************************************)

\* The position of clock c among the clocks of D.
Rank(D, c) == Cardinality({d \in D : d <= c})

\* Sets of clocks are finite.
LEMMA ClocksFinite ==
  ASSUME NEW D \in SUBSET Clocks
  PROVE  IsFiniteSet(D) /\ Cardinality(D) \in Nat
<1>1. IsFiniteSet(Clocks)
  BY FS_Interval, ConstantsAssumption DEF Clocks
<1>2. IsFiniteSet(D)
  BY <1>1, FS_Subset
<1> QED BY <1>2, FS_CardinalityType

\* Positions lie between one and the number of clocks.
LEMMA RankType ==
  ASSUME NEW D \in SUBSET Clocks, NEW c \in D
  PROVE  Rank(D, c) \in 1 .. Cardinality(D)
<1> DEFINE S == {d \in D : d <= c}
<1>1. S \in SUBSET D /\ c \in S
  BY ConstantsAssumption DEF Clocks
<1>2. IsFiniteSet(S) /\ Cardinality(S) <= Cardinality(D)
  BY <1>1, ClocksFinite, FS_Subset
<1>3. Cardinality(S) \in Nat /\ Cardinality(S) # 0
  BY <1>1, <1>2, FS_CardinalityType, FS_EmptySet
<1> QED BY <1>2, <1>3, ClocksFinite DEF Rank

\* A later clock has a later position.
LEMMA RankGrows ==
  ASSUME NEW D \in SUBSET Clocks, NEW c \in D, NEW e \in D, c < e
  PROVE  Rank(D, c) # Rank(D, e)
<1> DEFINE S(x) == {d \in D : d <= x}
<1>0. \A d \in D : d \in Int
  BY ConstantsAssumption DEF Clocks
<1>1. S(c) \in SUBSET S(e) /\ e \in S(e) /\ e \notin S(c)
  BY <1>0
<1>2. IsFiniteSet(S(e))
  <2>1. S(e) \in SUBSET Clocks
    OBVIOUS
  <2> QED BY <2>1, ClocksFinite
<1>3. Cardinality(S(c)) # Cardinality(S(e))
  BY <1>1, <1>2, FS_Subset
<1> QED BY <1>3 DEF Rank

\* Different clocks have different positions.
LEMMA RankInjective ==
  ASSUME NEW D \in SUBSET Clocks, NEW c \in D, NEW e \in D, Rank(D, c) = Rank(D, e)
  PROVE  c = e
<1>1. c < e \/ e < c \/ c = e
  BY ConstantsAssumption DEF Clocks
<1> QED BY <1>1, RankGrows

\* Every position up to the number of clocks is taken.
LEMMA RankSurjective ==
  ASSUME NEW D \in SUBSET Clocks, NEW i \in 1 .. Cardinality(D)
  PROVE  \E c \in D : Rank(D, c) = i
<1> DEFINE n == Cardinality(D)
           f == [c \in D |-> Rank(D, c)]
<1>1. n \in Nat /\ IsFiniteSet(D)
  BY ClocksFinite
<1>2. IsFiniteSet(1 .. n) /\ Cardinality(1 .. n) = n
  BY <1>1, FS_Interval
<1>3. f \in [D -> 1 .. n]
  BY RankType
<1>4. \A c, e \in D : f[c] = f[e] => c = e
  BY RankInjective
<1>5. f \in Injection(D, 1 .. n)
  BY <1>3, <1>4 DEF Injection, IsInjective
<1>6. f \in Surjection(D, 1 .. n)
  BY <1>2, <1>5, FS_Injection
<1>7. \E c \in D : f[c] = i
  BY <1>6 DEF Surjection
<1> QED BY <1>7

\* The indices that the reports of a step get.
LEMMA ReportIndexFacts ==
  ASSUME TypeOK, NEW c \in due
  PROVE  /\ ReportIndex(c) \in (Len(reports) + 1) .. (Len(reports) + Cardinality(due))
         /\ \A d \in due : ReportIndex(d) = ReportIndex(c) => d = c
<1>1. due \in SUBSET Clocks /\ Len(reports) \in Nat
  BY DEF TypeOK
<1>2. \A d \in due : ReportIndex(d) = Len(reports) + Rank(due, d) /\ Rank(due, d) \in Nat
  <2> SUFFICES ASSUME NEW d \in due
               PROVE  ReportIndex(d) = Len(reports) + Rank(due, d) /\ Rank(due, d) \in Nat
    OBVIOUS
  <2>1. Rank(due, d) \in 1 .. Cardinality(due) /\ Cardinality(due) \in Nat
    BY <1>1, RankType, ClocksFinite
  <2> QED BY <2>1 DEF ReportIndex, Rank
<1>3. Rank(due, c) \in 1 .. Cardinality(due) /\ Cardinality(due) \in Nat
  BY <1>1, RankType, ClocksFinite
<1>4. \A d \in due : Rank(due, d) = Rank(due, c) => d = c
  BY <1>1, RankInjective
<1> QED BY <1>1, <1>2, <1>3, <1>4

\* The reports of a step follow the earlier ones, one for every due clock.
LEMMA AcceptedReportsFacts ==
  ASSUME TypeOK
  PROVE  /\ AcceptedReports \in Seq(Report)
         /\ Len(AcceptedReports) = Len(reports) + Cardinality(due)
         /\ \A i \in 1 .. Len(reports) : AcceptedReports[i] = reports[i]
         /\ \A c \in due :
              AcceptedReports[ReportIndex(c)] = [clock |-> c, public |-> txn[c].public]
         /\ \A i \in (Len(reports) + 1) .. (Len(reports) + Cardinality(due)) :
              \E c \in due : i = ReportIndex(c)
<1> DEFINE n == Cardinality(due)
           k == Len(reports)
           of(i) == CHOOSE d \in due : ReportIndex(d) = k + i
           new == [i \in 1 .. n |-> [clock |-> of(i), public |-> txn[of(i)].public]]
<1>1. /\ n \in Nat /\ k \in Nat /\ reports \in Seq(Report) /\ due \in SUBSET Clocks
      /\ txn \in [Clocks -> Txn]
  BY ClocksFinite DEF TypeOK
<1>2. \A i \in 1 .. n : of(i) \in due /\ ReportIndex(of(i)) = k + i
  <2> SUFFICES ASSUME NEW i \in 1 .. n PROVE \E d \in due : ReportIndex(d) = k + i
    OBVIOUS
  <2>1. PICK d \in due : Rank(due, d) = i
    BY <1>1, RankSurjective
  <2> QED BY <2>1 DEF ReportIndex, Rank
<1>3. new \in Seq(Report) /\ Len(new) = n
  <2>1. \A c \in due : c \in Clocks /\ txn[c].public \in BOOLEAN
    BY <1>1, TxnFields
  <2>2. new \in [1 .. n -> Report]
    BY <1>2, <2>1 DEF Report
  <2> HIDE DEF new
  <2> QED BY <1>1, <2>2
<1>4. AcceptedReports = reports \o new
  BY DEF AcceptedReports
<1>5. \A c \in due : of(ReportIndex(c) - k) = c /\ ReportIndex(c) - k \in 1 .. n
  BY <1>1, <1>2, ReportIndexFacts
<1> HIDE DEF of, n, k
<1>6. /\ AcceptedReports \in Seq(Report)
      /\ Len(AcceptedReports) = k + n
      /\ \A i \in 1 .. k : AcceptedReports[i] = reports[i]
      /\ \A i \in 1 .. n : AcceptedReports[k + i] = new[i]
  BY <1>1, <1>3, <1>4 DEF k
<1>7. \A c \in due :
        AcceptedReports[ReportIndex(c)] = [clock |-> c, public |-> txn[c].public]
  <2> SUFFICES ASSUME NEW c \in due
      PROVE AcceptedReports[ReportIndex(c)] = [clock |-> c, public |-> txn[c].public]
    OBVIOUS
  <2>1. ReportIndex(c) \in Int
    BY <1>1, ReportIndexFacts DEF n, k
  <2>2. AcceptedReports[ReportIndex(c)] = new[ReportIndex(c) - k]
    BY <1>1, <1>5, <1>6, <2>1
  <2> QED BY <1>5, <2>2
<1>8. \A i \in (k + 1) .. (k + n) : \E c \in due : i = ReportIndex(c)
  <2> SUFFICES ASSUME NEW i \in (k + 1) .. (k + n) PROVE \E c \in due : i = ReportIndex(c)
    OBVIOUS
  <2>1. i - k \in 1 .. n
    BY <1>1
  <2>2. of(i - k) \in due /\ ReportIndex(of(i - k)) = k + (i - k)
    BY <1>2, <2>1
  <2> QED BY <1>1, <2>2
<1> QED BY <1>6, <1>7, <1>8 DEF n, k
-----------------------------------------------------------------------------
(***************************************************************************)
(* Type correctness, with the control structure it depends on              *)
(***************************************************************************)

\* The bounds are natural numbers.
LEMMA BoundsAreNatural ==
  /\ NumClocks \in Nat /\ MaxRuns \in Nat /\ MaxSteps \in Nat
  /\ RetryBudget \in Nat /\ MaxQuarantines \in Nat
BY ConstantsAssumption

\* What the registry gets, and what it keeps.
LEMMA RegisteredFacts ==
  ASSUME NEW R \in SUBSET Nat, registry \in [retained : SUBSET Nat, restored : SUBSET Nat]
  PROVE  /\ Registered(R) \in [retained : SUBSET Nat, restored : SUBSET Nat]
         /\ Registered(R).retained \cup Registered(R).restored
              = registry.retained \cup registry.restored \cup R
<1>1. /\ Registered(R).retained = registry.retained \cup (R \ registry.restored)
      /\ Registered(R).restored = registry.restored
      /\ Registered(R) \in [retained : SUBSET Nat, restored : SUBSET Nat]
  BY DEF Registered
<1> QED BY <1>1

\* At most one inode goes into quarantine, under a name not used before.
LEMMA QuarantineFacts ==
  ASSUME NEW t, NEW u, races \in 0 .. MaxQuarantines, quarantines \subseteq Nat,
         Quarantine(t, u)
  PROVE  /\ Fresh(t, u) \in SUBSET Nat
         /\ quarantines' = quarantines \cup Fresh(t, u)
         /\ quarantines' \subseteq Nat /\ races' \in 0 .. MaxQuarantines
<1>1. races \in Nat /\ MaxQuarantines \in Nat
  BY ConstantsAssumption
<1>2. CASE Fresh(t, u) = {}
  <2>1. Cardinality({}) = 0
    BY FS_EmptySet
  <2> QED BY <1>1, <1>2, <2>1 DEF Quarantine
<1>3. CASE Fresh(t, u) = {races + 1}
  <2>1. Cardinality({races + 1}) = 1
    BY FS_Singleton
  <2> QED BY <1>1, <1>3, <2>1 DEF Quarantine
<1> QED BY <1>2, <1>3 DEF Fresh

\* Pending owners that are tried once more stay a subset of the pending ones,
\* and the registry forgets nothing.
LEMMA RetryFacts ==
  ASSUME NEW P, NEW H, NEW O, O \subseteq P \X Nat,
         registry \in [retained : SUBSET Nat, restored : SUBSET Nat],
         RetryFinalizers(P, H, O)
  PROVE  /\ finalizers' \subseteq P /\ holding' \subseteq H
         /\ H \subseteq P => holding' \subseteq finalizers'
         /\ owners' \subseteq finalizers' \X Nat
         /\ registry' \in [retained : SUBSET Nat, restored : SUBSET Nat]
         /\ registry.retained \cup registry.restored
              \subseteq registry'.retained \cup registry'.restored
<1> DEFINE R == {o[2] : o \in O}
<1>1. PICK released \in SUBSET P :
        /\ finalizers' = P \ released /\ holding' = H \ released
        /\ owners' = {o \in O : o[1] \notin released}
        /\ registry' = Registered(R)
  BY DEF RetryFinalizers
<1>2. \A o \in O : o[1] \in P /\ o[2] \in Nat /\ o = <<o[1], o[2]>>
  OBVIOUS
<1>3. R \in SUBSET Nat
  BY <1>2
<1>4. owners' \subseteq finalizers' \X Nat
  <2> SUFFICES ASSUME NEW o \in owners' PROVE o \in finalizers' \X Nat
    OBVIOUS
  <2>1. o \in O /\ o[1] \in finalizers'
    BY <1>1, <1>2
  <2> QED BY <1>2, <2>1
<1> HIDE DEF R
<1> QED BY <1>1, <1>3, <1>4, RegisteredFacts

\* The temporal authority is a clock and two counters.
LEMMA TemporalFacts ==
  ASSUME NEW t \in Temporal, NEW n \in Nat
  PROVE  /\ t.step \in Nat /\ t.rejected \in Nat /\ t.failed \in Nat
         /\ [t EXCEPT !.step = n] \in Temporal /\ [t EXCEPT !.step = n].step = n
         /\ [t EXCEPT !.rejected = @ + 1] \in Temporal
         /\ [t EXCEPT !.rejected = @ + 1].step = t.step
         /\ [t EXCEPT !.failed = @ + 1] \in Temporal
         /\ [t EXCEPT !.failed = @ + 1].step = t.step
<1>1. t.step \in Nat /\ t.rejected \in Nat /\ t.failed \in Nat
  BY DEF Temporal
<1>2. [t EXCEPT !.step = n] \in Temporal
  BY DEF Temporal
<1>3. [t EXCEPT !.step = n].step = n
  BY DEF Temporal
<1>4. [t EXCEPT !.rejected = @ + 1] \in Temporal
  BY <1>1 DEF Temporal
<1>5. [t EXCEPT !.rejected = @ + 1].step = t.step
  BY <1>1 DEF Temporal
<1>6. [t EXCEPT !.failed = @ + 1] \in Temporal
  BY <1>1 DEF Temporal
<1>7. [t EXCEPT !.failed = @ + 1].step = t.step
  BY <1>1 DEF Temporal
<1> QED BY <1>1, <1>2, <1>3, <1>4, <1>5, <1>6, <1>7

\* A counter of one clock grows when the condition holds.
LEMMA BumpFacts ==
  ASSUME NEW f \in Counts, NEW c \in Clocks
  PROVE  \A b \in BOOLEAN :
           /\ Bump(f, c, b) \in Counts
           /\ Bump(f, c, b)[c] = f[c] + (IF b THEN 1 ELSE 0)
           /\ \A d \in Clocks \ {c} : Bump(f, c, b)[d] = f[d]
BY DEF Bump, Counts

\* What is inductive about types and control.
Core ==
  /\ TypeOK /\ ModeInv /\ NativeInv /\ EnvelopeInv /\ EntryInv
  /\ TxnInv /\ ArtifactInv /\ OwnersInv

\* A new call of _run or of the operator keeps the types.
LEMMA CallsType ==
  ASSUME Core, Calls
  PROVE  TypeOK'
<1> USE DEF Core
<1>1. CASE RunBegin
  <2>1. runs' \in 0 .. MaxRuns /\ steps' \in 0 .. MaxSteps
    BY <1>1, BoundsAreNatural DEF TypeOK, RunBegin
  <2>2. /\ finalizers' \subseteq 1 .. Len(reports') /\ holding' \subseteq 1 .. Len(reports')
        /\ owners' \subseteq finalizers' \X Nat
        /\ registry' \in [retained : SUBSET Nat, restored : SUBSET Nat]
    BY <1>1, RetryFacts DEF TypeOK, RunBegin
  <2> QED BY <1>1, <2>1, <2>2 DEF TypeOK, RunBegin, native
<1>2. CASE RetryConsumerFinalizers
  <2>1. /\ finalizers' \subseteq 1 .. Len(reports') /\ holding' \subseteq 1 .. Len(reports')
        /\ owners' \subseteq finalizers' \X Nat
        /\ registry' \in [retained : SUBSET Nat, restored : SUBSET Nat]
    BY <1>2, RetryFacts DEF TypeOK, RetryConsumerFinalizers
  <2> QED BY <1>2, <2>1 DEF TypeOK, RetryConsumerFinalizers, control, native
<1>3. CASE RestoreConsumerRecovery
  <2>1. registry' \in [retained : SUBSET Nat, restored : SUBSET Nat]
    BY <1>3 DEF TypeOK, RestoreConsumerRecovery
  <2> QED BY <1>3, <2>1 DEF TypeOK, RestoreConsumerRecovery, control, native, world
<1>4. CASE CleanupConsumerRecovery
  <2>1. registry' \in [retained : SUBSET Nat, restored : SUBSET Nat]
    BY <1>4 DEF TypeOK, CleanupConsumerRecovery
  <2>3. quarantines' \subseteq Nat
    BY <1>4 DEF TypeOK, CleanupConsumerRecovery
  <2> QED BY <1>4, <2>1, <2>3 DEF TypeOK, CleanupConsumerRecovery, control, native
<1> QED BY <1>1, <1>2, <1>3, <1>4 DEF Calls

\* The run loop keeps the types.
LEMMA LoopType ==
  ASSUME Core, RunEnds \/ StepBegin \/ Retry \/ RunFails
  PROVE  TypeOK'
<1> USE BoundsAreNatural DEF Core, native, books, world
<1>1. CASE RunEnds
  BY <1>1 DEF TypeOK, RunEnds
<1>2. CASE StepBegin
  BY <1>2 DEF TypeOK, StepBegin
<1>3. CASE Retry
  BY <1>3 DEF TypeOK, Retry
<1>4. CASE RunFails
  BY <1>4 DEF TypeOK, RunFails
<1> QED BY <1>1, <1>2, <1>3, <1>4

\* Begin and advance keep the types.
LEMMA AttemptType ==
  ASSUME Core,
         \/ Enter \/ BeginOk \/ BeginFails
         \/ AttemptOk \/ AttemptRejected \/ AttemptFails \/ AttemptCrossesDeadline
  PROVE  TypeOK'
<1> USE BoundsAreNatural DEF Core, native, books, world, Raise, Torn
<1>1. CASE Enter
  <2>1. /\ finalizers' \subseteq 1 .. Len(reports') /\ holding' \subseteq 1 .. Len(reports')
        /\ owners' \subseteq finalizers' \X Nat
        /\ registry' \in [retained : SUBSET Nat, restored : SUBSET Nat]
    BY <1>1, RetryFacts DEF TypeOK, Enter
  <2> QED BY <1>1, <2>1 DEF TypeOK, Enter
<1>2. CASE BeginOk
  BY <1>2 DEF TypeOK, NativeInv, Outside, BeginOk, Temporal
<1>3. CASE BeginFails
  BY <1>3 DEF TypeOK, BeginFails
<1>4. pc = "attempt" => tries + 1 \in 0 .. RetryBudget + 1 /\ engine \in Nat
  <2>1. temporal.step \in Nat
    BY DEF TypeOK, Temporal
  <2> QED BY <2>1 DEF TypeOK, ModeInv, NativeInv
<1>5. CASE AttemptOk
  <2>1. engine + 1 \in Nat /\ tries + 1 \in 0 .. RetryBudget + 1
    BY <1>4, <1>5 DEF AttemptOk
  <2>2. temporal' \in Temporal
    BY <1>5, <2>1, TemporalFacts DEF TypeOK, AttemptOk
  <2>3. tries' \in 0 .. RetryBudget + 1 /\ engine' \in Nat
    BY <1>5, <2>1 DEF AttemptOk
  <2>4. attempt \in Nat /\ tries' \in Nat
    BY <2>3 DEF TypeOK
  <2>5. attempt' \in Nat
    BY <1>5, <2>4 DEF AttemptOk
  <2> QED BY <1>5, <2>2, <2>3, <2>5 DEF TypeOK, AttemptOk
<1>6. CASE AttemptRejected
  <2>1. temporal' \in Temporal
    BY <1>4, <1>6, TemporalFacts DEF TypeOK, AttemptRejected
  <2> QED BY <1>4, <1>6, <2>1 DEF TypeOK, AttemptRejected
<1>7. CASE AttemptFails
  <2>1. temporal' \in Temporal
    BY <1>4, <1>7, TemporalFacts DEF TypeOK, AttemptFails
  <2>2. engine' \in Nat \cup {Torn}
    BY <1>7 DEF TypeOK, AttemptFails
  <2> QED BY <1>4, <1>7, <2>1, <2>2 DEF TypeOK, AttemptFails
<1>8. CASE AttemptCrossesDeadline
  <2>1. engine + 1 \in Nat /\ tries + 1 \in 0 .. RetryBudget + 1
    BY <1>4, <1>8 DEF AttemptCrossesDeadline
  <2>2. temporal' \in Temporal
    BY <1>8, <2>1, TemporalFacts DEF TypeOK, AttemptCrossesDeadline
  <2>3. attempt' \in Nat /\ tries' \in 0 .. RetryBudget + 1 /\ engine' \in Nat
    BY <1>8, <2>1 DEF TypeOK, AttemptCrossesDeadline
  <2> QED BY <1>8, <2>2, <2>3 DEF TypeOK, AttemptCrossesDeadline
<1> QED BY <1>1, <1>2, <1>3, <1>5, <1>6, <1>7, <1>8

\* Staging, native commit and finalization keep the types.
LEMMA StageType ==
  ASSUME Core,
         \/ Plan \/ PlanRefused \/ StageDone \/ CommitOk \/ CommitFails \/ AcceptDone
         \/ FinalizeOk \/ FinalizeFails
  PROVE  TypeOK'
<1> USE DEF Core, native, books, world, Raise
<1>1. CASE Plan
  <2>1. PICK D \in SUBSET Clocks :
          /\ due' = D
          /\ payload' \in {[step |-> engine, cursors |-> Predicted(D)], None}
    BY <1>1 DEF Plan
  <2>2. engine \in Nat
    <3>1. temporal.step \in Nat
      BY TemporalFacts DEF TypeOK
    <3> QED BY <1>1, <3>1 DEF Plan, NativeInv, TypeOK
  <2>3. Predicted(D) \in Counts
    BY DEF Predicted, TypeOK, Counts
  <2>4. payload' \in [step : Nat, cursors : Counts] \cup {None}
    BY <2>1, <2>2, <2>3
  <2>5. due' \in SUBSET Clocks
    BY <2>1
  <2> QED BY <1>1, <2>4, <2>5 DEF Plan, TypeOK
<1>2. CASE PlanRefused
  BY <1>2 DEF TypeOK, PlanRefused
<1>3. CASE StageDone
  BY <1>3 DEF TypeOK, StageDone
<1>4. CASE CommitOk
  BY <1>4 DEF TypeOK, CommitOk
<1>5. CASE CommitFails
  BY <1>5 DEF TypeOK, CommitFails
<1>6. CASE AcceptDone
  BY <1>6 DEF TypeOK, AcceptDone
<1>7. CASE FinalizeOk
  BY <1>7 DEF TypeOK, FinalizeOk
<1>8. CASE FinalizeFails
  BY <1>8 DEF TypeOK, FinalizeFails
<1> QED BY <1>1, <1>2, <1>3, <1>4, <1>5, <1>6, <1>7, <1>8

\* The methods of a consumer transaction keep the types.
LEMMA ConsumerType ==
  ASSUME Core, NEW c \in Clocks, Construct(c) \/ Accept(c) \/ Seal(c) \/ Abort(c)
  PROVE  TypeOK'
<1> USE DEF Core, control, native, books, world, Raise
<1>0. txn[c] \in Txn /\ Blank("preparing") \in Txn /\ Blank("none") \in Txn
  BY DEF TypeOK, Blank, Seen, Txn
<1>1. CASE Construct(c)
  <2>1. PICK t \in ConstructOutcomes(Blank("preparing")) :
          /\ Quarantine(Blank("preparing"), t)
          /\ IF t.state = "staged"
               THEN /\ txn' = [txn EXCEPT ![c] = t]
                    /\ UNCHANGED <<pc, error, registry, orphans>>
               ELSE /\ UNCHANGED txn /\ Raise("failed")
                    /\ \/ /\ registry' = Registered(Fresh(Blank("preparing"), t))
                          /\ UNCHANGED orphans
                       \/ /\ orphans' = orphans \cup Fresh(Blank("preparing"), t)
                          /\ UNCHANGED registry
    BY <1>1 DEF Construct
  <2>2. t \in Txn
    BY ConstructFacts
  <2>3. txn' \in [Clocks -> Txn]
    BY <2>1, <2>2 DEF TypeOK
  <2>4. /\ quarantines' \subseteq Nat /\ races' \in 0 .. MaxQuarantines
        /\ Fresh(Blank("preparing"), t) \in SUBSET Nat
    BY <2>1, QuarantineFacts DEF TypeOK
  <2>6. registry' \in [retained : SUBSET Nat, restored : SUBSET Nat] /\ orphans' \subseteq Nat
    BY <2>1, <2>4, RegisteredFacts DEF TypeOK
  <2>5. \/ pc' = pc /\ error' = error
        \/ pc' = "abort" /\ error' = "failed"
    BY <2>1
  <2> QED BY <1>1, <2>3, <2>4, <2>5, <2>6 DEF TypeOK, Construct
<1>2. CASE Accept(c)
  <2>1. PICK t \in AcceptOutcomes(txn[c]) :
          /\ Quarantine(txn[c], t)
          /\ txn' = [txn EXCEPT ![c] = t]
          /\ authority' = [authority EXCEPT ![c] = @ \cup Fresh(txn[c], t)]
          /\ artifacts' = Bump(artifacts, c, t.public)
          /\ stray' = Bump(stray, c, t.state = "failed" /\ t.public)
          /\ IF t.state = "accepted" THEN UNCHANGED <<pc, error>> ELSE Raise("failed")
    BY <1>2 DEF Accept
  <2>2. t \in Txn
    BY <1>0, AcceptFacts
  <2>3. txn' \in [Clocks -> Txn]
    BY <2>1, <2>2 DEF TypeOK
  <2>4. /\ quarantines' \subseteq Nat /\ races' \in 0 .. MaxQuarantines
        /\ Fresh(txn[c], t) \in SUBSET Nat
    BY <2>1, QuarantineFacts DEF TypeOK
  <2>7. authority' \in [Clocks -> SUBSET Nat]
    BY <2>1, <2>4 DEF TypeOK
  <2>5. \/ pc' = pc /\ error' = error
        \/ pc' = "abort" /\ error' = "failed"
    BY <2>1
  <2>6. artifacts' \in Counts /\ stray' \in Counts
    <3>1. t.public \in BOOLEAN /\ (t.state = "failed" /\ t.public) \in BOOLEAN
      BY <2>2, TxnFields
    <3> QED BY <2>1, <3>1, BumpFacts DEF TypeOK
  <2> QED BY <1>2, <2>3, <2>4, <2>5, <2>6, <2>7 DEF TypeOK, Accept
<1>3. CASE Seal(c)
  <2>1. PICK t \in SealOutcomes(txn[c]) : txn' = [txn EXCEPT ![c] = t]
    BY <1>3 DEF Seal
  <2>2. t \in Txn
    BY <1>0, SealFacts
  <2>3. txn' \in [Clocks -> Txn]
    BY <2>1, <2>2 DEF TypeOK
  <2>4. registry' \in [retained : SUBSET Nat, restored : SUBSET Nat]
    BY <1>3, RegisteredFacts DEF TypeOK, Seal
  <2> QED BY <1>3, <2>3, <2>4 DEF TypeOK, Seal
<1>4. CASE Abort(c)
  <2>1. PICK t \in AbortOutcomes(txn[c]) :
          /\ Quarantine(txn[c], t)
          /\ artifacts' = [artifacts EXCEPT ![c] =
                             @ - (IF txn[c].public /\ ~t.public THEN 1 ELSE 0)]
          /\ stray' = Bump(stray, c, txn[c].state = "accepted" /\ t.public)
          /\ registry' = Registered(authority[c] \cup Fresh(txn[c], t))
    BY <1>4 DEF Abort
  <2>2. t \in Txn
    BY <1>0, AbortFacts
  <2>3. txn' \in [Clocks -> Txn]
    BY <1>0, <1>4 DEF TypeOK, Abort
  <2>4. /\ quarantines' \subseteq Nat /\ races' \in 0 .. MaxQuarantines
        /\ Fresh(txn[c], t) \in SUBSET Nat
    BY <2>1, QuarantineFacts DEF TypeOK
  <2>5. registry' \in [retained : SUBSET Nat, restored : SUBSET Nat]
    <3>1. authority[c] \cup Fresh(txn[c], t) \in SUBSET Nat
      BY <2>4 DEF TypeOK
    <3> QED BY <2>1, <3>1, RegisteredFacts DEF TypeOK
  <2>9. authority' \in [Clocks -> SUBSET Nat]
    BY <1>4 DEF TypeOK, Abort
  <2>6. stray' \in Counts
    <3>1. (txn[c].state = "accepted" /\ t.public) \in BOOLEAN
      BY <2>2, TxnFields
    <3> QED BY <2>1, <3>1, BumpFacts DEF TypeOK
  <2>7. txn[c].public /\ ~t.public => artifacts[c] \in Nat \ {0}
    <3>1. txn[c].public /\ ~t.public => txn[c].state = "accepted"
      BY <1>0, AbortFacts DEF TxnInv
    <3>2. cursors[c] \in Nat /\ stray[c] \in Nat
      BY DEF TypeOK, Counts
    <3> QED BY <3>1, <3>2 DEF ArtifactInv, Uncounted
  <2>8. artifacts' \in Counts
    BY <2>1, <2>7 DEF TypeOK, Counts
  <2> QED BY <1>4, <2>3, <2>4, <2>5, <2>6, <2>8, <2>9 DEF TypeOK, Abort
<1> QED BY <1>1, <1>2, <1>3, <1>4

\* Every published report gets an index of the new report list.
LEMMA UnreleasedType ==
  ASSUME TypeOK
  PROVE  Unreleased \subseteq 1 .. Len(AcceptedReports)
<1>1. Len(AcceptedReports) = Len(reports) + Cardinality(due)
  BY AcceptedReportsFacts
<1>2. Len(reports) \in Nat /\ Cardinality(due) \in Nat
  BY ClocksFinite DEF TypeOK
<1>3. \A d \in due : ReportIndex(d) \in (Len(reports) + 1) .. (Len(reports) + Cardinality(due))
  BY ReportIndexFacts
<1> QED BY <1>1, <1>2, <1>3 DEF Unreleased

\* The recoveries of unreleased transactions belong to those reports.
LEMMA UnreleasedOwnersType ==
  ASSUME TypeOK
  PROVE  UnreleasedOwners \subseteq Unreleased \X Nat
BY DEF TypeOK, UnreleasedOwners, Unreleased

\* Publishing the books keeps the types.
LEMMA PublishType ==
  ASSUME Core, Publish
  PROVE  TypeOK'
<1> USE DEF Core
<1>1. AcceptedReports \in Seq(Report) /\ Len(AcceptedReports) = Len(reports) + Cardinality(due)
  BY AcceptedReportsFacts
<1>2. Len(reports) \in Nat /\ Cardinality(due) \in Nat
  BY ClocksFinite DEF TypeOK
<1>3. reports' = AcceptedReports
  BY DEF Publish, Return
<1>4. /\ finalizers' \subseteq finalizers \cup Unreleased
      /\ holding' \subseteq holding \cup Unreleased
      /\ owners' \subseteq finalizers' \X Nat
      /\ registry' \in [retained : SUBSET Nat, restored : SUBSET Nat]
  <2>1. owners \cup UnreleasedOwners \subseteq (finalizers \cup Unreleased) \X Nat
    BY UnreleasedOwnersType DEF TypeOK
  <2> QED BY <2>1, RetryFacts DEF Publish, TypeOK
<1>5. finalizers' \subseteq 1 .. Len(reports') /\ holding' \subseteq 1 .. Len(reports')
  <2>1. 1 .. Len(reports) \subseteq 1 .. Len(AcceptedReports)
    BY <1>1, <1>2
  <2> QED BY <1>3, <1>4, <2>1, UnreleasedType DEF TypeOK
<1>6. cursors' \in Counts
  BY DEF Publish, Return, AcceptedCursors, TypeOK, Counts
<1>7. txn' \in [Clocks -> Txn]
  BY DEF Publish, Return, NoTxns, Blank, Seen, Txn
<1>8. steps' \in 0 .. MaxSteps
  BY BoundsAreNatural DEF Publish, Return, ModeInv, TypeOK
<1>11. authority' \in [Clocks -> SUBSET Nat]
  BY DEF Publish, Return, NoAuthorities
<1>9. reports' \in Seq(Report)
  BY <1>1, <1>3
<1>10. pc' = "loop" /\ due' = {} /\ payload' = None
  BY DEF Publish, Return
<1> QED BY <1>4, <1>5, <1>6, <1>7, <1>8, <1>9, <1>10, <1>11 DEF Publish, TypeOK, native

\* Compensation, rollback and restoration keep the types.
LEMMA RollbackType ==
  ASSUME Core, AbortDone \/ Rollback \/ Restore
  PROVE  TypeOK'
<1> USE DEF Core, native, books, world
<1>1. CASE AbortDone
  BY <1>1 DEF TypeOK, AbortDone
<1>2. CASE Rollback
  BY <1>2 DEF TypeOK, Rollback
<1>3. CASE Restore
  <2>1. env.temporal \in Temporal /\ env.attempt \in Nat /\ env.cursors \in Counts
    BY DEF TypeOK
  <2>2. env.reports = reports
    BY <1>3 DEF Restore, ModeInv, EnvelopeInv, Inside
  <2>3. temporal' = [step |-> env.temporal.step, rejected |-> temporal.rejected,
                     failed |-> temporal.failed]
    <3>1. /\ env.temporal.rejected \in Nat /\ env.temporal.failed \in Nat
          /\ temporal.rejected \in Nat /\ temporal.failed \in Nat
      BY <2>1, TemporalFacts DEF TypeOK
    <3> QED BY <1>3, <3>1 DEF Restore, RestoredTemporal
  <2>4. temporal' \in Temporal
    BY <2>1, <2>3 DEF TypeOK, Temporal
  <2> QED BY <1>3, <2>1, <2>2, <2>4 DEF TypeOK, Restore
<1> QED BY <1>1, <1>2, <1>3

\* Types are inductive.
LEMMA TypeStep ==
  ASSUME Core, Next
  PROVE  TypeOK'
BY CallsType, LoopType, AttemptType, StageType, ConsumerType, PublishType, RollbackType
   DEF Next, Running
-----------------------------------------------------------------------------
(***************************************************************************)
(* Control, engine and envelope                                            *)
(***************************************************************************)

\* What the methods of a consumer transaction leave alone.
LEMMA ConsumerFrame ==
  ASSUME NEW c \in Clocks, Construct(c) \/ Accept(c) \/ Seal(c) \/ Abort(c)
  PROVE  /\ UNCHANGED <<mode, runs, steps, tries, entry, begun, native, temporal,
                        attempt, env, due, payload, cursors, reports, finalizers,
                        owners, holding>>
         /\ pc \in {"stage", "accept", "seal", "abort"}
         /\ pc' = pc \/ (pc \in {"stage", "accept"} /\ pc' = "abort")
         /\ error' \in {error, "failed"}
<1>1. CASE Construct(c)
  BY <1>1 DEF Construct, native, books, Raise
<1>2. CASE Accept(c)
  BY <1>2 DEF Accept, native, books, Raise
<1>3. CASE Seal(c)
  BY <1>3 DEF Seal, control, native, world
<1>4. CASE Abort(c)
  BY <1>4 DEF Abort, control, native
<1> QED BY <1>1, <1>2, <1>3, <1>4

\* Control is inductive.
LEMMA ModeStep ==
  ASSUME Core, Next
  PROVE  ModeInv'
<1> USE BoundsAreNatural, ConstantsAssumption DEF Core, ModeInv, TypeOK, control, Raise
<1>1. CASE RunBegin
  BY <1>1 DEF RunBegin
<1>2. CASE RetryConsumerFinalizers
  BY <1>2 DEF RetryConsumerFinalizers
<1>3. CASE RestoreConsumerRecovery
  BY <1>3 DEF RestoreConsumerRecovery
<1>4. CASE CleanupConsumerRecovery
  BY <1>4 DEF CleanupConsumerRecovery
<1>5. CASE RunEnds \/ RunFails
  BY <1>5 DEF RunEnds, RunFails
<1>6. CASE StepBegin
  BY <1>6 DEF StepBegin
<1>7. CASE Retry
  BY <1>7 DEF Retry, MayRetry
<1>8. CASE Enter \/ BeginOk \/ BeginFails
  BY <1>8 DEF Enter, BeginOk, BeginFails
<1>9. CASE AttemptOk
  BY <1>9 DEF AttemptOk
<1>10. CASE AttemptRejected
  BY <1>10 DEF AttemptRejected
<1>11. CASE AttemptFails
  BY <1>11 DEF AttemptFails
<1>12. CASE AttemptCrossesDeadline
  BY <1>12 DEF AttemptCrossesDeadline
<1>13. CASE Plan \/ PlanRefused
  BY <1>13 DEF Plan, PlanRefused
<1>14. CASE StageDone
  BY <1>14 DEF StageDone
<1>15. CASE CommitOk \/ CommitFails
  BY <1>15 DEF CommitOk, CommitFails
<1>16. CASE AcceptDone
  BY <1>16 DEF AcceptDone
<1>17. CASE FinalizeOk \/ FinalizeFails
  BY <1>17 DEF FinalizeOk, FinalizeFails
<1>18. CASE Publish
  BY <1>18 DEF Publish, Return
<1>19. CASE AbortDone \/ Rollback \/ Restore
  BY <1>19 DEF AbortDone, Rollback, Restore
<1>20. CASE \E c \in Clocks : Construct(c) \/ Accept(c) \/ Seal(c) \/ Abort(c)
  BY <1>20, ConsumerFrame
<1> QED BY <1>1, <1>2, <1>3, <1>4, <1>5, <1>6, <1>7, <1>8, <1>9, <1>10, <1>11, <1>12,
           <1>13, <1>14, <1>15, <1>16, <1>17, <1>18, <1>19, <1>20
        DEF Next, Running, Calls

\* Facts about the engine that every step uses.
LEMMA EngineFacts ==
  ASSUME Core
  PROVE  /\ engine \in Int /\ snap \in Nat \cup {None} /\ None \notin Int
         /\ temporal.step \in Nat /\ entry.step \in Nat /\ steps \in Nat
         /\ pc = "attempt" => engine \in Nat
         /\ pc = "restore" => RestoredTemporal.step = engine
<1> USE DEF Core
<1>1. temporal.step \in Nat /\ entry.step \in Nat
  BY TemporalFacts DEF TypeOK
<1>2. pc = "restore" => RestoredTemporal.step = engine
  BY DEF RestoredTemporal, EnvelopeInv, ModeInv, NativeInv, Inside, Base
<1> QED BY <1>1, <1>2, ConstantsAssumption DEF TypeOK, Torn, NativeInv

\* What the attempt does to the clock of the temporal authority.
LEMMA AttemptClock ==
  ASSUME Core
  PROVE  /\ AttemptOk \/ AttemptCrossesDeadline => temporal'.step = engine + 1
         /\ AttemptRejected \/ AttemptFails => temporal'.step = temporal.step
<1>1. temporal \in Temporal
  BY DEF Core, TypeOK
<1>2. pc = "attempt" => engine + 1 \in Nat
  BY EngineFacts
<1>3. AttemptOk \/ AttemptCrossesDeadline => temporal'.step = engine + 1
  BY <1>1, <1>2, TemporalFacts DEF AttemptOk, AttemptCrossesDeadline
<1>4. AttemptRejected => temporal'.step = temporal.step
  BY <1>1, TemporalFacts DEF AttemptRejected
<1>5. AttemptFails => temporal'.step = temporal.step
  BY <1>1, TemporalFacts DEF AttemptFails
<1> QED BY <1>3, <1>4, <1>5

\* The engine is inductive; RunFails rests on the entry state.
LEMMA NativeStep ==
  ASSUME Core, Next
  PROVE  NativeInv'
<1> USE ConstantsAssumption DEF Core, ModeInv, NativeInv, Outside, control, native, Raise
<1>0. /\ engine \in Int /\ snap \in Nat \cup {None} /\ None \notin Int
      /\ temporal.step \in Nat /\ entry.step \in Nat /\ steps \in Nat
      /\ pc = "attempt" => engine \in Nat
      /\ pc = "restore" => RestoredTemporal.step = engine
  BY EngineFacts
<1>1. CASE RunBegin
  BY <1>0, <1>1 DEF RunBegin
<1>2. CASE RetryConsumerFinalizers
  BY <1>0, <1>2 DEF RetryConsumerFinalizers
<1>3. CASE RestoreConsumerRecovery
  BY <1>0, <1>3 DEF RestoreConsumerRecovery
<1>4. CASE CleanupConsumerRecovery
  BY <1>0, <1>4 DEF CleanupConsumerRecovery
<1>5. CASE RunEnds
  BY <1>0, <1>5 DEF RunEnds
<1>6. CASE RunFails
  BY <1>0, <1>6 DEF EntryInv, Base, RunFails
<1>7. CASE StepBegin
  BY <1>0, <1>7 DEF StepBegin
<1>8. CASE Retry
  BY <1>0, <1>8 DEF Retry, MayRetry
<1>9. CASE Enter
  BY <1>0, <1>9 DEF Enter
<1>10. CASE BeginOk
  BY <1>0, <1>10 DEF BeginOk
<1>11. CASE BeginFails
  BY <1>0, <1>11 DEF BeginFails
<1>12. CASE AttemptOk
  BY <1>0, <1>12, AttemptClock DEF AttemptOk
<1>13. CASE AttemptRejected
  BY <1>0, <1>13, AttemptClock DEF AttemptRejected
<1>14. CASE AttemptFails
  BY <1>0, <1>14, AttemptClock DEF AttemptFails
<1>15. CASE AttemptCrossesDeadline
  BY <1>0, <1>15, AttemptClock DEF AttemptCrossesDeadline
<1>16. CASE Plan \/ PlanRefused
  BY <1>0, <1>16 DEF Plan, PlanRefused
<1>17. CASE StageDone
  BY <1>0, <1>17 DEF StageDone
<1>18. CASE CommitOk \/ CommitFails
  BY <1>0, <1>18 DEF CommitOk, CommitFails
<1>19. CASE AcceptDone
  BY <1>0, <1>19 DEF AcceptDone, TypeOK
<1>20. CASE FinalizeOk
  BY <1>0, <1>20 DEF FinalizeOk
<1>21. CASE FinalizeFails
  BY <1>0, <1>21 DEF FinalizeFails
<1>22. CASE Publish
  BY <1>0, <1>22 DEF Publish, Return
<1>23. CASE AbortDone
  BY <1>0, <1>23 DEF AbortDone, TypeOK
<1>24. CASE Rollback
  BY <1>0, <1>24 DEF Rollback
<1>25. CASE Restore
  BY <1>0, <1>25 DEF Restore
<1>26. CASE \E c \in Clocks : Construct(c) \/ Accept(c) \/ Seal(c) \/ Abort(c)
  BY <1>0, <1>26, ConsumerFrame
<1> QED BY <1>1, <1>2, <1>3, <1>4, <1>5, <1>6, <1>7, <1>8, <1>9, <1>10, <1>11, <1>12, <1>13, <1>14, <1>15,
           <1>16, <1>17, <1>18, <1>19, <1>20, <1>21, <1>22, <1>23, <1>24, <1>25, <1>26
        DEF Next, Running, Calls

\* The envelope is inductive.
LEMMA EnvelopeStep ==
  ASSUME Core, Next
  PROVE  EnvelopeInv'
<1> USE ConstantsAssumption DEF Core, ModeInv, NativeInv, EnvelopeInv, Outside, Inside, Base, control, native,
           books, Raise
<1>0. /\ engine \in Int /\ snap \in Nat \cup {None} /\ None \notin Int
      /\ temporal.step \in Nat /\ entry.step \in Nat /\ steps \in Nat
      /\ pc = "attempt" => engine \in Nat
      /\ pc = "restore" => RestoredTemporal.step = engine
  BY EngineFacts
<1>1. CASE RunBegin
  BY <1>0, <1>1 DEF RunBegin
<1>2. CASE RetryConsumerFinalizers
  BY <1>0, <1>2 DEF RetryConsumerFinalizers
<1>3. CASE RestoreConsumerRecovery
  BY <1>0, <1>3 DEF RestoreConsumerRecovery
<1>4. CASE CleanupConsumerRecovery
  BY <1>0, <1>4 DEF CleanupConsumerRecovery
<1>5. CASE RunEnds
  BY <1>0, <1>5 DEF RunEnds
<1>6. CASE RunFails
  BY <1>0, <1>6 DEF RunFails
<1>7. CASE StepBegin
  BY <1>0, <1>7 DEF StepBegin
<1>8. CASE Retry
  BY <1>0, <1>8 DEF Retry, MayRetry
<1>9. CASE Enter
  BY <1>0, <1>9 DEF Enter
<1>10. CASE BeginOk
  BY <1>0, <1>10 DEF BeginOk
<1>11. CASE BeginFails
  BY <1>0, <1>11 DEF BeginFails
<1>12. CASE AttemptOk
  BY <1>0, <1>12, AttemptClock DEF AttemptOk
<1>13. CASE AttemptRejected
  BY <1>0, <1>13, AttemptClock DEF AttemptRejected
<1>14. CASE AttemptFails
  BY <1>0, <1>14, AttemptClock DEF AttemptFails
<1>15. CASE AttemptCrossesDeadline
  BY <1>0, <1>15, AttemptClock DEF AttemptCrossesDeadline
<1>16. CASE Plan \/ PlanRefused
  BY <1>0, <1>16 DEF Plan, PlanRefused
<1>17. CASE StageDone
  BY <1>0, <1>17 DEF StageDone
<1>18. CASE CommitOk \/ CommitFails
  BY <1>0, <1>18 DEF CommitOk, CommitFails
<1>19. CASE AcceptDone
  BY <1>0, <1>19 DEF AcceptDone
<1>20. CASE FinalizeOk
  BY <1>0, <1>20 DEF FinalizeOk
<1>21. CASE FinalizeFails
  BY <1>0, <1>21 DEF FinalizeFails
<1>22. CASE Publish
  BY <1>0, <1>22 DEF Publish, Return
<1>23. CASE AbortDone
  BY <1>0, <1>23 DEF AbortDone
<1>24. CASE Rollback
  BY <1>0, <1>24 DEF Rollback
<1>25. CASE Restore
  BY <1>0, <1>25 DEF Restore
<1>26. CASE \E c \in Clocks : Construct(c) \/ Accept(c) \/ Seal(c) \/ Abort(c)
  BY <1>0, <1>26, ConsumerFrame
<1> QED BY <1>1, <1>2, <1>3, <1>4, <1>5, <1>6, <1>7, <1>8, <1>9, <1>10, <1>11, <1>12, <1>13, <1>14, <1>15,
           <1>16, <1>17, <1>18, <1>19, <1>20, <1>21, <1>22, <1>23, <1>24, <1>25, <1>26
        DEF Next, Running, Calls

\* The entry state is inductive.
LEMMA EntryStep ==
  ASSUME Core, Next
  PROVE  EntryInv'
<1> USE ConstantsAssumption DEF Core, ModeInv, NativeInv, EntryInv, Outside, Base, control, native, Raise
<1>0. /\ engine \in Int /\ snap \in Nat \cup {None} /\ None \notin Int
      /\ temporal.step \in Nat /\ entry.step \in Nat /\ steps \in Nat
      /\ pc = "attempt" => engine \in Nat
      /\ pc = "restore" => RestoredTemporal.step = engine
  BY EngineFacts
<1>1. CASE RunBegin
  BY <1>0, <1>1 DEF RunBegin
<1>2. CASE RetryConsumerFinalizers
  BY <1>0, <1>2 DEF RetryConsumerFinalizers
<1>3. CASE RestoreConsumerRecovery
  BY <1>0, <1>3 DEF RestoreConsumerRecovery
<1>4. CASE CleanupConsumerRecovery
  BY <1>0, <1>4 DEF CleanupConsumerRecovery
<1>5. CASE RunEnds
  BY <1>0, <1>5 DEF RunEnds
<1>6. CASE RunFails
  BY <1>0, <1>6 DEF RunFails
<1>7. CASE StepBegin
  BY <1>0, <1>7 DEF StepBegin
<1>8. CASE Retry
  BY <1>0, <1>8 DEF Retry, MayRetry
<1>9. CASE Enter
  BY <1>0, <1>9 DEF Enter
<1>10. CASE BeginOk
  BY <1>0, <1>10 DEF BeginOk
<1>11. CASE BeginFails
  BY <1>0, <1>11 DEF BeginFails
<1>12. CASE AttemptOk
  BY <1>0, <1>12, AttemptClock DEF AttemptOk
<1>13. CASE AttemptRejected
  BY <1>0, <1>13, AttemptClock DEF AttemptRejected
<1>14. CASE AttemptFails
  BY <1>0, <1>14, AttemptClock DEF AttemptFails
<1>15. CASE AttemptCrossesDeadline
  BY <1>0, <1>15, AttemptClock DEF AttemptCrossesDeadline
<1>16. CASE Plan \/ PlanRefused
  BY <1>0, <1>16 DEF Plan, PlanRefused
<1>17. CASE StageDone
  BY <1>0, <1>17 DEF StageDone
<1>18. CASE CommitOk \/ CommitFails
  BY <1>0, <1>18 DEF CommitOk, CommitFails
<1>19. CASE AcceptDone
  BY <1>0, <1>19 DEF AcceptDone
<1>20. CASE FinalizeOk
  BY <1>0, <1>20 DEF FinalizeOk
<1>21. CASE FinalizeFails
  BY <1>0, <1>21 DEF FinalizeFails
<1>22. CASE Publish
  BY <1>0, <1>22 DEF Publish, Return
<1>23. CASE AbortDone
  BY <1>0, <1>23 DEF AbortDone
<1>24. CASE Rollback
  BY <1>0, <1>24 DEF Rollback
<1>25. CASE Restore
  BY <1>0, <1>25 DEF Restore
<1>26. CASE \E c \in Clocks : Construct(c) \/ Accept(c) \/ Seal(c) \/ Abort(c)
  BY <1>0, <1>26, ConsumerFrame
<1> QED BY <1>1, <1>2, <1>3, <1>4, <1>5, <1>6, <1>7, <1>8, <1>9, <1>10, <1>11, <1>12, <1>13, <1>14, <1>15,
           <1>16, <1>17, <1>18, <1>19, <1>20, <1>21, <1>22, <1>23, <1>24, <1>25, <1>26
        DEF Next, Running, Calls
-----------------------------------------------------------------------------
(***************************************************************************)
(* Consumer transactions                                                   *)
(***************************************************************************)

\* The states of the open transactions, statement by statement.
LEMMA OpenFacts ==
  /\ DOMAIN Open = {"stage", "commit", "accept", "finalize", "seal", "abort"}
  /\ Open["stage"] = {"none", "staged"}
  /\ Open["commit"] = {"staged"}
  /\ Open["accept"] = {"staged", "accepted"}
  /\ Open["finalize"] = {"accepted"}
  /\ Open["seal"] = {"accepted", "sealed"}
  /\ Open["abort"] = {"none", "staged", "accepted", "failed"}
BY DEF Open

\* The steps that neither touch a transaction nor have one open.
Calm ==
  \/ Calls \/ RunEnds \/ StepBegin \/ Retry \/ RunFails
  \/ Enter \/ BeginOk \/ BeginFails \/ PlanRefused
  \/ AttemptOk \/ AttemptRejected \/ AttemptFails \/ AttemptCrossesDeadline
  \/ Rollback \/ Restore

\* Such a step leaves the transactions alone; only a failure moves it to the
\* handler, where none is open.
LEMMA CalmFacts ==
  ASSUME Core, Calm
  PROVE  /\ UNCHANGED <<due, txn, authority, payload, artifacts, stray, cursors,
                        reports, orphans>>
         /\ pc \notin DOMAIN Open /\ due = {}
         /\ pc' \notin DOMAIN Open \ {"abort"}
<1>0. pc \notin {"stage", "commit", "accept", "finalize", "seal", "abort"} => due = {}
  BY OpenFacts DEF Core, TxnInv
<1> USE DEF control, native, books, world, Raise
<1>1. CASE Calls
  BY <1>0, <1>1, OpenFacts DEF Calls, RunBegin, RetryConsumerFinalizers,
       RestoreConsumerRecovery, CleanupConsumerRecovery
<1>2. CASE RunEnds \/ StepBegin \/ Retry \/ RunFails
  BY <1>0, <1>2, OpenFacts DEF RunEnds, StepBegin, Retry, RunFails
<1>3. CASE Enter \/ BeginOk \/ BeginFails \/ PlanRefused
  BY <1>0, <1>3, OpenFacts DEF Enter, BeginOk, BeginFails, PlanRefused
<1>4. CASE AttemptOk \/ AttemptRejected \/ AttemptFails \/ AttemptCrossesDeadline
  BY <1>0, <1>4, OpenFacts DEF AttemptOk, AttemptRejected, AttemptFails, AttemptCrossesDeadline
<1>5. CASE Rollback
  BY <1>0, <1>5, OpenFacts DEF Rollback
<1>6. CASE Restore
  <2>1. env.cursors = cursors /\ env.reports = reports
    BY <1>6 DEF Restore, Core, EnvelopeInv, ModeInv, Inside
  <2> QED BY <1>0, <1>6, <2>1, OpenFacts DEF Restore
<1> QED BY <1>1, <1>2, <1>3, <1>4, <1>5, <1>6 DEF Calm

\* The steps that move from one phase of the transactions to the next.
Phase ==
  \/ Plan \/ StageDone \/ CommitOk \/ CommitFails \/ AcceptDone
  \/ FinalizeOk \/ FinalizeFails \/ AbortDone

\* A phase change leaves transactions and books alone.
LEMMA PhaseFacts ==
  ASSUME Phase
  PROVE  /\ UNCHANGED <<txn, authority, artifacts, stray, cursors, reports, finalizers,
                        registry, holding, quarantines, orphans, engine>>
         /\ Plan \/ AbortDone \/ UNCHANGED <<due, payload>>
BY DEF Phase, Plan, StageDone, CommitOk, CommitFails, AcceptDone, FinalizeOk, FinalizeFails,
       AbortDone, native, books, world, Raise

\* Every step is of one of these kinds.
LEMMA StepKinds ==
  ASSUME Next
  PROVE  \/ Calm \/ Phase \/ Publish
         \/ \E c \in Clocks : Construct(c) \/ Accept(c) \/ Seal(c) \/ Abort(c)
BY DEF Next, Running, Calm, Phase

\* The transactions are inductive.
LEMMA TxnStep ==
  ASSUME Core, Next
  PROVE  TxnInv'
<1> USE OpenFacts DEF Core
<1>0. /\ txn \in [Clocks -> Txn] /\ due \in SUBSET Clocks
      /\ \A c \in Clocks : txn[c].state = "none" => txn[c] = Blank("none")
      /\ \A c \in Clocks : txn[c].state = "staged" => ~txn[c].public
      /\ \A c \in Clocks \ due : txn[c].state = "none"
      /\ pc \in DOMAIN Open => \A c \in due : txn[c].state \in Open[pc]
      /\ pc \notin DOMAIN Open => due = {}
  BY DEF TypeOK, TxnInv
<1>1. CASE Calm
  BY <1>0, <1>1, CalmFacts DEF TxnInv
<1>2. CASE Phase
  <2>1. UNCHANGED txn
    BY <1>2, PhaseFacts
  <2>2. CASE Plan
    <3>1. pc = "plan" /\ pc' = "stage" /\ due' \in SUBSET Clocks
      BY <2>2 DEF Plan
    <3> QED BY <1>0, <2>1, <3>1 DEF TxnInv
  <2>3. CASE StageDone
    BY <1>0, <2>1, <2>3 DEF TxnInv, StageDone, In
  <2>4. CASE CommitOk \/ CommitFails
    BY <1>0, <2>1, <2>4 DEF TxnInv, CommitOk, CommitFails, Raise
  <2>5. CASE AcceptDone
    BY <1>0, <2>1, <2>5 DEF TxnInv, AcceptDone, In
  <2>6. CASE FinalizeOk \/ FinalizeFails
    BY <1>0, <2>1, <2>6 DEF TxnInv, FinalizeOk, FinalizeFails, Raise
  <2>7. CASE AbortDone
    <3>1. \A c \in Clocks : txn[c].state = "none"
      BY <1>0, <2>7 DEF AbortDone, In
    <3> QED BY <1>0, <2>1, <2>7, <3>1 DEF TxnInv, AbortDone
  <2> QED BY <1>2, <2>2, <2>3, <2>4, <2>5, <2>6, <2>7 DEF Phase
<1>3. CASE Publish
  BY <1>3 DEF Publish, Return, TxnInv, NoTxns, Blank, Seen
<1>4. ASSUME NEW c \in Clocks, Construct(c) PROVE TxnInv'
  <2>1. c \in due /\ pc = "stage" /\ UNCHANGED due
    BY <1>4 DEF Construct, IsFirst, In
  <2>2. PICK t \in ConstructOutcomes(Blank("preparing")) :
          \/ t.state = "staged" /\ txn' = [txn EXCEPT ![c] = t] /\ pc' = pc
          \/ UNCHANGED txn /\ pc' = "abort"
    BY <1>4 DEF Construct, Raise
  <2>3. t.state = "staged" => ~t.public
    BY ConstructFacts
  <2> QED BY <1>0, <2>1, <2>2, <2>3 DEF TxnInv
<1>5. ASSUME NEW c \in Clocks, Accept(c) PROVE TxnInv'
  <2>1. c \in due /\ pc = "accept" /\ UNCHANGED due
    BY <1>5 DEF Accept, IsFirst, In
  <2>2. PICK t \in AcceptOutcomes(txn[c]) :
          /\ txn' = [txn EXCEPT ![c] = t]
          /\ pc' = IF t.state = "accepted" THEN "accept" ELSE "abort"
    BY <1>5 DEF Accept, Raise
  <2>3. t.state \in {"accepted", "failed"}
    BY <1>0, AcceptFacts
  <2> QED BY <1>0, <2>1, <2>2, <2>3 DEF TxnInv
<1>6. ASSUME NEW c \in Clocks, Seal(c) PROVE TxnInv'
  <2>1. c \in due /\ pc = "seal" /\ UNCHANGED <<due, pc>>
    BY <1>6 DEF Seal, IsFirst, In, control
  <2>2. PICK t \in SealOutcomes(txn[c]) : txn' = [txn EXCEPT ![c] = t]
    BY <1>6 DEF Seal
  <2>3. t.state = "sealed"
    BY <1>0, SealFacts
  <2> QED BY <1>0, <2>1, <2>2, <2>3 DEF TxnInv
<1>7. ASSUME NEW c \in Clocks, Abort(c) PROVE TxnInv'
  <2>1. c \in due /\ pc = "abort" /\ UNCHANGED <<due, pc>>
    BY <1>7 DEF Abort, IsLast, In, control
  <2>2. txn' = [txn EXCEPT ![c] = Blank("none")]
    BY <1>7 DEF Abort
  <2>3. Blank("none").state = "none"
    BY DEF Blank, Seen
  <2> QED BY <1>0, <2>1, <2>2, <2>3 DEF TxnInv
<1> QED BY <1>1, <1>2, <1>3, <1>4, <1>5, <1>6, <1>7, StepKinds

\* At the end of a step the accepted clocks are those with a sample that no
\* cursor counts yet.
LEMMA AcceptedFacts ==
  ASSUME Core, pc = "seal", NEW c \in Clocks
  PROVE  c \in Accepted <=> Uncounted(c)
<1>1. due \in SUBSET Clocks
  BY DEF Core, TypeOK
<1>2. c \in due => txn[c].state \in {"accepted", "sealed"}
  BY OpenFacts DEF Core, TxnInv
<1>3. c \notin due => txn[c].state = "none"
  BY DEF Core, TxnInv
<1> QED BY <1>1, <1>2, <1>3 DEF Accepted, Uncounted

\* The account of the public artifacts is inductive.
LEMMA ArtifactStep ==
  ASSUME Core, Next
  PROVE  ArtifactInv'
<1> USE DEF Core
<1>0. /\ txn \in [Clocks -> Txn] /\ cursors \in Counts /\ stray \in Counts /\ artifacts \in Counts
      /\ \A d \in Clocks : cursors[d] \in Nat /\ stray[d] \in Nat /\ artifacts[d] \in Nat
      /\ \A d \in Clocks :
           artifacts[d] = cursors[d] + stray[d] + (IF Uncounted(d) THEN 1 ELSE 0)
  BY DEF TypeOK, ArtifactInv, Counts
<1>1. CASE Calm \/ Phase
  <2>1. UNCHANGED <<txn, artifacts, stray, cursors>>
    BY <1>1, CalmFacts, PhaseFacts
  <2> QED BY <2>1 DEF ArtifactInv, Uncounted
<1>2. CASE Publish
  <2>1. /\ UNCHANGED <<artifacts, stray>> /\ pc = "seal"
        /\ txn' = NoTxns /\ cursors' = AcceptedCursors
    BY <1>2 DEF Publish, Return
  <2>2. \A d \in Clocks : ~Uncounted(d)'
    BY <2>1 DEF Uncounted, NoTxns, Blank, Seen
  <2>3. \A d \in Clocks : cursors'[d] = cursors[d] + (IF Uncounted(d) THEN 1 ELSE 0)
    BY <1>0, <2>1, AcceptedFacts DEF AcceptedCursors
  <2> QED BY <1>0, <2>1, <2>2, <2>3 DEF ArtifactInv
<1>3. ASSUME NEW c \in Clocks, Construct(c) PROVE ArtifactInv'
  <2>1. txn[c].state = "none" /\ UNCHANGED <<artifacts, stray, cursors>>
    BY <1>3 DEF Construct, IsFirst, In, books
  <2>2. PICK t \in ConstructOutcomes(Blank("preparing")) :
          \/ t.state = "staged" /\ txn' = [txn EXCEPT ![c] = t]
          \/ UNCHANGED txn
    BY <1>3 DEF Construct
  <2>3. \A d \in Clocks : Uncounted(d)' <=> Uncounted(d)
    BY <1>0, <2>1, <2>2 DEF Uncounted
  <2> QED BY <1>0, <2>1, <2>3 DEF ArtifactInv
<1>4. ASSUME NEW c \in Clocks, Accept(c) PROVE ArtifactInv'
  <2>1. txn[c].state = "staged" /\ UNCHANGED cursors
    BY <1>4 DEF Accept, IsFirst, In, books
  <2>2. PICK t \in AcceptOutcomes(txn[c]) :
          /\ txn' = [txn EXCEPT ![c] = t]
          /\ artifacts' = Bump(artifacts, c, t.public)
          /\ stray' = Bump(stray, c, t.state = "failed" /\ t.public)
    BY <1>4 DEF Accept
  <2>3. t \in Txn /\ t.state \in {"accepted", "failed"} /\ t.public \in BOOLEAN
    BY <1>0, AcceptFacts, TxnFields
  <2>4. /\ artifacts'[c] = artifacts[c] + (IF t.public THEN 1 ELSE 0)
        /\ \A d \in Clocks \ {c} : artifacts'[d] = artifacts[d]
    BY <1>0, <2>2, <2>3, BumpFacts
  <2>5. /\ stray'[c] = stray[c] + (IF t.state = "failed" /\ t.public THEN 1 ELSE 0)
        /\ \A d \in Clocks \ {c} : stray'[d] = stray[d]
    <3>1. (t.state = "failed" /\ t.public) \in BOOLEAN
      OBVIOUS
    <3> QED BY <1>0, <2>2, <3>1, BumpFacts
  <2>6. \A d \in Clocks \ {c} : Uncounted(d)' <=> Uncounted(d)
    BY <1>0, <2>2 DEF Uncounted
  <2>7. ~Uncounted(c) /\ (Uncounted(c)' <=> t.state = "accepted" /\ t.public)
    BY <1>0, <2>1, <2>2, <2>3 DEF Uncounted
  <2>8. artifacts'[c] = cursors[c] + stray'[c] + (IF Uncounted(c)' THEN 1 ELSE 0)
    BY <1>0, <2>3, <2>4, <2>5, <2>7
  <2>9. \A d \in Clocks \ {c} :
          artifacts'[d] = cursors[d] + stray'[d] + (IF Uncounted(d)' THEN 1 ELSE 0)
    BY <1>0, <2>4, <2>5, <2>6
  <2> QED BY <2>1, <2>8, <2>9 DEF ArtifactInv
<1>5. ASSUME NEW c \in Clocks, Seal(c) PROVE ArtifactInv'
  <2>1. txn[c].state = "accepted" /\ UNCHANGED <<artifacts, stray, cursors>>
    BY <1>5 DEF Seal, IsFirst, In, world
  <2>2. PICK t \in SealOutcomes(txn[c]) : txn' = [txn EXCEPT ![c] = t]
    BY <1>5 DEF Seal
  <2>3. t.state = "sealed" /\ t.public = txn[c].public
    BY <1>0, SealFacts
  <2>4. \A d \in Clocks : Uncounted(d)' <=> Uncounted(d)
    BY <1>0, <2>1, <2>2, <2>3 DEF Uncounted
  <2> QED BY <1>0, <2>1, <2>4 DEF ArtifactInv
<1>6. ASSUME NEW c \in Clocks, Abort(c) PROVE ArtifactInv'
  <2>1. /\ txn[c].state \in {"staged", "accepted", "failed"} /\ UNCHANGED cursors
        /\ txn[c].state = "staged" => ~txn[c].public
    BY <1>6, OpenFacts DEF Abort, IsLast, In, TxnInv
  <2>2. PICK t \in AbortOutcomes(txn[c]) :
          /\ artifacts' = [artifacts EXCEPT ![c] =
                             @ - (IF txn[c].public /\ ~t.public THEN 1 ELSE 0)]
          /\ stray' = Bump(stray, c, txn[c].state = "accepted" /\ t.public)
    BY <1>6 DEF Abort
  <2>3. /\ t.public \in BOOLEAN /\ (t.public => txn[c].public) /\ txn[c].public \in BOOLEAN
        /\ txn[c].state = "failed" => t = txn[c]
    BY <1>0, AbortFacts, TxnFields
  <2>4. /\ artifacts'[c] = artifacts[c] - (IF txn[c].public /\ ~t.public THEN 1 ELSE 0)
        /\ \A d \in Clocks \ {c} : artifacts'[d] = artifacts[d]
    BY <1>0, <2>2 DEF Counts
  <2>5. /\ stray'[c] = stray[c] + (IF txn[c].state = "accepted" /\ t.public THEN 1 ELSE 0)
        /\ \A d \in Clocks \ {c} : stray'[d] = stray[d]
    <3>1. (txn[c].state = "accepted" /\ t.public) \in BOOLEAN
      OBVIOUS
    <3> QED BY <1>0, <2>2, <3>1, BumpFacts
  <2>6. txn' = [txn EXCEPT ![c] = Blank("none")] /\ Blank("none").state = "none"
    BY <1>6 DEF Abort, Blank, Seen
  <2>7. \A d \in Clocks \ {c} : Uncounted(d)' <=> Uncounted(d)
    BY <1>0, <2>6 DEF Uncounted
  <2>8. (Uncounted(c) <=> txn[c].state = "accepted" /\ txn[c].public) /\ ~Uncounted(c)'
    BY <1>0, <2>1, <2>6 DEF Uncounted
  <2>9. artifacts'[c] = cursors[c] + stray'[c] + (IF Uncounted(c)' THEN 1 ELSE 0)
    BY <1>0, <2>1, <2>3, <2>4, <2>5, <2>8
  <2>10. \A d \in Clocks \ {c} :
           artifacts'[d] = cursors[d] + stray'[d] + (IF Uncounted(d)' THEN 1 ELSE 0)
    BY <1>0, <2>4, <2>5, <2>7
  <2> QED BY <2>1, <2>9, <2>10 DEF ArtifactInv
<1> QED BY <1>1, <1>2, <1>3, <1>4, <1>5, <1>6, StepKinds

\* Outside the consumer transactions the registry forgets only what the
\* operator has cleaned up.
LEMMA CalmOwners ==
  ASSUME Core, Calm
  PROVE  /\ holding' \subseteq finalizers'
         /\ \A q \in quarantines' :
              /\ q \in quarantines
              /\ q \in registry.retained \cup registry.restored
                   => q \in registry'.retained \cup registry'.restored
<1> USE DEF Core, control, native, books, world, Raise
<1>0. /\ registry \in [retained : SUBSET Nat, restored : SUBSET Nat]
      /\ holding \subseteq finalizers /\ owners \subseteq finalizers \X Nat
  BY DEF TypeOK, OwnersInv
<1>1. CASE RunBegin
  BY <1>0, <1>1, RetryFacts DEF RunBegin
<1>2. CASE RetryConsumerFinalizers
  BY <1>0, <1>2, RetryFacts DEF RetryConsumerFinalizers
<1>3. CASE RestoreConsumerRecovery
  BY <1>0, <1>3 DEF RestoreConsumerRecovery
<1>4. CASE CleanupConsumerRecovery
  BY <1>0, <1>4 DEF CleanupConsumerRecovery
<1>5. CASE RunEnds \/ StepBegin \/ Retry \/ RunFails
  BY <1>0, <1>5 DEF RunEnds, StepBegin, Retry, RunFails
<1>6. CASE Enter
  BY <1>0, <1>6, RetryFacts DEF Enter
<1>7. CASE BeginOk \/ BeginFails \/ PlanRefused
  BY <1>0, <1>7 DEF BeginOk, BeginFails, PlanRefused
<1>8. CASE AttemptOk \/ AttemptRejected
  BY <1>0, <1>8 DEF AttemptOk, AttemptRejected
<1>9. CASE AttemptFails \/ AttemptCrossesDeadline
  BY <1>0, <1>9 DEF AttemptFails, AttemptCrossesDeadline
<1>10. CASE Rollback \/ Restore
  BY <1>0, <1>10 DEF Rollback, Restore
<1> QED BY <1>1, <1>2, <1>3, <1>4, <1>5, <1>6, <1>7, <1>8, <1>9, <1>10 DEF Calm, Calls

\* The account of the owners is inductive.
LEMMA OwnersStep ==
  ASSUME Core, Next
  PROVE  OwnersInv'
<1> USE DEF Core
<1>0. /\ txn \in [Clocks -> Txn] /\ authority \in [Clocks -> SUBSET Nat]
      /\ registry \in [retained : SUBSET Nat, restored : SUBSET Nat]
      /\ races \in 0 .. MaxQuarantines /\ quarantines \subseteq Nat
      /\ holding \subseteq finalizers
      /\ \A c \in Clocks : txn[c].state = "none" => authority[c] = {}
      /\ \A q \in quarantines \ orphans : Owned(q)
  BY DEF TypeOK, OwnersInv
<1>1. CASE Calm
  <2>1. UNCHANGED <<txn, authority, orphans>>
    BY <1>1, CalmFacts
  <2> QED BY <1>0, <1>1, <2>1, CalmOwners DEF OwnersInv, Owned
<1>2. CASE Phase
  <2>1. UNCHANGED <<txn, authority, finalizers, registry, holding, quarantines, orphans>>
    BY <1>2, PhaseFacts
  <2> QED BY <2>1 DEF OwnersInv, Owned
<1>3. CASE Publish
  <2>1. /\ txn' = NoTxns /\ authority' = NoAuthorities /\ pc = "seal"
        /\ In({"accepted"}) = {} /\ UNCHANGED <<quarantines, orphans>>
    BY <1>3 DEF Publish, Return
  <2>2. /\ holding' \subseteq finalizers'
        /\ registry.retained \cup registry.restored
             \subseteq registry'.retained \cup registry'.restored
    <3>1. owners \cup UnreleasedOwners \subseteq (finalizers \cup Unreleased) \X Nat
      BY UnreleasedOwnersType DEF TypeOK
    <3> QED BY <1>0, <1>3, <3>1, RetryFacts DEF Publish
  <2>3. \A c \in Clocks : txn[c].state = "sealed" \/ authority[c] = {}
    BY <1>0, <2>1, OpenFacts DEF TxnInv, In
  <2>4. \A q \in quarantines \ orphans : q \in registry.retained \cup registry.restored
    BY <1>0, <2>3 DEF Owned
  <2>5. \A c \in Clocks : authority'[c] = {}
    BY <2>1 DEF NoAuthorities
  <2> QED BY <2>1, <2>2, <2>4, <2>5 DEF OwnersInv, Owned
<1>4. ASSUME NEW c \in Clocks, Construct(c) PROVE OwnersInv'
  <2>1. txn[c].state = "none" /\ UNCHANGED <<authority, holding, finalizers>>
    BY <1>4 DEF Construct, IsFirst, In
  <2>2. PICK t \in ConstructOutcomes(Blank("preparing")) :
          /\ Quarantine(Blank("preparing"), t)
          /\ \/ /\ t.state = "staged" /\ txn' = [txn EXCEPT ![c] = t]
                /\ UNCHANGED <<registry, orphans>>
             \/ /\ UNCHANGED <<txn, orphans>>
                /\ registry' = Registered(Fresh(Blank("preparing"), t))
             \/ /\ UNCHANGED <<txn, registry>>
                /\ orphans' = orphans \cup Fresh(Blank("preparing"), t)
    BY <1>4 DEF Construct
  <2> DEFINE F == Fresh(Blank("preparing"), t)
  <2>3. F \in SUBSET Nat /\ quarantines' = quarantines \cup F
    BY <1>0, <2>2, QuarantineFacts
  <2>4. t.state = "staged" => F = {}
    BY ConstructFacts DEF Fresh
  <2> HIDE DEF F
  <2>5. CASE t.state = "staged" /\ txn' = [txn EXCEPT ![c] = t] /\ UNCHANGED <<registry, orphans>>
    <3>1. quarantines' = quarantines
      BY <2>3, <2>4, <2>5
    <3>2. \A d \in Clocks : /\ txn'[d].state # "sealed" \/ txn'[d] = txn[d]
                            /\ txn'[d].state = "none" => txn[d].state = "none"
      BY <1>0, <2>5
    <3>3. \A d \in Clocks : txn[d].state # "sealed" => txn'[d].state # "sealed"
      BY <3>2
    <3> QED BY <1>0, <2>1, <2>5, <3>1, <3>2, <3>3 DEF OwnersInv, Owned
  <2>6. CASE UNCHANGED <<txn, orphans>> /\ registry' = Registered(F)
    <3>1. registry'.retained \cup registry'.restored
            = registry.retained \cup registry.restored \cup F
      BY <1>0, <2>3, <2>6, RegisteredFacts
    <3> QED BY <1>0, <2>1, <2>3, <2>6, <3>1 DEF OwnersInv, Owned
  <2>7. CASE UNCHANGED <<txn, registry>> /\ orphans' = orphans \cup F
    BY <1>0, <2>1, <2>3, <2>7 DEF OwnersInv, Owned
  <2> QED BY <2>2, <2>5, <2>6, <2>7 DEF F
<1>5. ASSUME NEW c \in Clocks, Accept(c) PROVE OwnersInv'
  <2>1. txn[c].state = "staged" /\ UNCHANGED <<registry, holding, finalizers, orphans>>
    BY <1>5 DEF Accept, IsFirst, In, books
  <2>2. PICK t \in AcceptOutcomes(txn[c]) :
          /\ Quarantine(txn[c], t) /\ txn' = [txn EXCEPT ![c] = t]
          /\ authority' = [authority EXCEPT ![c] = @ \cup Fresh(txn[c], t)]
    BY <1>5 DEF Accept
  <2> DEFINE F == Fresh(txn[c], t)
  <2>3. t.state \in {"accepted", "failed"}
    BY <1>0, AcceptFacts
  <2>4. F \in SUBSET Nat /\ quarantines' = quarantines \cup F
    BY <1>0, <2>2, QuarantineFacts
  <2>5. /\ txn'[c].state \notin {"none", "sealed"} /\ authority'[c] = authority[c] \cup F
        /\ \A d \in Clocks \ {c} : txn'[d] = txn[d] /\ authority'[d] = authority[d]
    BY <1>0, <2>2, <2>3
  <2> HIDE DEF F
  <2> QED BY <1>0, <2>1, <2>4, <2>5 DEF OwnersInv, Owned
<1>6. ASSUME NEW c \in Clocks, Seal(c) PROVE OwnersInv'
  <2>1. /\ UNCHANGED <<authority, quarantines, holding, finalizers, orphans>>
        /\ registry' = Registered(authority[c])
    BY <1>6 DEF Seal, world
  <2>2. PICK t \in SealOutcomes(txn[c]) : txn' = [txn EXCEPT ![c] = t]
    BY <1>6 DEF Seal
  <2>3. t.state = "sealed"
    BY <1>0, SealFacts
  <2>4. txn'[c].state = "sealed" /\ \A d \in Clocks \ {c} : txn'[d] = txn[d]
    BY <1>0, <2>2, <2>3
  <2>5. registry'.retained \cup registry'.restored
          = registry.retained \cup registry.restored \cup authority[c]
    BY <1>0, <2>1, RegisteredFacts
  <2> QED BY <1>0, <2>1, <2>4, <2>5 DEF OwnersInv, Owned
<1>7. ASSUME NEW c \in Clocks, Abort(c) PROVE OwnersInv'
  <2>1. /\ UNCHANGED <<holding, finalizers, orphans>>
        /\ txn' = [txn EXCEPT ![c] = Blank("none")]
        /\ authority' = [authority EXCEPT ![c] = {}]
    BY <1>7 DEF Abort
  <2>2. PICK t \in AbortOutcomes(txn[c]) :
          /\ Quarantine(txn[c], t)
          /\ registry' = Registered(authority[c] \cup Fresh(txn[c], t))
    BY <1>7 DEF Abort
  <2> DEFINE F == Fresh(txn[c], t)
  <2>3. F \in SUBSET Nat /\ quarantines' = quarantines \cup F
    BY <1>0, <2>2, QuarantineFacts
  <2>4. registry'.retained \cup registry'.restored
          = registry.retained \cup registry.restored \cup (authority[c] \cup F)
    <3>1. authority[c] \cup F \in SUBSET Nat
      BY <1>0, <2>3
    <3> QED BY <1>0, <2>2, <3>1, RegisteredFacts
  <2>5. /\ authority'[c] = {}
        /\ \A d \in Clocks \ {c} : txn'[d] = txn[d] /\ authority'[d] = authority[d]
    BY <1>0, <2>1
  <2> HIDE DEF F
  <2> QED BY <1>0, <2>1, <2>3, <2>4, <2>5 DEF OwnersInv, Owned
<1> QED BY <1>1, <1>2, <1>3, <1>4, <1>5, <1>6, <1>7, StepKinds

\* Nothing is open and nothing is owed in the first state.
LEMMA CoreInit == Init => Core
<1> SUFFICES ASSUME Init PROVE Core
  OBVIOUS
<1>1. temporal \in Temporal /\ temporal.step = 0
  BY DEF Init, Temporal
<1>2. cursors \in Counts /\ artifacts \in Counts /\ stray \in Counts
  BY DEF Init, Counts
<1>3. txn \in [Clocks -> Txn]
  BY DEF Init, NoTxns, Blank, Seen, Txn
<1>4. reports \in Seq(Report)
  BY DEF Init
<1>5. env \in [temporal : Temporal, attempt : Nat, cursors : Counts, reports : Seq(Report)]
  BY <1>1, <1>2, <1>4 DEF Init
<1>6. /\ registry \in [retained : SUBSET Nat, restored : SUBSET Nat] /\ entry \in Temporal
      /\ authority \in [Clocks -> SUBSET Nat]
  BY <1>1 DEF Init, NoAuthorities
<1>7. TypeOK
  <2>1. pc = "idle" /\ mode = "fire" /\ error = None /\ begun = FALSE /\ committed = FALSE
    BY DEF Init
  <2>2. runs = 0 /\ steps = 0 /\ tries = 0 /\ attempt = 0 /\ engine = 0 /\ snap = None
    BY DEF Init
  <2>3. /\ due = {} /\ payload = None /\ finalizers = {} /\ owners = {} /\ holding = {}
        /\ quarantines = {} /\ orphans = {} /\ races = 0
    BY DEF Init
  <2>4. /\ runs \in 0 .. MaxRuns /\ steps \in 0 .. MaxSteps
        /\ tries \in 0 .. RetryBudget + 1 /\ races \in 0 .. MaxQuarantines
    BY <2>2, <2>3, BoundsAreNatural
  <2> QED BY <1>1, <1>2, <1>3, <1>4, <1>5, <1>6, <2>1, <2>2, <2>3, <2>4 DEF TypeOK
<1>8. ModeInv /\ EnvelopeInv /\ EntryInv
  BY ConstantsAssumption DEF Init, ModeInv, EnvelopeInv, EntryInv
<1>9. NativeInv
  BY <1>1 DEF Init, NativeInv
<1>10. \A c \in Clocks : txn[c] = Blank("none") /\ txn[c].state = "none" /\ ~txn[c].recovered
  BY DEF Init, NoTxns, Blank, Seen
<1>11. TxnInv
  BY <1>10, OpenFacts DEF Init, TxnInv
<1>12. ArtifactInv
  BY <1>10 DEF Init, ArtifactInv, Uncounted
<1>13. OwnersInv
  BY DEF Init, OwnersInv, NoAuthorities
<1> QED BY <1>7, <1>8, <1>9, <1>11, <1>12, <1>13 DEF Core

\* Core is inductive.
LEMMA CoreStep ==
  ASSUME Core, [Next]_vars
  PROVE  Core'
<1>1. CASE Next
  BY <1>1, TypeStep, ModeStep, NativeStep, EnvelopeStep, EntryStep, TxnStep, ArtifactStep,
     OwnersStep DEF Core
<1>2. CASE UNCHANGED vars
  <2> USE <1>2 DEF Core, vars, control, native, books, world
  <2>1. TypeOK'
    BY DEF TypeOK
  <2>2. ModeInv' /\ NativeInv'
    BY DEF ModeInv, NativeInv
  <2>3. EnvelopeInv' /\ EntryInv'
    BY DEF EnvelopeInv, EntryInv, Base
  <2>4. TxnInv'
    BY DEF TxnInv
  <2>5. ArtifactInv' /\ OwnersInv'
    BY DEF ArtifactInv, Uncounted, OwnersInv, Owned
  <2> QED BY <2>1, <2>2, <2>3, <2>4, <2>5
<1> QED BY <1>1, <1>2

\* Every store of the envelope keeps its shape: in particular the engine is
\* never read as None, no counter of public artifacts becomes negative, the
\* attempts of one step stay within the retry budget, and every pending
\* finalizer is the index of an existing report.
THEOREM TypeCorrect == Spec => []TypeOK
<1>1. Core => TypeOK
  BY DEF Core
<1> QED BY <1>1, CoreInit, CoreStep, PTL DEF Spec
-----------------------------------------------------------------------------
(***************************************************************************)
(* Cursors count the reports of published samples                          *)
(***************************************************************************)

\* The reports that publishing adds: one more of clock c exactly when its
\* transaction published a sample.
LEMMA PublishedFacts ==
  ASSUME TypeOK, NEW c \in Clocks
  PROVE  Cardinality(Published(AcceptedReports, c))
           = Cardinality(Published(reports, c)) + (IF c \in Accepted THEN 1 ELSE 0)
<1> DEFINE k == Len(reports)
           n == Cardinality(due)
           A == AcceptedReports
           P == Published(reports, c)
<1>1. /\ k \in Nat /\ n \in Nat /\ reports \in Seq(Report)
      /\ txn \in [Clocks -> Txn] /\ due \in SUBSET Clocks
  BY ClocksFinite DEF TypeOK
<1>2. /\ A \in Seq(Report) /\ Len(A) = k + n
      /\ \A i \in 1 .. k : A[i] = reports[i]
      /\ \A d \in due : A[ReportIndex(d)] = [clock |-> d, public |-> txn[d].public]
      /\ \A i \in (k + 1) .. (k + n) : \E d \in due : i = ReportIndex(d)
  BY AcceptedReportsFacts
<1>3. \A d \in due : ReportIndex(d) \in (k + 1) .. (k + n)
  BY ReportIndexFacts
<1>4. P \subseteq 1 .. k /\ IsFiniteSet(P) /\ Cardinality(P) \in Nat
  <2>1. P \subseteq 1 .. k
    BY <1>1 DEF Published
  <2>2. IsFiniteSet(1 .. k)
    BY <1>1, FS_Interval
  <2> QED BY <2>1, <2>2, FS_Subset, FS_CardinalityType
<1>5. \A i \in 1 .. k : i \in Published(A, c) <=> i \in P
  BY <1>1, <1>2 DEF Published
<1>6. \A d \in due : ReportIndex(d) \in Published(A, c) <=> d = c /\ c \in Accepted
  <2> SUFFICES ASSUME NEW d \in due
               PROVE  ReportIndex(d) \in Published(A, c) <=> d = c /\ c \in Accepted
    OBVIOUS
  <2>1. ReportIndex(d) \in DOMAIN A
    BY <1>1, <1>2, <1>3
  <2>2. txn[d].public \in BOOLEAN
    BY <1>1, TxnFields
  <2>3. [clock |-> d, public |-> txn[d].public] = [clock |-> c, public |-> TRUE]
          <=> d = c /\ txn[d].public = TRUE
    OBVIOUS
  <2>4. ReportIndex(d) \in Published(A, c) <=> d = c /\ txn[d].public = TRUE
    BY <1>2, <2>1, <2>3 DEF Published
  <2>5. d = c => (c \in Accepted <=> txn[d].public)
    BY DEF Accepted
  <2> QED BY <2>2, <2>4, <2>5
<1>7. Published(A, c) \subseteq (1 .. k) \cup {ReportIndex(d) : d \in due}
  BY <1>1, <1>2 DEF Published
<1> HIDE DEF A, P, k, n
<1>8. CASE c \in Accepted
  <2>1. c \in due
    BY <1>8 DEF Accepted
  <2>2. Published(A, c) = P \cup {ReportIndex(c)}
    BY <1>4, <1>5, <1>6, <1>7, <1>8, <2>1
  <2>3. ReportIndex(c) \notin P
    BY <1>1, <1>3, <1>4, <2>1
  <2> QED BY <1>4, <1>8, <2>2, <2>3, FS_AddElement DEF A, P
<1>9. CASE c \notin Accepted
  <2>1. Published(A, c) = P
    BY <1>4, <1>5, <1>6, <1>7, <1>9
  <2> QED BY <1>4, <1>9, <2>1 DEF A, P
<1> QED BY <1>8, <1>9

\* Only publishing changes the books.
LEMMA BooksFrame ==
  ASSUME Core, Next, ~Publish
  PROVE  UNCHANGED <<cursors, reports>>
BY StepKinds, CalmFacts, PhaseFacts, ConsumerFrame

\* The count is inductive.
LEMMA CountStep ==
  ASSUME Core, CountInv, [Next]_vars
  PROVE  CountInv'
<1>1. CASE Publish
  <2>1. cursors' = AcceptedCursors /\ reports' = AcceptedReports
    BY <1>1 DEF Publish, Return
  <2>2. \A c \in Clocks : cursors'[c] = cursors[c] + (IF c \in Accepted THEN 1 ELSE 0)
    BY <2>1 DEF AcceptedCursors, Core, TypeOK, Counts
  <2>3. \A c \in Clocks : Published(reports', c) = Published(AcceptedReports, c)
    BY <2>1
  <2> QED BY <2>2, <2>3, PublishedFacts DEF Core, CountInv
<1>2. CASE ~Publish
  <2>1. UNCHANGED <<cursors, reports>>
    BY <1>2, BooksFrame DEF vars, books
  <2> QED BY <2>1 DEF CountInv, Published
<1> QED BY <1>1, <1>2

\* A step that returns or raises leaves nothing half done: whatever attempt
\* failed, wherever compensation stopped, for any number of clocks and retries.
THEOREM StepIsAtomicAlways == Spec => []StepIsAtomic
<1>1. Init => CountInv
  <2> SUFFICES ASSUME Init, NEW c \in Clocks PROVE cursors[c] = Cardinality(Published(reports, c))
    BY DEF CountInv
  <2>1. Published(reports, c) = {}
    BY DEF Init, Published
  <2> QED BY <2>1, FS_EmptySet DEF Init
<1>2. Core /\ CountInv => StepIsAtomic
  <2> SUFFICES ASSUME Core, CountInv, Resting PROVE StepIsAtomic
    BY DEF StepIsAtomic
  <2>1. snap = None /\ engine = temporal.step
    BY DEF Core, NativeInv, Outside, Resting
  <2>2. due = {}
    BY OpenFacts DEF Core, TxnInv, Resting
  <2>3. \A c \in Clocks : txn[c] = Blank("none") /\ ~Uncounted(c)
    BY <2>2 DEF Core, TxnInv, Uncounted
  <2>4. txn = NoTxns
    BY <2>3 DEF Core, TypeOK, NoTxns
  <2>5. \A c \in Clocks : artifacts[c] = cursors[c] + stray[c]
    BY <2>3 DEF Core, TypeOK, ArtifactInv, Counts
  <2> QED BY <2>1, <2>4, <2>5 DEF StepIsAtomic, CountInv, Published
<1> QED BY <1>1, <1>2, CoreInit, CoreStep, CountStep, PTL DEF Spec

\* No owner is lost on any path: whatever fails, is compensated or is retried, a
\* transaction with unreleased resources is a pending finalizer between two
\* steps, and every quarantined inode has its recovery in the registry.  The
\* only ones that have none are those of a constructor that raised after it had
\* discarded a preparation, whose transaction nobody holds.
THEOREM OwnersAreRetained == Spec => []OwnersRetained
<1>1. Core => OwnersRetained
  <2> SUFFICES ASSUME Core, Resting PROVE OwnersRetained
    BY DEF OwnersRetained
  <2>1. due = {}
    BY OpenFacts DEF Core, TxnInv, Resting
  <2>2. \A c \in Clocks : authority[c] = {}
    BY <2>1 DEF Core, TxnInv, OwnersInv
  <2> QED BY <2>2 DEF Core, OwnersInv, Owned, OwnersRetained
<1> QED BY <1>1, CoreInit, CoreStep, PTL DEF Spec
-----------------------------------------------------------------------------
(***************************************************************************)
(* Checkpoints, and the accepted step seen from outside                    *)
(***************************************************************************)

\* The prediction written into a checkpoint is inductive.
LEMMA PayloadStep ==
  ASSUME Core, PayloadInv, [Next]_vars
  PROVE  PayloadInv'
<1> DEFINE Held == {"stage", "commit", "accept", "finalize", "seal"}
           Exact == payload = [step |-> engine, cursors |-> Predicted(due)]
                    /\ due \cap Skipping = {}
<1>0. /\ payload # None /\ pc \in Held => Exact
      /\ \A c \in Clocks \ Skipping :
           txn[c].state \in {"accepted", "sealed"} => txn[c].public
      /\ txn \in [Clocks -> Txn]
  BY DEF PayloadInv, Core, TypeOK
<1>1. CASE UNCHANGED vars
  BY <1>1 DEF PayloadInv, Predicted, vars, control, native, books
<1>2. CASE Calm
  BY <1>0, <1>2, CalmFacts, OpenFacts DEF PayloadInv
<1>3. CASE Phase
  <2>1. UNCHANGED <<txn, cursors, engine>>
    BY <1>3, PhaseFacts
  <2>2. CASE Plan
    <3>1. PICK D \in SUBSET Clocks :
            /\ due' = D
            /\ payload' # None =>
                 /\ payload' = [step |-> engine, cursors |-> Predicted(D)]
                 /\ PredictableWith(D)
      BY <2>2 DEF Plan
    <3>2. Predicted(D)' = Predicted(D)
      BY <2>1 DEF Predicted
    <3>3. payload' # None => payload' = [step |-> engine', cursors |-> Predicted(due)']
      BY <2>1, <3>1 DEF Predicted
    <3> QED BY <1>0, <2>1, <3>1, <3>3 DEF PayloadInv, PredictableWith
  <2>3. CASE AbortDone
    BY <1>0, <2>1, <2>3 DEF PayloadInv, AbortDone
  <2>4. CASE ~Plan /\ ~AbortDone
    <3>1. pc \in Held /\ UNCHANGED <<due, payload>>
      BY <1>3, <2>4, PhaseFacts
         DEF Phase, StageDone, CommitOk, CommitFails, AcceptDone, FinalizeOk, FinalizeFails
    <3>2. Predicted(due)' = Predicted(due)
      BY <2>1, <3>1 DEF Predicted
    <3> QED BY <1>0, <2>1, <3>1, <3>2 DEF PayloadInv
  <2> QED BY <2>2, <2>3, <2>4
<1>4. CASE Publish
  BY <1>4 DEF Publish, Return, PayloadInv, NoTxns, Blank, Seen
<1>5. ASSUME NEW c \in Clocks, Construct(c) \/ Accept(c) \/ Seal(c) \/ Abort(c)
      PROVE  PayloadInv'
  <2>1. UNCHANGED <<due, payload, cursors, engine>> /\ pc \in Held \cup {"abort"}
        /\ (pc = "abort" => pc' = "abort")
    BY <1>5, ConsumerFrame DEF native
  <2>2. Predicted(due)' = Predicted(due)
    BY <2>1 DEF Predicted
  <2>3. payload' # None /\ pc' \in Held => Exact'
    BY <1>0, <2>1, <2>2
  <2>4. \A d \in Clocks \ Skipping :
          txn'[d].state \in {"accepted", "sealed"} => txn'[d].public
    <3>1. CASE Construct(c)
      BY <1>0, <3>1, ConstructFacts DEF Construct
    <3>2. CASE Accept(c)
      <4>1. PICK t : /\ t.state = "accepted" /\ c \notin Skipping => t.public
                     /\ txn' = [txn EXCEPT ![c] = t] /\ t.state \in {"accepted", "failed"}
        BY <1>0, <3>2, AcceptFacts DEF Accept
      <4> QED BY <1>0, <4>1
    <3>3. CASE Seal(c)
      <4>1. txn[c].state = "accepted"
        BY <3>3 DEF Seal, IsFirst, In
      <4>2. PICK t \in SealOutcomes(txn[c]) : txn' = [txn EXCEPT ![c] = t]
        BY <3>3 DEF Seal
      <4>3. t.public = txn[c].public
        BY <1>0, SealFacts
      <4> QED BY <1>0, <4>1, <4>2, <4>3
    <3>4. CASE Abort(c)
      BY <1>0, <3>4 DEF Abort, Blank, Seen
    <3> QED BY <1>5, <3>1, <3>2, <3>3, <3>4
  <2> QED BY <2>3, <2>4 DEF PayloadInv
<1> QED BY <1>1, <1>2, <1>3, <1>4, <1>5, StepKinds

\* A step that leaves the seals for the run loop publishes.
LEMMA SealExit ==
  ASSUME Core, Next, pc = "seal", pc' = "loop"
  PROVE  Publish
<1>1. ~Calm
  BY CalmFacts, OpenFacts
<1>2. ~Phase
  BY DEF Phase, Plan, StageDone, CommitOk, CommitFails, AcceptDone, FinalizeOk, FinalizeFails,
         AbortDone
<1>3. ASSUME NEW c \in Clocks, Construct(c) \/ Accept(c) \/ Seal(c) \/ Abort(c) PROVE FALSE
  BY <1>3, ConsumerFrame
<1> QED BY <1>1, <1>2, <1>3, StepKinds

\* A checkpoint that is published with a step holds exactly the step and the
\* cursors accepted with it, although it is written before the step commits.
THEOREM CheckpointsAreExact == Spec => CheckpointIsExact
<1>1. Init => PayloadInv
  BY DEF Init, PayloadInv, NoTxns, Blank, Seen
<1>2. ASSUME Core, PayloadInv, [Next]_vars
      PROVE  [payload # None /\ pc = "seal" /\ pc' = "loop" =>
                payload = [step |-> temporal'.step, cursors |-> cursors']]_vars
  <2> SUFFICES ASSUME Next, payload # None, pc = "seal", pc' = "loop"
               PROVE  payload = [step |-> temporal'.step, cursors |-> cursors']
    BY <1>2
  <2>1. Publish
    BY <1>2, SealExit
  <2>2. payload = [step |-> engine, cursors |-> Predicted(due)] /\ due \cap Skipping = {}
    BY <1>2 DEF PayloadInv
  <2>3. temporal'.step = engine
    BY <1>2, <2>1 DEF Core, NativeInv, Publish
  <2>4. \A c \in Clocks : c \in due <=> c \in Accepted
    <3>1. due \in SUBSET Clocks /\ \A c \in due : txn[c].state \in {"accepted", "sealed"}
      BY <1>2, OpenFacts DEF Core, TypeOK, TxnInv
    <3> QED BY <1>2, <2>2, <3>1 DEF PayloadInv, Accepted
  <2>5. \A c \in Clocks : cursors[c] \in Nat
    BY <1>2 DEF Core, TypeOK, Counts
  <2>6. cursors' = Predicted(due)
    BY <2>1, <2>4, <2>5 DEF Publish, Return, AcceptedCursors, Predicted
  <2> QED BY <2>2, <2>3, <2>6
<1>3. [](Core /\ PayloadInv) /\ [][Next]_vars => CheckpointIsExact
  BY <1>2, PTL DEF CheckpointIsExact
<1> QED BY <1>1, <1>3, CoreInit, CoreStep, PayloadStep, PTL DEF Spec

\* The cursors that the run has accepted.
Counted == IF pc = "seal" THEN AcceptedCursors ELSE cursors

\* Accepting the samples of the accepted clocks is a publication.
LEMMA AcceptedPublication ==
  ASSUME Core
  PROVE  /\ \A c \in Clocks : cursors[c] \in Nat
         /\ Accepted \in SUBSET Clocks
         /\ AcceptedCursors = [c \in Clocks |-> cursors[c] + (IF c \in Accepted THEN 1 ELSE 0)]
<1>1. \A c \in Clocks : cursors[c] \in Nat
  BY DEF Core, TypeOK, Counts
<1>2. Accepted \in SUBSET Clocks
  BY DEF Core, TypeOK, Accepted
<1> QED BY <1>1, <1>2 DEF AcceptedCursors

\* Outside the transactions nothing is accepted.
LEMMA CalmStutters ==
  ASSUME Core, Calm
  PROVE  Base' = Base /\ Counted' = Counted
<1>1. UNCHANGED cursors /\ pc # "seal" /\ pc' # "seal"
  BY CalmFacts, OpenFacts
<1>2. Counted' = Counted
  BY <1>1 DEF Counted
<1>3. /\ engine \in Int /\ snap \in Nat \cup {None} /\ None \notin Int
      /\ pc = "attempt" => snap = engine
  BY EngineFacts DEF Core, NativeInv
<1> SUFFICES Base' = Base
  BY <1>2
<1> USE DEF control, native, Base, Raise
<1>4. CASE Calls
  BY <1>4 DEF Calls, RunBegin, RetryConsumerFinalizers, RestoreConsumerRecovery,
       CleanupConsumerRecovery
<1>5. CASE RunEnds \/ StepBegin \/ Retry \/ RunFails
  BY <1>5 DEF RunEnds, StepBegin, Retry, RunFails
<1>6. CASE Enter \/ BeginOk \/ BeginFails \/ PlanRefused
  BY <1>3, <1>6 DEF Enter, BeginOk, BeginFails, PlanRefused
<1>7. CASE AttemptOk \/ AttemptRejected \/ AttemptFails \/ AttemptCrossesDeadline
  BY <1>3, <1>7 DEF AttemptOk, AttemptRejected, AttemptFails, AttemptCrossesDeadline
<1>8. CASE Rollback \/ Restore
  BY <1>3, <1>8 DEF Rollback, Restore
<1> QED BY <1>4, <1>5, <1>6, <1>7, <1>8 DEF Calm

\* Every step of the envelope is a step of AcceptedStep or leaves its state
\* alone.
LEMMA StepRefines ==
  ASSUME Core, [Next]_vars
  PROVE  [Abstract!Advance \/ Abstract!Sample]_<<Base, Counted>>
<1>0. /\ engine \in Int /\ snap \in Nat \cup {None} /\ None \notin Int
      /\ \A c \in Clocks : cursors[c] \in Nat
      /\ Accepted \in SUBSET Clocks
      /\ AcceptedCursors = [c \in Clocks |-> cursors[c] + (IF c \in Accepted THEN 1 ELSE 0)]
  BY EngineFacts, AcceptedPublication
<1>1. CASE UNCHANGED vars
  BY <1>1 DEF vars, control, native, books, Base, Counted, AcceptedCursors, Accepted
<1>2. CASE Calm
  BY <1>2, CalmStutters
<1>3. CASE Phase
  <2>1. UNCHANGED <<txn, cursors, engine>> /\ pc # "seal"
    BY <1>3, PhaseFacts DEF Phase, Plan, StageDone, CommitOk, CommitFails, AcceptDone,
         FinalizeOk, FinalizeFails, AbortDone
  <2>2. CASE FinalizeOk
    <3>1. snap # None /\ engine = snap + 1
      BY <2>2 DEF Core, ModeInv, NativeInv, FinalizeOk
    <3>2. snap' = None /\ pc' = "seal" /\ UNCHANGED due
      BY <2>2 DEF FinalizeOk
    <3>3. Base' = Base + 1
      BY <2>1, <3>1, <3>2 DEF Base
    <3>4. Counted' = AcceptedCursors /\ Counted = cursors
      BY <2>1, <3>2 DEF Counted, AcceptedCursors, Accepted
    <3>5. Abstract!Advance
      BY <1>0, <3>3, <3>4 DEF Abstract!Advance, Abstract!PublishSome, Base, Counted
    <3> QED BY <3>5
  <2>3. CASE AcceptDone /\ pc' = "seal"
    <3>1. UNCHANGED <<snap, due>>
      BY <2>3 DEF AcceptDone, native
    <3>2. Base' = Base
      BY <2>1, <3>1 DEF Base
    <3>3. Counted' = AcceptedCursors /\ Counted = cursors
      BY <2>1, <2>3, <3>1 DEF Counted, AcceptedCursors, Accepted
    <3>4. Abstract!Sample
      BY <1>0, <3>2, <3>3 DEF Abstract!Sample, Abstract!PublishSome, Base, Counted
    <3> QED BY <3>4
  <2>4. CASE ~FinalizeOk /\ ~(AcceptDone /\ pc' = "seal")
    <3>1. pc' # "seal" /\ UNCHANGED snap
      BY <1>3, <2>4 DEF Phase, Plan, StageDone, CommitOk, CommitFails, AcceptDone,
           FinalizeFails, AbortDone, native, Raise
    <3> QED BY <2>1, <3>1 DEF Base, Counted
  <2> QED BY <2>2, <2>3, <2>4
<1>4. CASE Publish
  BY <1>4 DEF Publish, Return, native, Base, Counted
<1>5. ASSUME NEW c \in Clocks, Construct(c) \/ Accept(c) \/ Seal(c) \/ Abort(c)
      PROVE  Base' = Base /\ Counted' = Counted
  <2>1. UNCHANGED <<engine, snap, cursors, due>> /\ (pc' = "seal" <=> pc = "seal")
    BY <1>5, ConsumerFrame DEF native
  <2>2. CASE pc # "seal"
    BY <2>1, <2>2 DEF Base, Counted
  <2>3. CASE pc = "seal"
    <3>1. Seal(c)
      BY <1>5, <2>3 DEF Construct, Accept, Abort
    <3>2. PICK t \in SealOutcomes(txn[c]) : txn' = [txn EXCEPT ![c] = t]
      BY <3>1 DEF Seal
    <3>3. txn \in [Clocks -> Txn] /\ due \in SUBSET Clocks
      BY DEF Core, TypeOK
    <3>4. t.public = txn[c].public
      BY <3>3, SealFacts
    <3>5. Accepted' = Accepted
      BY <2>1, <3>2, <3>3, <3>4 DEF Accepted
    <3> QED BY <2>1, <3>5 DEF Base, Counted, AcceptedCursors
  <2> QED BY <2>2, <2>3
<1> QED BY <1>1, <1>2, <1>3, <1>4, <1>5, StepKinds

\* Seen from outside, a run accepts a step and its due samples together: every
\* behaviour of the envelope, with all its retries, compensations and rollbacks,
\* is a behaviour of AcceptedStep.
THEOREM RunImplementsAcceptedStep == Spec => StepImplementsAcceptedStep
<1>1. Init => Abstract!Init
  BY DEF Init, Abstract!Init
<1>2. Core /\ [Next]_vars => [Abstract!Advance \/ Abstract!Sample]_<<Base, Counted>>
  BY StepRefines
<1>3. StepImplementsAcceptedStep <=>
        Abstract!Init /\ [][Abstract!Advance \/ Abstract!Sample]_<<Base, Counted>>
  BY DEF StepImplementsAcceptedStep, Abstract!Spec, Base, Counted
<1> QED BY <1>1, <1>2, <1>3, CoreInit, CoreStep, PTL DEF Spec
=============================================================================
