-------------------------- MODULE RuntimeInstance ---------------------------
(***************************************************************************)
(* RuntimeInstance._run and the envelope of one accepted step              *)
(* (python/pops/runtime/_runtime_instance.py): native step transaction,    *)
(* Python snapshot, consumer transactions of every clock, retry of         *)
(* rejected attempts, recovery and finalizer registries.                   *)
(*                                                                         *)
(* A consumer transaction is one record of PublicationOutcomes: each call  *)
(* of its methods picks one of the outcomes that ConsumerTransaction was   *)
(* shown to implement.  The native engine is its macro step; an attempt    *)
(* that does not succeed may leave it Torn.                                *)
(***************************************************************************)
EXTENDS Integers, Sequences, FiniteSets, PublicationOutcomes

CONSTANTS NumClocks,      \* clocks with consumers, in the order of _moments
          MaxRuns,        \* bound: calls of _run
          MaxSteps,       \* max_steps of each call
          RetryBudget,    \* retry_budget of the step controller
          Skipping,       \* clocks with an effect whose failure action is Skip
          MaxQuarantines, \* bound: concurrent replacements met by a cleanup
          None            \* Python's None, a null unique_ptr

ASSUME ConstantsAssumption ==
  /\ {NumClocks, MaxRuns, MaxSteps, RetryBudget, MaxQuarantines} \subseteq Nat
  /\ Skipping \subseteq 1 .. NumClocks
  /\ None \notin Int /\ None \notin {"rejected", "failed"}

Clocks == 1 .. NumClocks
Torn == -1  \* an engine state that is no accepted macro step

VARIABLES
  pc, mode,     \* next statement; mode is "fire" in _fire_consumers
  error,        \* class of the exception in flight
  runs, steps,  \* calls of _run so far; accepted steps of this one
  tries,        \* _PreparedStepAttempts.attempts
  entry,        \* _run's entry_temporal
  begun,        \* begin_entered
  engine,       \* native macro step
  snap,         \* external_step_transaction_ or None
  committed,    \* external_step_transaction_committed_
  temporal,     \* _temporal_restart_state: clock and statistics
  attempt,      \* _attempt
  env,          \* _step_envelope_snapshot
  due,          \* clocks with a transaction in the running call
  txn,          \* local `transactions`, "none" where there is none
  authority,    \* the recoveries that each of them holds
  payload,      \* contents of the staged checkpoint or None
  cursors,      \* _consumer_cursors: samples published per clock
  reports,      \* _consumer_reports
  finalizers,   \* report indices in _consumer_finalize_pending
  owners,       \* <<report index, recovery>> of the transactions in that list
  registry,     \* _consumer_recoveries: the retained and the restored ones
  artifacts,    \* world: public samples of each clock
  stray,        \* world: of those, the ones a raised report named unremoved
  holding,      \* world: reports whose transaction holds unreleased resources
  quarantines,  \* world: inodes in quarantine directories
  races,        \* concurrent replacements so far, each the name of its inode
  orphans       \* history: recoveries of a transaction whose constructor failed

control == <<pc, mode, error, runs, steps, tries, entry, begun>>
native == <<engine, snap, committed>>
books == <<cursors, reports, finalizers, owners, registry>>
world == <<artifacts, stray, holding, quarantines, races, orphans>>
vars == <<control, native, temporal, attempt, env, due, txn, authority, payload, books,
          world>>

NoTxns == [c \in Clocks |-> Blank("none")]
NoAuthorities == [c \in Clocks |-> {}]
Bump(f, c, b) == [f EXCEPT ![c] = @ + (IF b THEN 1 ELSE 0)]

\* The clocks of `due` whose transaction is in one of the states S.
In(S) == {c \in due : txn[c].state \in S}
IsFirst(c, S) == c \in S /\ \A d \in S : c <= d
IsLast(c, S) == c \in S /\ \A d \in S : d <= c

\* The inode that a cleanup took into quarantine because the path had been
\* replaced: t is the transaction before, u the one after.
Fresh(t, u) == IF u.recovered /\ ~t.recovered THEN {races + 1} ELSE {}
Quarantine(t, u) ==
  /\ Fresh(t, u) # {} => races < MaxQuarantines
  /\ quarantines' = quarantines \cup Fresh(t, u)
  /\ races' = races + Cardinality(Fresh(t, u))

\* _retain_consumer_recoveries: what the registry has already stays as it is.
Registered(R) == [registry EXCEPT !.retained = @ \cup (R \ registry.restored)]

Init ==
  /\ pc = "idle" /\ mode = "fire" /\ error = None
  /\ runs = 0 /\ steps = 0 /\ tries = 0 /\ begun = FALSE
  /\ engine = 0 /\ snap = None /\ committed = FALSE
  /\ temporal = [step |-> 0, rejected |-> 0, failed |-> 0]
  /\ entry = temporal
  /\ attempt = 0 /\ due = {} /\ txn = NoTxns /\ authority = NoAuthorities
  /\ payload = None
  /\ cursors = [c \in Clocks |-> 0] /\ reports = <<>> /\ finalizers = {} /\ owners = {}
  /\ env = [temporal |-> temporal, attempt |-> 0, cursors |-> cursors, reports |-> <<>>]
  /\ registry = [retained |-> {}, restored |-> {}]
  /\ artifacts = [c \in Clocks |-> 0] /\ stray = [c \in Clocks |-> 0]
  /\ holding = {} /\ quarantines = {} /\ races = 0 /\ orphans = {}

\* The exception handler of the step, or of _stage_consumers and
\* _fire_consumers, is entered with a failure of class e.
Raise(e) == pc' = "abort" /\ error' = e

\* _retry_consumer_finalizers: seal() again for every pending owner, and its
\* recoveries are registered again, also one that the operator has restored and
\* cleaned up meanwhile.  Owners whose release succeeds are forgotten.
RetryFinalizers(pending, held, owned) ==
  \E released \in SUBSET pending :
    /\ finalizers' = pending \ released /\ holding' = held \ released
    /\ owners' = {o \in owned : o[1] \notin released}
    /\ registry' = Registered({o[2] : o \in owned})
-----------------------------------------------------------------------------
(***************************************************************************)
(* The run loop                                                            *)
(***************************************************************************)

\* _run up to and including the start of _fire_consumers(at_start=True).
RunBegin ==
  /\ pc = "idle" /\ runs < MaxRuns
  /\ runs' = runs + 1 /\ steps' = 0 /\ entry' = temporal
  /\ pc' = "plan" /\ mode' = "fire" /\ error' = None
  /\ RetryFinalizers(finalizers, holding, owners)
  /\ UNCHANGED <<tries, begun, native, temporal, attempt, env, due, txn, authority,
                 payload, cursors, reports, artifacts, stray, quarantines, races,
                 orphans>>

\* _accepted_controller_step: a new attempt sequence.
StepBegin ==
  /\ pc = "loop" /\ steps < MaxSteps
  /\ pc' = "enter" /\ mode' = "step" /\ tries' = 0 /\ error' = None
  /\ UNCHANGED <<runs, steps, entry, begun, native, temporal, attempt, env, due,
                 txn, authority, payload, books, world>>

\* t_end is reached.
RunEnds ==
  /\ pc = "loop"
  /\ pc' = "idle"
  /\ UNCHANGED <<mode, error, runs, steps, tries, entry, begun, native, temporal,
                 attempt, env, due, txn, authority, payload, books, world>>

\* _PreparedStepAttempts.retry lets the loop continue.
MayRetry == error = "rejected" /\ tries <= RetryBudget

Retry ==
  /\ pc = "raise" /\ MayRetry
  /\ pc' = "enter" /\ error' = None
  /\ UNCHANGED <<mode, runs, steps, tries, entry, begun, native, temporal,
                 attempt, env, due, txn, authority, payload, books, world>>

\* The handler of _run.  A rejected attempt gets here when its category is
\* terminal, the budget is exhausted or no smaller proposal is permitted.
RunFails ==
  /\ pc = "raise" /\ error # None
  /\ pc' = "idle"
  /\ temporal' = IF steps = 0 THEN entry ELSE temporal
  /\ UNCHANGED <<mode, error, runs, steps, tries, entry, begun, native, attempt,
                 env, due, txn, authority, payload, books, world>>
-----------------------------------------------------------------------------
(***************************************************************************)
(* _accepted_step_transaction_body: begin and advance                      *)
(***************************************************************************)

Enter ==
  /\ pc = "enter"
  /\ RetryFinalizers(finalizers, holding, owners)
  /\ env' = [temporal |-> temporal, attempt |-> attempt, cursors |-> cursors,
             reports |-> reports]
  /\ begun' = FALSE
  /\ pc' = "begin"
  /\ UNCHANGED <<mode, error, runs, steps, tries, entry, native, temporal,
                 attempt, due, txn, authority, payload, cursors, reports,
                 artifacts, stray, quarantines, races, orphans>>

BeginOk ==
  /\ pc = "begin" /\ snap = None
  /\ begun' = TRUE /\ snap' = engine /\ committed' = FALSE
  /\ pc' = "attempt"
  /\ UNCHANGED <<mode, error, runs, steps, tries, entry, engine, temporal,
                 attempt, env, due, txn, authority, payload, books, world>>

\* require_live_transaction_plan refuses before begin is entered, or the
\* snapshot cannot be prepared after it was.
BeginFails ==
  /\ pc = "begin"
  /\ begun' \in BOOLEAN
  /\ Raise("failed")
  /\ UNCHANGED <<mode, runs, steps, tries, entry, native, temporal, attempt,
                 env, due, txn, authority, payload, books, world>>

\* run_prepared_attempt with _native_attempt; temporal.before_attempt refuses
\* a clock that is not the live one.
AttemptOk ==
  /\ pc = "attempt" /\ engine = temporal.step
  /\ tries' = tries + 1
  /\ engine' = engine + 1
  /\ temporal' = [temporal EXCEPT !.step = engine + 1]
  /\ attempt' = attempt + tries'
  /\ pc' = "plan"
  /\ UNCHANGED <<mode, error, runs, steps, entry, begun, snap, committed, env,
                 due, txn, authority, payload, books, world>>

AttemptRejected ==
  /\ pc = "attempt" /\ engine = temporal.step
  /\ tries' = tries + 1
  /\ engine' \in {engine, Torn}
  /\ temporal' = [temporal EXCEPT !.rejected = @ + 1]
  /\ Raise("rejected")
  /\ UNCHANGED <<mode, runs, steps, entry, begun, snap, committed, attempt, env,
                 due, txn, authority, payload, books, world>>

AttemptFails ==
  /\ pc = "attempt"
  /\ tries' = tries + 1
  /\ IF engine = temporal.step
       THEN /\ engine' \in {engine, Torn}
            /\ temporal' = [temporal EXCEPT !.failed = @ + 1]
       ELSE UNCHANGED <<engine, temporal>>
  /\ Raise("failed")
  /\ UNCHANGED <<mode, runs, steps, entry, begun, snap, committed, attempt, env,
                 due, txn, authority, payload, books, world>>

\* The attempt succeeded, but beyond the every_dt deadline.
AttemptCrossesDeadline ==
  /\ pc = "attempt" /\ engine = temporal.step
  /\ tries' = tries + 1
  /\ engine' = engine + 1
  /\ temporal' = [temporal EXCEPT !.step = engine + 1]
  /\ Raise("failed")
  /\ UNCHANGED <<mode, runs, steps, entry, begun, snap, committed, attempt, env,
                 due, txn, authority, payload, books, world>>
-----------------------------------------------------------------------------
(***************************************************************************)
(* _stage_consumers and _accept_consumers                                  *)
(***************************************************************************)

\* The cursors a checkpoint must contain: every due effect advances.
Predicted(D) == [c \in Clocks |-> cursors[c] + (IF c \in D THEN 1 ELSE 0)]

\* A due checkpoint is refused when another effect may skip its sample.
PredictableWith_Fault(D) == TRUE
PredictableWith(D) == D \cap Skipping = {}

\* The EffectPlans of the clocks; one of them may hold a checkpoint.
Plan ==
  /\ pc = "plan"
  /\ \E D \in SUBSET Clocks, checkpoint \in BOOLEAN :
       /\ checkpoint => D # {} /\ PredictableWith(D)
       /\ due' = D
       /\ payload' = IF checkpoint
                       THEN [step |-> engine, cursors |-> Predicted(D)]
                       ELSE None
  /\ pc' = "stage"
  /\ UNCHANGED <<mode, error, runs, steps, tries, entry, begun, native, temporal,
                 attempt, env, txn, authority, books, world>>

PlanRefused ==
  /\ pc = "plan"
  /\ Raise("failed")
  /\ UNCHANGED <<mode, runs, steps, tries, entry, begun, native, temporal,
                 attempt, env, due, txn, authority, payload, books, world>>

\* One ConsumerTransaction is constructed.  If that fails, `staged` does not
\* contain it, so that the abort that follows does not see it.  The recovery of
\* a preparation that failed was handed to the registry by the callback
\* _retain_output_recoveries; that of a preparation the constructor discarded
\* is held by the transaction, which is lost.
Construct(c) ==
  /\ pc = "stage" /\ IsFirst(c, In({"none"}))
  /\ \E t \in ConstructOutcomes(Blank("preparing")) :
       /\ Quarantine(Blank("preparing"), t)
       /\ IF t.state = "staged"
            THEN /\ txn' = [txn EXCEPT ![c] = t]
                 /\ UNCHANGED <<pc, error, registry, orphans>>
            ELSE /\ Raise("failed") /\ UNCHANGED txn
                 /\ \/ /\ registry' = Registered(Fresh(Blank("preparing"), t))
                       /\ UNCHANGED orphans
                    \/ /\ orphans' = orphans \cup Fresh(Blank("preparing"), t)
                       /\ UNCHANGED registry
  /\ UNCHANGED <<mode, runs, steps, tries, entry, begun, native, temporal,
                 attempt, env, due, authority, payload, cursors, reports,
                 finalizers, owners, artifacts, stray, holding>>

StageDone ==
  /\ pc = "stage" /\ In({"none"}) = {}
  /\ pc' = IF mode = "step" THEN "commit" ELSE "accept"
  /\ UNCHANGED <<mode, error, runs, steps, tries, entry, begun, native, temporal,
                 attempt, env, due, txn, authority, payload, books, world>>

CommitOk ==
  /\ pc = "commit" /\ snap # None
  /\ committed' = TRUE /\ pc' = "accept"
  /\ UNCHANGED <<mode, error, runs, steps, tries, entry, begun, engine, snap,
                 temporal, attempt, env, due, txn, authority, payload, books, world>>

CommitFails ==
  /\ pc = "commit"
  /\ Raise("failed")
  /\ UNCHANGED <<mode, runs, steps, tries, entry, begun, native, temporal,
                 attempt, env, due, txn, authority, payload, books, world>>

\* Only a plan that may skip can be accepted with nothing published.
Accept(c) ==
  /\ pc = "accept" /\ IsFirst(c, In({"staged"}))
  /\ \E t \in AcceptOutcomes(txn[c]) :
       /\ t.state = "accepted" /\ c \notin Skipping => t.public
       /\ Quarantine(txn[c], t)
       /\ txn' = [txn EXCEPT ![c] = t]
       /\ authority' = [authority EXCEPT ![c] = @ \cup Fresh(txn[c], t)]
       /\ artifacts' = Bump(artifacts, c, t.public)
       /\ stray' = Bump(stray, c, t.state = "failed" /\ t.public)
       /\ IF t.state = "accepted" THEN UNCHANGED <<pc, error>> ELSE Raise("failed")
  /\ UNCHANGED <<mode, runs, steps, tries, entry, begun, native, temporal,
                 attempt, env, due, payload, books, holding, orphans>>

AcceptDone ==
  /\ pc = "accept" /\ In({"staged"}) = {}
  /\ pc' = IF mode = "step" THEN "finalize" ELSE "seal"
  /\ UNCHANGED <<mode, error, runs, steps, tries, entry, begun, native, temporal,
                 attempt, env, due, txn, authority, payload, books, world>>
-----------------------------------------------------------------------------
(***************************************************************************)
(* The irrevocable part: native finalization, seals, books                 *)
(***************************************************************************)

FinalizeOk ==
  /\ pc = "finalize" /\ committed
  /\ snap' = None /\ committed' = FALSE
  /\ pc' = "seal"
  /\ UNCHANGED <<mode, error, runs, steps, tries, entry, begun, engine, temporal,
                 attempt, env, due, txn, authority, payload, books, world>>

FinalizeFails ==
  /\ pc = "finalize"
  /\ Raise("failed")
  /\ UNCHANGED <<mode, runs, steps, tries, entry, begun, native, temporal,
                 attempt, env, due, txn, authority, payload, books, world>>

Seal(c) ==
  /\ pc = "seal" /\ IsFirst(c, In({"accepted"}))
  /\ \E t \in SealOutcomes(txn[c]) : txn' = [txn EXCEPT ![c] = t]
  /\ registry' = Registered(authority[c])
  /\ UNCHANGED <<control, native, temporal, attempt, env, due, authority, payload,
                 cursors, reports, finalizers, owners, world>>

\* The index that the report of clock c gets in _consumer_reports.
ReportIndex(c) == Len(reports) + Cardinality({d \in due : d <= c})
Accepted == {c \in due : txn[c].public}

\* The local `cursors` of _accept_consumers: every published effect advances.
AcceptedCursors == [c \in Clocks |-> IF c \in Accepted THEN cursors[c] + 1 ELSE cursors[c]]

AcceptedReports ==
  reports \o [i \in 1 .. Cardinality(due) |->
    LET c == CHOOSE d \in due : ReportIndex(d) = Len(reports) + i
    IN [clock |-> c, public |-> txn[c].public]]

Unreleased == {ReportIndex(c) : c \in {d \in due : txn[d].unreleased}}

\* The recoveries that the transactions of these reports hold.
UnreleasedOwners ==
  UNION {{<<ReportIndex(c), q>> : q \in authority[c]} : c \in {d \in due : txn[d].unreleased}}

\* What a step or a fire leaves for the run loop when it returns.
Return ==
  /\ pc' = "loop" /\ steps' = IF mode = "step" THEN steps + 1 ELSE steps
  /\ txn' = NoTxns /\ authority' = NoAuthorities /\ due' = {} /\ payload' = None
  /\ cursors' = AcceptedCursors /\ reports' = AcceptedReports

\* _seal_consumer_reports returns; cursors and reports become visible and the
\* finalizers are tried once more.
Publish_Fault ==
  /\ pc = "seal" /\ In({"accepted"}) = {}
  /\ Return
  /\ holding' = holding \cup Unreleased /\ UNCHANGED <<finalizers, owners>>
  /\ UNCHANGED <<mode, error, runs, tries, entry, begun, native, temporal,
                 attempt, env, registry, artifacts, stray, quarantines, races, orphans>>

Publish ==
  /\ pc = "seal" /\ In({"accepted"}) = {}
  /\ Return
  /\ RetryFinalizers(finalizers \cup Unreleased, holding \cup Unreleased,
                     owners \cup UnreleasedOwners)
  /\ UNCHANGED <<mode, error, runs, tries, entry, begun, native, temporal,
                 attempt, env, artifacts, stray, quarantines, races, orphans>>

-----------------------------------------------------------------------------
(***************************************************************************)
(* The exception handler: compensate, roll back, restore                   *)
(***************************************************************************)

\* _abort_consumers takes the last transaction first.  An artifact that its
\* report names as unremoved stays public.
Abort(c) ==
  /\ pc = "abort"
  /\ IsLast(c, In({"staged", "accepted", "rejected", "failed"}))
  /\ \E t \in AbortOutcomes(txn[c]) :
       /\ Quarantine(txn[c], t)
       /\ artifacts' = [artifacts EXCEPT ![c] =
                          @ - (IF txn[c].public /\ ~t.public THEN 1 ELSE 0)]
       /\ stray' = Bump(stray, c, txn[c].state = "accepted" /\ t.public)
       /\ registry' = Registered(authority[c] \cup Fresh(txn[c], t))
  /\ txn' = [txn EXCEPT ![c] = Blank("none")]
  /\ authority' = [authority EXCEPT ![c] = {}]
  /\ UNCHANGED <<control, native, temporal, attempt, env, due, payload, cursors,
                 reports, finalizers, owners, holding, orphans>>

AbortDone ==
  /\ pc = "abort" /\ In({"staged", "accepted", "rejected", "failed"}) = {}
  /\ pc' = IF mode = "step" THEN "rollback" ELSE "raise"
  /\ due' = {} /\ payload' = None
  /\ UNCHANGED <<mode, error, runs, steps, tries, entry, begun, native, temporal,
                 attempt, env, txn, authority, books, world>>

\* The native rollback is called once begin was entered; without an open
\* transaction it raises, which the handler only notes.
Rollback_Fault ==
  /\ pc = "rollback"
  /\ IF committed
       THEN engine' = snap /\ snap' = None /\ committed' = FALSE
       ELSE snap' = None /\ UNCHANGED <<engine, committed>>
  /\ pc' = "restore"
  /\ UNCHANGED <<mode, error, runs, steps, tries, entry, begun, temporal,
                 attempt, env, due, txn, authority, payload, books, world>>

Rollback ==
  /\ pc = "rollback"
  /\ IF begun /\ snap # None
       THEN engine' = snap /\ snap' = None /\ committed' = FALSE
       ELSE UNCHANGED native
  /\ pc' = "restore"
  /\ UNCHANGED <<mode, error, runs, steps, tries, entry, begun, temporal,
                 attempt, env, due, txn, authority, payload, books, world>>

\* _restore_step_envelope, then _restore_unsuccessful_attempt_stats carries
\* the statistics of the failed attempt over.
RestoredTemporal ==
  LET carried(s) == env.temporal[s] + (temporal[s] - env.temporal[s])
  IN [step |-> env.temporal.step, rejected |-> carried("rejected"),
      failed |-> carried("failed")]

Restore_Fault ==
  /\ pc = "restore"
  /\ attempt' = env.attempt /\ cursors' = env.cursors /\ reports' = env.reports
  /\ pc' = "raise"
  /\ UNCHANGED <<mode, error, runs, steps, tries, entry, begun, native, temporal,
                 env, due, txn, authority, payload, finalizers, owners, registry,
                 world>>

Restore ==
  /\ pc = "restore"
  /\ temporal' = RestoredTemporal
  /\ attempt' = env.attempt /\ cursors' = env.cursors /\ reports' = env.reports
  /\ pc' = "raise"
  /\ UNCHANGED <<mode, error, runs, steps, tries, entry, begun, native, env, due,
                 txn, authority, payload, finalizers, owners, registry,
                 world>>
-----------------------------------------------------------------------------
(***************************************************************************)
(* Operator calls between two runs                                         *)
(***************************************************************************)

RetryConsumerFinalizers ==
  /\ pc = "idle" /\ finalizers # {}
  /\ RetryFinalizers(finalizers, holding, owners)
  /\ UNCHANGED <<control, native, temporal, attempt, env, due, txn, authority, payload,
                 cursors, reports, artifacts, stray, quarantines, races, orphans>>

\* authority.restore() raises when the inode is no longer in quarantine.
RestoreConsumerRecovery ==
  /\ pc = "idle"
  /\ \E q \in registry.retained \cap quarantines :
       registry' = [retained |-> registry.retained \ {q},
                    restored |-> registry.restored \cup {q}]
  /\ UNCHANGED <<control, native, temporal, attempt, env, due, txn, authority, payload,
                 cursors, reports, finalizers, owners, world>>

CleanupConsumerRecovery ==
  /\ pc = "idle"
  /\ \E q \in registry.restored :
       /\ registry' = [registry EXCEPT !.restored = @ \ {q}]
       /\ quarantines' = quarantines \ {q}
  /\ UNCHANGED <<control, native, temporal, attempt, env, due, txn, authority, payload,
                 cursors, reports, finalizers, owners, artifacts, stray, holding,
                 races, orphans>>

\* Steps of a running _run.
Running ==
  \/ RunEnds \/ StepBegin \/ Retry \/ RunFails
  \/ Enter \/ BeginOk \/ BeginFails
  \/ AttemptOk \/ AttemptRejected \/ AttemptFails \/ AttemptCrossesDeadline
  \/ Plan \/ PlanRefused \/ StageDone \/ CommitOk \/ CommitFails \/ AcceptDone
  \/ FinalizeOk \/ FinalizeFails \/ Publish
  \/ AbortDone \/ Rollback \/ Restore
  \/ \E c \in Clocks : Construct(c) \/ Accept(c) \/ Seal(c) \/ Abort(c)

Calls ==
  \/ RunBegin
  \/ RetryConsumerFinalizers \/ RestoreConsumerRecovery \/ CleanupConsumerRecovery

Next == Running \/ Calls

Spec == Init /\ [][Next]_vars

-----------------------------------------------------------------------------
(***************************************************************************)
(* Properties                                                              *)
(***************************************************************************)
Resting == pc \in {"idle", "loop"}

Temporal == [step : Nat, rejected : Nat, failed : Nat]
Counts == [Clocks -> Nat]
Report == [clock : Clocks, public : BOOLEAN]

\* Every store keeps the shape the code gives it; a snapshot is an accepted
\* macro step and the open transaction is committed at most once.
TypeOK ==
  /\ pc \in {"idle", "loop", "enter", "begin", "attempt", "plan", "stage",
             "commit", "accept", "finalize", "seal", "abort", "rollback",
             "restore", "raise"}
  /\ mode \in {"fire", "step"} /\ error \in {None, "rejected", "failed"}
  /\ runs \in 0 .. MaxRuns /\ steps \in 0 .. MaxSteps
  /\ tries \in 0 .. RetryBudget + 1 /\ attempt \in Nat /\ begun \in BOOLEAN
  /\ engine \in Nat \cup {Torn} /\ snap \in Nat \cup {None}
  /\ committed \in BOOLEAN /\ (committed => snap # None)
  /\ temporal \in Temporal /\ entry \in Temporal
  /\ env \in [temporal : Temporal, attempt : Nat, cursors : Counts, reports : Seq(Report)]
  /\ due \in SUBSET Clocks /\ txn \in [Clocks -> Txn]
  /\ authority \in [Clocks -> SUBSET Nat]
  /\ payload \in [step : Nat, cursors : Counts] \cup {None}
  /\ cursors \in Counts /\ reports \in Seq(Report)
  /\ finalizers \subseteq 1 .. Len(reports)
  /\ owners \subseteq finalizers \X Nat
  /\ registry \in [retained : SUBSET Nat, restored : SUBSET Nat]
  /\ artifacts \in Counts /\ stray \in Counts
  /\ holding \subseteq 1 .. Len(reports) /\ quarantines \subseteq Nat
  /\ races \in 0 .. MaxQuarantines /\ orphans \subseteq Nat

\* Between two steps nothing is half done: no transaction is open, the engine
\* stands on the macro step that the temporal authority records, the cursors
\* count exactly the reports of published samples, and the public artifacts
\* are those samples plus what an error report named as not removable.
StepIsAtomic ==
  Resting =>
    /\ snap = None /\ txn = NoTxns
    /\ engine = temporal.step
    /\ \A c \in Clocks :
         /\ cursors[c] = Cardinality({i \in DOMAIN reports :
                                        reports[i] = [clock |-> c, public |-> TRUE]})
         /\ artifacts[c] = cursors[c] + stray[c]

\* No owner is lost on any path through a step, its compensation or its retry:
\* every transaction that still holds release resources is retained as a
\* pending finalizer, and every inode in a quarantine has its typed recovery
\* authority in the registry, unless the constructor that put it there failed.
\* (The converse does not hold: a retried finalizer registers its recovery
\* again after the operator has restored it and cleaned it up.)
OwnersRetained ==
  Resting => /\ holding \subseteq finalizers
             /\ quarantines \ orphans \subseteq registry.retained \cup registry.restored

\* A checkpoint published with a step holds that step and the cursors that
\* are accepted with it, although it was written before they were.
CheckpointIsExact ==
  [][payload # None /\ pc = "seal" /\ pc' = "loop" =>
       payload = [step |-> temporal'.step, cursors |-> cursors']]_vars

\* A step becomes accepted when the native transaction is finalized; the
\* cursors that were accepted with it follow before control returns.
Abstract == INSTANCE AcceptedStep WITH
  step <- IF snap = None THEN engine ELSE snap,
  published <- IF pc = "seal" THEN AcceptedCursors ELSE cursors

\* Seen from outside, a step and its due samples are accepted together.
StepImplementsAcceptedStep == Abstract!Spec
=============================================================================
