# Verification of the PoPS accepted-step runtime

PoPS is a finite-volume solver: Python describes physics and a time program,
generated C++/Kokkos code executes it. What makes a run of it correct is less the
numerics than the protocol around them. A step is attempted, perhaps rejected
and retried; outputs, checkpoints and observers ("consumers") are staged while
the step is still provisional; then the native state, the clock, the consumer
cursors and the published files have to change together or not at all, although
every call may fail, other processes touch the output directory, and a
cancellation may arrive anywhere. This directory models that protocol in TLA+,
checks it with TLC on small instances and proves part of it with TLAPS for
instances of any size.

Paths below are relative to the repository; `pops/` stands for `python/pops/`.

## 1. Inventory of the system

| Component | State | Operations | Interacts with | What makes it correct |
|---|---|---|---|---|
| Consumer transaction, `pops/runtime/_consumer_transaction.py` | `_state`, `_prepared`, `_accepted`, `_finalize_pending`, `_skipped`, `_cursor_updates`, `_recoveries` | constructor (prepares all), `accept`, `reject`, `abort`, `rollback_accepted`, `seal` | calls the publisher; called by `RuntimeInstance` | publishes all or compensates in reverse order; failure actions exact; retries end; sealed is final |
| Accepted-step envelope, `pops/runtime/_runtime_instance.py`, `src/runtime/system/system.cpp` | cursors, reports, pending finalizers, recovery registry, attempt count, native snapshot, temporal state | `_run`, one accepted step, start-of-run consumers, operator recovery calls | native engine, controller, consumer transactions | step, cursors, reports and artifacts move together; nothing accepted is withdrawn; owners of releases and recoveries are never lost |
| Step controllers, `pops/runtime/_step_strategy.py` | next dt, retry cursor, proposal | prepare, attempt, retry, accept, restore | temporal state, engine | bounded retries; the attempt uses the queued proposal |
| Temporal restart state, `pops/runtime/_temporal_restart.py` | accepted clock, event queue, last dt, statistics | begin run, queue, accept, reject, checkpoint, restore | controller, checkpoint | a checkpoint of an accepted step is valid and replays the next decision |
| Staged output file, `pops/output/_writers/common.py` | temporary, target, owner inodes, recoveries, descriptor | publish, discard, rollback, finalize, quarantine, recover | file system shared with other processes | never destroys a foreign file; never leaves its own one silently |
| Collective publisher and writers, `pops/runtime/_output_publisher.py`, `pops/output/_writers/*.py` | writer session per rank, series catalogue | prepare, publish, discard, rollback, finalize | MPI, staged files | all ranks take the same decision; the catalogue lists the accepted samples |
| Durable journal, `pops/output/_durable_journal.py` | prepared, pending and delivered directories | prepare, commit, delivered, discard, recover | observers | a committed frame survives a crash, an uncommitted one does not |
| Observer worker and queue, `pops/runtime/_observer_runtime.py` | FIFO, gates, close and poison flags | submit, call, close, seal | threads, journal | every accepted task runs or is reported; close returns |
| Observer lifecycle, `pops/runtime/_runtime_consumers.py` | lanes, sessions, queues and phases of a run | begin, submit, flush, close, seal after a lost WORLD | worker threads, MPI | ranks stay in the same collectives; cleanup happens once; nothing is left running |
| Checkpoint and restart, `pops/output/_checkpoint_collective.py`, `_restart_provider.py` | staged archive, restored authorities | capture, write, inspect, restore | MPI, native restart transaction | a restore happens in every part on every rank or in none |
| Multi-layout executor, `pops/runtime/_multi_layout_executor.py` | one engine per layout, transfer sessions, mapping schedule | construct, begin, step, reject, commit, finalize, rollback on all | native engines, mappings | layouts advance together; a mapping transfers its source at the declared point; waiting Programs are never given up wrongly |
| Native step transaction and rejection, `include/pops/runtime/program/step_transaction.hpp`, `collective_step_rejection.hpp`, `pops/runtime/_step_strategy.py` | open transaction per rank, outcome of the attempt | control votes, rejection phase, evaluation status, attempt verdict, retry | MPI lane and WORLD | ranks wait in the same collective and decide alike; a retry starts from a restored state |
| Native program state, `include/pops/runtime/program/*.hpp` | clocks, caches, histories, partitions | schedule, stage, accept, reject | kernels | provisional caches never leak into accepted state |
| Parallel substrate, `include/pops/parallel/*.hpp` | lanes, communicators | collectives, consensus | MPI | same order of collectives on every rank |
| AMR, `include/pops/amr/**` | hierarchy, flux ledger | tag, regrid, reflux | engine | ledger balanced |
| Artifact cache, `pops/codegen/cache.py` | binary and sidecar per key | lock, compile, publish | other processes | binary and identity agree |
| Authoring language, code generation, kernels, solvers | – | – | – | out of scope, see section 8 |

The hard behaviours are: partial failure of a sequence of calls and of its
compensation; asynchronous exceptions (`BaseException`) between two statements;
retries that must neither repeat nor forget work; races with other processes on
directory entries; values predicted or recomputed and later compared bit by bit;
and, for MPI runs, ranks that see different outcomes. Each is listed at its line
under `hazards` in `PROJECT.json`, together with the properties that cover it.

## 2. Plan

Modules are written bottom-up along the path that every accepted step takes.

1. `ConsumerTransaction`, with its contract `PublicationOutcomes` /
   `PublicationContract`, and proofs. *Done.*
2. `RuntimeInstance`, written against that contract, and its abstract
   specification `AcceptedStep`. *Done; checkpoint payload and restore open.*
3. `StepController`: error-controlled stepping, event queue, checkpoint
   validation. *Done for `ErrorControlledDt`; `FixedDt` (integer grid,
   landing on the end time), `AdaptiveCFL` and `ExternalTimeGrid` open.*
4. `StagedOutput`: files, quarantine and recovery. *Done for one file on rank
   zero.*
5. `DurableJournal`, its contract `JournalContract`, and `ObserverDelivery`
   which composes it with the queue and the two threads of a process. *Done.*
6. `CollectiveOutput`: the publisher, the writer sessions and the series
   catalogue on N ranks. *Done.*
7. `RestartTransaction`: restoring a checkpoint over several layouts and ranks.
   *Done.*
8. `ObserverLifecycle`: opening, stepping, closing and losing a collective
   observer on N ranks with two threads each. *Done.*
9. `MultiLayoutStep`: one accepted step over several layouts, the passes over
   Program maps and the transfer sessions. *Done for Uniform layouts.*
10. `CollectiveStep`: one attempt on N ranks, from the native votes to the verdict
   and the retry. *Done; nested transactions open.*
11. Capturing and writing checkpoints (`root_attempt`, `root_effect`). *Open.*
12. Cache manager and schedules, flux ledger, artifact cache. *Open.*

Theorems (section 6): the safety properties and refinements of
`ConsumerTransaction`, `RuntimeInstance`, `StagedOutput` and `CollectiveStep`,
`RestoreIsAtomic` of `RestartTransaction`, the collectives, the files and the
catalogue of `CollectiveOutput`, the safety properties and the refinement of
`ObserverDelivery`, the safety properties of `MultiLayoutStep`. *Done.* Open: the
collectives of `ObserverLifecycle`.

## 3. Modules

Definitions ending in `_Fault` are plausible slips used to show that a property
can fail; they are not part of any specification. In all modules `pc` is the
next statement of the code that can fail or be interleaved, `None` is Python's
`None`, and variables marked *world* are ghost state: what is really on disk, as
opposed to what the objects believe.

### ConsumerTransaction

One transaction over an `EffectPlan` with `NumEffects` effects. An effect is its
position in the plan; the lists of the code are always in plan order and are
therefore sets whose first (or, for `reversed(...)`, last) element is taken.
Each call into a `PreparedPublication` is one action that succeeds or fails:
`PrepareOk/Fails`, `PublishOk/Fails`, `UndoOk/Fails` (the rollback of the
publication that failed), `DiscardOk/Fails`, `RollbackOk/Fails`,
`FinalizeOk/Fails`. `Classify` is the decision of `accept()` after a failed
publication: retry, skip, or compensate. `...Begin` and `...Done` are the
beginning and end of a method; the first three assignments of `seal()` are a step
each (`SealBegin`, `SealUnlist`, `SealMark`). `Interrupt` is a `BaseException` that
leaves the running method: locals (`pending`, `todo`, `kept`) are lost, attributes
stay. `unlisted` is history: an interruption came after `_accepted.clear()` and
before the state was `sealed` (finding 6). A failing `publish` may have made the
artifact visible; a failing cleanup may or may not have removed it and may leave an
inode in quarantine, and a failing release may or may not have released. Identities,
payloads and receipts are abstracted to "authenticates or not", which is a
failing call.

### PublicationOutcomes, PublicationContract

For every method the set of results its caller may see (public, unremoved,
unreleased, recovered). `PublicationContract` makes each method one atomic step.
`ConsumerTransaction!ImplementsContract` is the refinement, with
`Outcome` as mapping: `cursors` stand for what has been accepted, so that
publication appears at the end of `accept()`.

### RuntimeInstance, AcceptedStep

`RuntimeInstance` follows `_run`: start-of-run consumers (`mode = "fire"`), then
steps (`mode = "step"`) through `Enter` (finalizer retries, envelope snapshot),
native begin, attempt, `Plan`, `Construct` for each clock, native commit,
`Accept` for each clock, native finalize, `Seal`, `Publish`; every failure goes
to `Abort` in reverse order, native rollback, `Restore`, and then retry or end of
the run. A consumer transaction is one record and each call picks an outcome from
`PublicationOutcomes`, so that the composition rests on the refinement above. The
native engine is its macro step, `Torn` after an unsuccessful attempt. `BeginOk`,
`CommitOk`, `FinalizeOk` and `Rollback` contain the preconditions and effects of
`System::*_step_transaction`. An inode in a quarantine is a number; `authority` are
the recoveries that the transaction of a clock holds, `owners` those of the
transactions kept for a later finalizer retry, and `registry` what
`_retain_consumer_recoveries` has registered, restored recoveries apart from the
others. Every retry registers the recoveries of its transactions again, also those
an operator has restored and cleaned up since. `orphans` is history: recoveries of a
transaction whose constructor raised (finding 3). A cancellation is a failure of the
call it arrives in; finding 7 names two places where it is more than that.

`AcceptedStep` says that the solution and the cursors change in one step. The
mapping takes the native snapshot as the accepted solution while a transaction is
open, and counts the accepted cursors from the moment the native transaction is
finalized.

### StepController

`ErrorControlledDt` with the event queue of `TemporalRestartState`. Time is an
integer number of units rounded to `Precision` significant bits (round to
nearest even, as binary64), so that the differences between `t1 - t0` and the
proposal are those of floating-point arithmetic on a small scale. `Restart`
is a checkpoint between runs followed by a new process: the queue survives and
the controller is rebuilt from it.

### StagedOutput

One `_StagedOutputFile` on rank zero. A directory entry holds an inode or
nothing; every system call is a step; `OtherProcess` replaces or removes an entry
between any two of them. `twins` are foreign files with the same bytes, for the
idempotent publication. `superseded` are files their owner itself replaced, which
nobody promises to keep. `adopted` is history: files of others that `publish()`
found at its target at the second look and took for its own (finding 4).

### DurableJournal, JournalContract, ObserverDelivery

`DurableJournal` executes the calls of the journal one system call at a time, for
any set of threads. `live` is what the system shows, `disk` what a crash is
certain to leave; link and unlink change `live`, an fsync of the directory copies
it to `disk`. It has no specification of its own: `ObserverDelivery` adds the two
threads of a process (the simulation thread that prepares, withdraws or hands off
a frame at each step, and the worker behind the bounded queue), the submission
gates, replay, close and abort, and crashes after which the next process opens
the same directories. A crash of kind "machine" keeps an arbitrary part of the
unsynced changes, one of kind "process" keeps all of them but syncs none. Every
system call of the journal may fail. `ledger.exposed` is history: a promotion was
abandoned between its link and the fsync of it, by a kill or by a failing fsync
(finding 5). Archives are complete before they are linked, so bytes are not modelled.
`JournalContract` is what users may rely on: prepared, committed and delivered
frames, each transition justified, none undone; it lapses (`Lapse`) with the first
abandoned promotion. `ImplementsJournalContract` is the refinement; the mapping
reads the status of a frame from its links.

### ObserverLifecycle

A collective observer on every rank: `begin_post_commit_consumers`, one frame per
step, `flush_live_visualizations` with its preflight, abort and finalize routes,
`close`, and the error path of `_run`. Each rank has a main thread on WORLD and a
worker thread on the duplicated lane. A thread works locally, waits in a named
collective with its vote, and continues from the rows of all ranks. A rank may
fail locally before any vote; `Lose` makes a collective raise on one rank while
its peers get their rows or wait, and `Detect` is a peer that learns of it, which it
need not. `WorldLost` goes where the code goes: a loss in the step's own gather is an
error like any other and leads into the handler's close; one inside the finalizer of
a frame is remembered and swallowed by `seal()`, and the run steps on (`flow.sealed`);
one while opening or closing fails the run, whose handler seals the local worker; one
in the handler's own close is noted. `own` holds the authorities of the publisher,
which the ranks exchange as evidence before they choose a route.

### RestartTransaction

`restore_checkpoint_payload` on every rank: policy, protocol, preflight, outer
preparation, begin, apply, publication of the envelope, commit, finalize, and the
two rollbacks, each ended by a consensus on WORLD. Inside a phase the executor
goes through its layouts; begin, apply, commit and rollback of a layout are
collective on the lane of the layout. A state is the number of the restore that
installed it, or `Torn`. Layouts are on a `System` or an `AmrSystem`, which
differ in what a rollback keeps when it fails; the snapshot that a `System` keeps
after a raised rollback is itself `Torn`, since its carrier was swapped. `base` is
history: the state the latest restore started from. A rank may also raise between two
lane collectives of begin or apply, where no vote tells its peers (`Strays`): `alone`
are the ranks that did, and the ranks have parted (`Parted`) while some and not all
are alone.

### CollectiveOutput

One output of a run on every rank, sample after sample. `label` is the call a
rank executes, `stage` whether it runs or waits, `err` whether the call raised.
`prepare` is the sequence writer, authority, session, stage; in COLLECTIVE mode
staging is itself the nine phases of `HDF5Writer._stage_file` (`StageSteps`), a
constructor that raises after `mkstemp` leaves its temporary behind, and
publish, discard and rollback of the staged file meet in a barrier, a broadcast
of the root's verdict and a second barrier (`in`, `cast`, `out`). A difference
between the rows of the ranks has the same consequences as an error of one rank
and is modelled as one. The enclosing transaction may discard or withdraw the
sample for reasons of its own; it decides the same on all ranks because it decides
from collective results. After a commit the finalizers run: catalogue, then
writer; what fails is kept and retried before the next step, after the next seal,
and when the program asks for it. `Listing` and `Refuses` are the rebuild, the
append and the refusals of `publish_output_series`.

### MultiLayoutStep

`_MultiLayoutUniformExecutor` with one native `System` per layout and one transfer
session per mapping, inside the step envelope and its retries. The constructor
orders the mappings at step boundaries (`Schedule`, round by round as in
`physical_mapping_schedule`) and refuses a cycle. A call begins all children and
sessions, executes either the simultaneous mappings, the schedule, or the passes
of `execute_program_maps`, and is committed and finalized or rolled back. The
state of a layout is what it was computed from: the accepted step, the mappings
written into it, the regions of its Program that have run. A Program is the sequence
of ports at which it is suspended, over all substeps of a step: a port `<<r, k>>` is
route `r` met in substep `k`, with a capture and a receipt of its own. In the steps of
a stride in which the cadence is not due no Program runs. `counts` are the
`_mapping_evaluations`, one per mapping and receipt, so that a mapping with several
invocations or substeps counts several times in a step. Every child operation may
reject or fail, undoing operations included. `Torn` is a state that a failing
operation left, and `swapped` are the layouts whose kept snapshot a raised
restoration has left with the carrier of an attempt: they and what is restored from
them are at the accepted step but for that carrier. Native calls are taken to raise on
all ranks or on none, so one process stands for all ranks; where that fails for
`System::step` is in `CollectiveStep`. `Executable` is the reference
for the scheduler: a precedence relation over regions without a cycle.

A loop is the set of elements it has left, taken in the order of the code: `First`
and `Last` for loops over layouts and routes, `Due` for the operations of an
attempt, which `Script` gives as triples of round, kind and route or layout.
`PlansAssumption` says what binding establishes about the plans that reach the
executor: a port of a Program is one of its layout's Program-point routes and is
met once in each substep, in the order of the substeps
(`program_cadence_continuation.inc` repeats the whole Program); every Program-point
route is the port of some Program (`program_map_invocations` in
`codegen/program_mapping_regions.py` makes one port per invocation); and an
after-source-step route is a physical mapping (the others are refused in
`_multi_layout_executor.py:1918`). It does not say that both peers
have the port, nor anything about cycles: that is what the scheduler and the
passes have to find out.

### CollectiveStep

The same step seen from the ranks of one `System`. A rank does local work, or
waits in a collective that completes when all ranks are in it. Begin, commit,
finalize and rollback open with the vote of `require_step_transaction_control`.
`Phases` are the collectives that the Program of `System::step` meets, in their
order. A phase is `collective_step_rejection_phase`: ordinary failures first, then
rejections, whose payloads must agree, then the decoding, which may fail on one rank.
An evaluation status takes the shorter way of `consume_native_evaluation_status`.
Between them the Program runs outside any vote: `Enter` allocates the inner snapshot,
`Raise` is a failure or a rejection raised there, and both send the rank past the rest
of the Program to WORLD. `alone` are the ranks that did so while collectives of the
Program were still ahead, and `Parted` says that some and not all have. The inner
snapshot is restored (`Unwind`), the attempt errors are gathered on WORLD (`Verdict`),
and the envelope stages, commits, publishes and finalizes, or rolls back and retries.
`swapped` are the ranks on which a restoration raised: the transaction stays open, but
its snapshot may hold the carrier of the attempt, and a second restoration may then
give `Torn` and close it. A payload is its control fields and its text: the native
agreement compares both, the verdict only the former. `said` is ghost state: what a
rank itself reported.

### The modules whose names end in Proofs

The inductive invariants and theorems of section 6, each about the module it is
named after.

## 4. Runs

| Run | Instance | States | Shows |
|---|---|---|---|
| `consumer_transaction` | 3 effects, all 27 assignments of failure actions, 2 attempts, 1 quarantine; in two plans one interruption anywhere | 797,925 | complete acceptance and compensation, dependencies public first, release owners survive a cancelled `seal()` but for one window, termination, refinement of the contract |
| `runtime_instance` | 2 clocks (one may skip), a run of 2 steps, or one of at most 1 accepted step and a second run, 1 retry in the first, 1 quarantine race anywhere | 2,761,911 | atomicity of the step and its books, owners of releases and recoveries kept, exact checkpoints, refinement of `AcceptedStep` |
| `step_controller` | dt 1..14, growth 5/4, shrink 1/2, one deadline, 2 runs, 12 bits | 178,689 | accepted steps checkpoint, restart replays, the run returns |
| `staged_output` | 5 inodes, replacements at any moment | 29,903 | foreign files survive, clean exits |
| `observer_delivery` | 2 frames, queue of 1, 2 attempts, 3 processes (2 after an abandoned promotion), 1 withdrawal, 1 failing system call, crashes and kills anywhere | 817,956 | handed-off frames survive crashes, no job disappears, acknowledged is final, and refinement of `JournalContract`, all up to the first abandoned promotion; the run returns |
| `observer_lifecycle` | 2 ranks, 2 steps, 1 replay, queue of 1, 3 faults | 449,714 | same collectives until a WORLD collective is lost, same provider calls and no cleanup twice, same outcome and nothing left running, the run returns or waits for a lost peer |
| `restart_transaction` | 3 ranks, 3 layouts (2 AMR), 3 restores, 4 faults | 297,711 | a restore is atomic over parts and ranks, every call returns unless ranks part |
| `collective_output` | 3 ranks, 3 modes, 3 samples, 2 attempts, 3 faults | 540,002 | same collectives, files of all writers or of none, exact catalogue, every call returns |
| `multi_layout_step` | 3 layouts in a ring, 29 plans with substeps, stride and repeated invocations, 2 steps, 1 retry, 3 faults | 228,491 | a step is atomic over layouts, sessions and counters; mappings are ordered; the scheduler decides exactly; every call returns |
| `collective_step` | 3 ranks, a phase and a status, 4 payloads, 2 steps, 3 raised calls, 1 retry, 4 faults | 906,886 | same collectives and decisions but for ranks that raise outside a phase, clean retries, a torn rank is fenced, every call returns unless ranks part |
| `consumer_interrupted_accept`, `controller_rounding` | as small as the case allows | – | one disagreement each, section 7 |

The bounds are enough in this sense. Three effects give a compensation with a
published prefix, a failing effect and a staged suffix at once; two attempts give a
retry that fails again, with the counter carried from preparation to publication.
Two clocks give one accepted and one failing transaction in the same step, two steps
one that succeeds before one that is undone, the second run owners that it inherits
from the first, one retry a successful step after a rejected attempt. The two plans
with an interruption (`InterruptedPlans`) are one with every failure action and one
in which every failure compensates; interruptions in all 27 plans are too many
states for one run. One quarantine per behaviour (`OneQuarantine`, `MaxQuarantines`)
is enough because each is registered, owned and recovered on its own; after a race
the second run of `runtime_instance` only publishes the samples of its start, which
is where inherited owners are retried. Five inodes are our own, a file found at the
target, and three replacements, which is one more than any path of the code looks at
between two decisions, a replacement between the two looks of `publish()` included.
With 12 bits no sum or product of the instance is rounded, with 4 bits they are. Two
frames and a queue of one give a full queue and a replay in front of a new frame;
three processes give a crash during the recovery from a crash. Two ranks with three
faults give a failure on one rank, another during the close that follows it, and a
third in the second close. Three layouts give a committed, a failing and an
untouched one, four faults a failed restore whose rollback fails on several ranks.
Three samples give a finalizer that is pending while two later samples are indexed;
three faults a failed staging, a failed compensation and a failed finalizer. The
plans of `multi_layout_step` are all combinations of before-step and
after-source-step mappings in the ring, Program maps mixed with either under a
stride of two, all orders in which three Programs can meet their two ports, with and
without a cycle, and two invocations of one mapping that are met again in a second
substep; three faults are a rejection, a failing restoration and a failing reopening
or rollback. In `collective_step` three ranks give two that differ and one that only
listens, and four faults a rejection, a failed restoration, and two failures in the
refused steps that follow, or a failure and a restoration that raises on all three
ranks; three raised calls give the begin that is refused after that and the one that
follows it.

`TypeOK` is checked in `consumer_transaction`, where it is also proved. Where
another module defines it, it documents the state and may be added to the
configuration.

The instances stop when the bounded number of runs, restarts, samples or
replacements is used up and nobody calls again (in `consumer_transaction`, where
the constraint ends the behaviours it excludes), so they say
`CHECK_DEADLOCK FALSE`; that a running call does not get stuck is what
`MethodReturns`, `RunReturns`, `RestartReturns`, `OutputReturns`, `StepReturns`
and `CallReturns` say.

## 5. Fairness

`FairSpec` adds weak fairness of the steps of a called method and of every thread
and rank that runs one, and nothing else: the interpreter executes a function it
has entered, and the operating system schedules its threads. In the modules with
several ranks a collective that all of them have entered completes, which MPI
promises. A rank that waits for one that will not come is not assumed to be told:
`RunReturns` of `ObserverLifecycle` admits that wait after a lost collective,
`RestartReturns` and `CallReturns` while the ranks have parted. Nothing is assumed
about callers, other processes, crashes, or which outcome a call has; in particular
an attempt may be rejected for ever. Termination therefore rests on the code's own bounds: attempts
per effect or delivery, the retry budget, `DtMin`, and the clock that every
accepted step moves. `StagedOutput` and `RuntimeInstance` have no liveness property.

## 6. Proofs

A theorem holds for every value of the constants that satisfies the `ASSUME` of
its module, which only says that bounds are natural numbers and that markers
such as `None` differ from the values they stand beside; in `MultiLayoutStep` also
that plans are well formed (section 3). Every inductive
invariant was checked by TLC on a small instance before it was proved. The
proofs go action by action; under an action, conjunct by conjunct where it
disturbs several.

### ConsumerTransactionProofs

For plans of any length, any attempt bound of at least one, and any number of
interruptions:

* `TypeCorrect`: `Spec => []TypeOK`. Inductive by itself. The step that matters
  is that an attempt is only counted below `Limit`, so the retry bound holds
  across preparation and publication.
* `SealIsFinal`: `Spec => SealedIsFinal`, with any number of interruptions. It
  needs `PhaseInv`, which ties the running method to the state in which its guard
  let it start; without it a compensation loop might be running while the
  transaction is sealed.
* `AccountingCorrect`: `Spec => []UninterruptedAccounting`. `Accounting` says for
  each point of each method which list accounts for every public artifact and
  every temporary: during `accept()` the plan is split into accepted, pending and
  skipped, and what is visible is the accepted part; during a cleanup loop, what
  is visible is still to be visited or already in the diagnostics; during
  `seal()`, what is held is still to be released or kept for the next call.
* `CompensationIsComplete`, `AcceptanceIsComplete`: `ResolvedLeavesNothing` and
  `AcceptedIsComplete` follow from it. Neither is inductive, since both speak only
  of moments when no method runs. Both carry the hypothesis `interrupts = 0`,
  which is necessary: the first finding of section 7 is its counterexample.
* `ReleaseOwnersAreKept`: `ReleaseOwnersSurvive`, with interruptions after each of
  the assignments and calls of `seal()`; the property itself excepts the window of
  finding 6. `ReleaseInv` adds what a running `seal()` holds: the owners are in
  `_finalize_pending` before `_accepted` is emptied, and that attribute is replaced
  only at the end, so a cancelled call leaves the owners it started with.
* `DependenciesStayClosed`: `DependencyClosed`. `OrderInv` says at which end of
  the plan each loop works: publication from the front, compensation from the
  back, so that what is public is always closed under dependency.
* `TransactionImplementsContract`: `ImplementsContract`, the refinement of
  `PublicationContract`. `OutcomeInv` says what the loop variables promise about
  the result that the method will report; the last statement of a method maps to
  the atomic step, every other statement to a stutter.

### RuntimeInstanceProofs

For any number of clocks, runs, steps and retries. `Core` is inductive and is the
conjunction of `TypeOK` with: `ModeInv` (which statements belong to a step),
`NativeInv` (where the engine stands relative to its snapshot and to the temporal
authority), `EnvelopeInv` (the envelope snapshot is the accepted state),
`EntryInv` (a run without an accepted step stands on its entry state), `TxnInv`
(in which states the transactions of the due clocks can be at each statement),
`ArtifactInv` (every public artifact is counted by a cursor, named in a report, or
owned by an open transaction) and `OwnersInv` (every unreleased resource has a
finalizer, every quarantined inode but the orphans an authority in the registry or in
a transaction that will still register it). The properties speak of the end
of a call; these say what holds at each statement on the way to it.

* `TypeCorrect`: `Spec => []TypeOK`.
* `StepIsAtomicAlways`: `StepIsAtomic`, from `Core` and `CountInv` (a cursor is
  the number of published reports of its clock).
* `OwnersAreRetained`: `OwnersRetained`, from `Core`, with races in every call,
  constructors included. The property excepts the inodes of finding 3 and claims one
  direction only: finding 9 is an authority in the registry without its inode.
* `CheckpointsAreExact`: `CheckpointIsExact`, with `PayloadInv` (a staged
  checkpoint holds what the step will accept).
* `RunImplementsAcceptedStep`: the refinement of `AcceptedStep`. Native finalize
  maps to the abstract step of a run, a seal of start-of-run consumers to a
  sample, everything else to a stutter.

### StagedOutputProofs

For any number of files and any interleaving with other processes:

* `TypeCorrect`: `Spec => [](TypeOK /\ LodgedInv)`; an inode is lodged in a
  quarantine exactly while the object decides about it.
* `ForeignFilesSurvive`: `ForeignSurvives`, whenever other processes act. `CallInv`
  and `OwnerInv` say that only `rollback()` works on the target, only if `publish()`
  created or adopted it, and then with our inode or an adopted one as owner.
* `CleanExit`: `CleanExitIsEmpty`. `WithdrawalInv` says
  where our inode can be while an entry is being withdrawn, and that every
  retained quarantine has its authority.

### CollectiveStepProofs

For any number of ranks, any sequence of native phases (the empty one too), any
rejections and any number of rank-local failures, inside and outside the phases. The
inductive invariant
`IndInv` speaks of one rank (`Solo`: what it knows about itself at each
operation) and of two (`Pair`). Ranks are compared by their `Stretch`, the piece
of code between two collectives: any two are in the same one, with the same
counters, phase and verdict, or one has left a step that the other is still
leaving, or one is alone and the other is not (`Apart`). A local operation stays in its
stretch (`QuietStep`), a collective moves all ranks together; `Finalize` and `Leave`
are the operations that run ahead. A rank that is alone waits for WORLD and goes no
further while a peer is on the lane (`AloneStep`), and every verdict of WORLD is taken
when none is alone or all are (`NoneAlone`).

* `RanksMeet`: `CollectivesMatch`. It compares the ranks that are alone with each
  other and the others with each other, which is all the code guarantees (finding
  13).
* `RetriesAreClean`: `RetryIsClean`; what a rank reported (`said`) is traced
  through the phase, the decoding and the verdict.
* `TornStaysFenced`: `TornIsFenced`, from a second invariant `FenceInv`: while the
  restoration has raised on some rank and not on all, a rank that could close its
  swapped transaction waits behind a vote that a peer without a transaction fails.
  When it has raised on all, the votes agree again and the fence is gone (finding 14).

### RestartTransactionProofs

For any number of ranks, layouts, restores and failures, in rollbacks too. The
inductive invariant has one part about several ranks: all are in the same
`Stretch`, the phase with what a rank does on its own counted in. The rest is
about one rank and the version `base` that every rank held when the restore began,
the only thing that must be common: `Layout` (an engine holds the snapshot of
`base`, or no transaction and `base`, or has refused since its rollback raised),
`Snapshots` (which layouts the Python list names at each place of each loop),
`Coordinator`, `Envelope` and `Written` (what the restore has installed so far).

* `TypeCorrect`: `Spec => []TypeOK`.
* `RestoresAreAtomic`: `RestoreIsAtomic`. It is not inductive since it speaks of
  the moments between restores. The argument is that each rollback loop gives back
  exactly the layouts that the begin loop reached, on a rank that failed in the
  middle of it as on one that waited at its end, and that the consensus makes all
  ranks take the same of the two routes. A rank that raised alone reaches the
  consensus and waits there; a restore whose ranks have parted never comes to rest,
  so the theorem says nothing of it.

### CollectiveOutputProofs

For any number of ranks, samples, attempts, retries and failures, in each parallel
mode. `IndInv` says that ranks are at the same call with the same attempt count,
finalizers and withdrawal (`Alike`), where a rank may wait and where its peers may
be then (`Place`, `Meeting`), and, for each call before and after its effect, who
has a temporary (`Temporaries`), what the session promises (`Session`) and which
file is at the target (`Artifact`); `Files` says that every other sample is
complete or absent. `QuietStep` treats the local calls, `BarrierStep` the barriers
and the broadcast of a shared file, `QuietMove` and `LoopStep` the gathers.

* `RanksMeet`: `CollectivesMatch`. The case that needs care is that a call on a
  staged file enters barriers only where a file is held: in COLLECTIVE mode
  `staged` is the same on all ranks because it is set from gathered rows.
* `OutputsAreAllOrNone`: `OutputAllOrNone`. A file found at the target before the
  link is not withdrawn by a rollback; that this is never the file of a rejected
  sample, unless it was reported, is the second part of `Artifact`.
* `CatalogueIsExact`: `CatalogueExact`, from a second invariant `CatInv` on top of
  `IndInv`. It adds that each accepted sample the catalogue does not list is later
  than all it lists (`Catalogue`): a sample listed in the meantime would have found
  its file unlisted and rebuilt the list, so that the retry is an append in clock
  order and not refused. It also adds that such a sample keeps a finalizer through
  the loops (`Records`, `SeriesCall`), and that a file a rollback removes is not
  listed. That a rebuilt list exists is lemma `Sorted`: a smallest set of samples
  without an ordered list would have one. The induction is taken from the
  well-foundedness of the naturals as a fact about sets (`WFMin`).

### ObserverDeliveryProofs

For any number of frames, processes, attempts, withdrawals and failing calls and
any capacity of the queue, under `Trusted`: the journal syncs, which is its default.
The machine may crash and the process may be killed at any system call, and any call
may fail. The results hold up to the first promotion that a kill or a failing fsync
abandons between its link and its fsync (`ledger.exposed`); after it the code loses
frames (finding 5).

`IndInv` is about the two threads and the journal between them. `MainCall` and
`WorkerCall` say which call of the journal each thread is in and for which frame,
`Shape` where in it; `Durability` says that a link that is not durable is the one
whose fsync is due and that a durable link is removed only behind a later one.
`RecoverInv`, `PrepareInv`, `CommitInv` and `DeliverInv` carry what an inspection
found to the place where it is used, past the steps that the other thread takes
in between. `Jobs` is the heart: at most one job per frame, only for durable
frames, none for a delivered one. `Numbered` counts jobs and reports, `Lifecycle`
separates jobs from provider calls, and `Account` says that whatever was handed
off is to be replayed, has a job, is reported or is delivered.

* `DeliveryInvariant`: `Spec => []Guarded`, where `Guarded` is `IndInv` as long as
  no promotion was abandoned.
* `HandOffsSurvive`, `LossIsReported`: `HandedOffSurvives` and `NoSilentLoss`.
  Neither is inductive: that a closed queue has reported a frame needs that its
  job was numbered, was alone, and was not consumed between two processes.
* `AcknowledgementsAreFinal`: `AcknowledgedIsFinal`. A step computed again after a
  crash meets its frame as prepared, pending or delivered; `PrepareInv` and
  `CommitInv` show that only the first leads to a new job.
* `DeliveryKeepsContract`: `ImplementsJournalContract`, step by step. A link
  prepares, an unlink discards, the fsync of a directory commits or acknowledges
  the one frame that was due, and completes failed discards together, which the
  contract allows as a `Crash`; an abandoned promotion is the `Lapse` of the
  contract; every other step stutters, offers or executes.

### MultiLayoutStepProofs

For any number of layouts, routes, ports and substeps, any stride, any well-formed
plan and any number of steps, retries and failures, in undoing operations too.
`IndInv` has eleven parts.

* `LayoutInv`, `SessionInv`, `CountInv`: where each layout, session and counter
  stands against the accepted step at each statement, and for a loop which layouts
  it has already treated. A counter is what the accepted steps with and without a due
  cadence add up to. A layout is `Clean`, `Broken` (torn, snapshot kept, swapped),
  `Open` or `Fresh`; a begin loop has opened all layouts below the ones it has left,
  which is why its handler undoes exactly those.
* `SchedInv`: rounds of the schedule list an event once and after what it needs;
  any set of listed steps has one that no other of the set feeds.
* `ScriptInv`, `CopyInv`, `NeedInv`: what operations that are done have written, what
  a session holds since it copied, and that no region ran without its mappings.
* `PassInv`, `LoopInv`: each Program stands at a port, before a region or at its end
  with every earlier port mapped (`Stands`); the regions that have run are closed
  under `Follows` and any set of them has an earliest one; a loop of a pass has
  treated nothing as long as the pass made no progress.
* `EndInv` keeps what a completed attempt has established; `TypeInv` the types.

`StepEffect`, `RegionEffect`, `MapEffect` and their like say what an action does in
the terms of these parts; each part then has one lemma over all actions.

* `IndInvariant`: `Spec => []IndInv`.
* `Atomicity`: `StepIsAtomic`. The case that needs care is a rejection whose restart
  fails half way: `UnwindBegun` must give back the layouts begun again, and the
  rollback of the envelope then meets layouts with and without a transaction.
* `Ordering`: `MappingsAreOrdered`. A copy is never one of an earlier attempt because
  the rollback between two attempts closes every session, and never one from before
  the port or from an earlier substep because a capture demands that both peers are
  suspended at the port whose receipt is the next of its session.
* `Decision`: `PassesDecide`. Completed plans are executable because the regions that
  have run are all of them and have no cycle. For plans given up, the argument goes
  the other way: were the plan executable, one of the regions not yet run would
  follow no other of them, and so be the next of its layout. The layout is then
  runnable, so that the pass would have made progress, or it is blocked by a mapping
  whose source is not complete, or waits at a port that its peer has not reached; in
  both cases the region follows one that has not run. For a refused construction the
  steps that were never listed play that role.

### Only model-checked

All liveness properties (`MethodReturns`, `RunReturns`, `RestartReturns`,
`OutputReturns`, `StepReturns`, `CallReturns`), which are outside the prover.
`AcceptedStepCheckpoints` of `StepController` holds in the run and cannot be a theorem:
finding 2 is a precision for which it fails. `RestartReplays` of that module and the
safety properties of `ObserverLifecycle` are later work.

## 7. Findings

Two disagreements between the code and its own text are runs that TLC refutes;
`PROJECT.json` quotes the text.

1. `consumer_interrupted_accept`: a `KeyboardInterrupt` inside `accept()` leaves
   the state `staged` with public artifacts; `abort()` then rejects the
   transaction without withdrawing them.
2. `controller_rounding`: the checkpoint of an accepted step is refused when
   `t1 - t0` does not round to the proposal. With the code itself, `dt_init = 0.1`
   and `growth = 1.25` show it at the third accepted step.

The next four are windows in which the code does not keep what a property says. The
models contain them; a history variable records that one was met, and the property is
claimed without it.

3. `orphans`, `OwnersRetained`: when the constructor of a `ConsumerTransaction` fails
   and one of its discards meets a quarantine race, the recovery authority is lost
   with the object.
4. `adopted`, `ForeignSurvives`: a target replaced between the two looks of
   `publish()` is adopted, and unlinked by a later rollback.
5. `ledger.exposed`, `HandedOffSurvives`: a process is killed between the link of a
   promotion and its fsync; the next one finds the pending link, removes and syncs the
   prepared one, and never syncs the pending directory. A crash of the machine then
   loses a frame that was handed off, against the docstring of `_durable_journal.py`
   (lines 7-11). A failing fsync does the same without a kill: the retry finds the
   link, removes and syncs its source, and returns.
6. `unlisted`, `ReleaseOwnersSurvive`: `seal()` empties `_accepted`
   (`_consumer_transaction.py`, line 498) before it sets the state (line 501). A
   `BaseException` between the two leaves an accepted transaction with an empty list;
   the next `seal()` replaces `_finalize_pending` by it and every release owner is
   lost.

Met while modelling, outside the properties or admitted by them:

7. A signal that is raised as native `finalize()` returns, before the assignment
   that records it (`_runtime_instance.py`, line 1441), is treated as a failure of
   the commit phase: the engine keeps the step, the Python envelope and the
   artifacts go back. One that arrives between two seals of a step loses the local
   list of release owners.
8. The catalogue rebuild takes every member of the family it finds on disk. A
   sample whose step was rejected and whose rollback failed is therefore listed by
   the next accepted sample, although a rejected step should never enter the
   catalogue. `CatalogueExact` admits exactly this case (`dirty`).
9. Every retry of a pending finalizer registers the recoveries of its transaction
   again (`_runtime_instance.py`, lines 1209-1212). One that an operator has restored
   and cleaned up in the meantime is then back in the registry, without its inode.
10. After a lost WORLD collective the ranks of an observed run may part. A loss
    inside `finalize()` is caught by `seal()` (`_consumer_transaction.py`, lines
    506-513) and the run goes on to the collectives of the next step; a loss in the
    step's own gather (`_step_strategy.py`, line 203) is closed like any error, so that
    this rank is in the collectives of the close while its peers are in those of a
    step. Nobody tells a peer that waits. A loss inside the handler's own close is only
    noted, and leaves the worker as it is.
11. `begin` of the restart transaction undoes a failed layout by calling its
    rollback although that layout took no snapshot, so the error always reports a
    failed child rollback as well. The state is right; the report is not.
12. A rank-local exception in the begin or apply of a layout before its lane
    collective (an allocation in `set_state`, `_system_io.py`, lines 699-709) sends
    that rank to the WORLD consensus while its peers wait on the lane, for good.
    `RestartReturns` excepts this (`Parted`).
13. `System::step` runs its Program outside any rejection phase
    (`src/runtime/system/system.cpp`, lines 57-63) and allocates its inner snapshot
    outside any vote (`system_impl.hpp`, line 855). A rank that raises there goes to
    the WORLD gather of the attempt while its peers wait on the lane. `CollectivesMatch`
    and `CallReturns` of `CollectiveStep` except this.
14. `AcceptedSnapshot::restore` swaps the provider carrier out of the snapshot
    (`system_impl.hpp`, line 717), so a restoration that raised after it cannot be
    repeated. If it raised on every rank, or in a layout, the rollback of the next,
    refused begin restores the kept snapshot with the carrier of the attempt and
    closes the transaction. `TornIsFenced`, `StepIsAtomic` of `MultiLayoutStep` and
    `RestoreIsAtomic` except exactly this (`swapped`, `broken`).
15. A session whose construction fails on one rank after its worker was started
    leaves a non-daemon worker thread running. `ObserverLifecycle` registers the worker
    in the step that starts it and does not reach this.

## 8. Not modelled

* Numerical kernels, solvers, the authoring language, code generation, bindings,
  documentation and benchmarks: floating-point arrays and text, outside a
  finite-state model. They are the greater part of the repository's 220,000 lines,
  so the modelled share of the lines stays small however much of the protocol is
  covered.
* The ranks inside `advance_program_region`, the entry of the multi-layout passes:
  its port agreement, the votes of `_restore_rejected_native_attempt`, and a region or
  a restoration that raises on one rank only. `CollectiveStep` is about
  `System::step`, and `MultiLayoutStep` takes a native call to raise on all ranks or on
  none. A rejection that rank-local Python code raises inside the multi-layout `step()`
  is left out for the same reason: the executor would call on the lanes alone.
* A run that is started again with an earlier clock in the same output directory: the
  catalogue refuses a member it lists at a later time
  (`pops/output/_writers/common.py`, line 1743).
* `RuntimeInstance` is one process; agreement of its ranks is in `CollectiveStep`
  and `CollectiveOutput`. In it the native rollback of a step is assumed to
  restore the snapshot whenever a transaction is open; `_run` only notes a failing
  rollback. Failing rollbacks are in `CollectiveStep` and `MultiLayoutStep`.
* Nested native transactions, the transactions of the AMR system, and a
  finalization that fails after the commits of all layouts succeeded, which the
  code argues cannot happen.
* Capture and writing of checkpoints, and callers that restore an engine directly
  without the envelope.
* The schedule arithmetic that decides which clocks are due: `Plan` chooses any
  set, so the results hold for every schedule.
* Cancellations inside the step envelope that are not failures of a call (finding
  7), inside the seals of start-of-run consumers and inside constructors.
* File contents, the encoding of frames and archives, the PVD collections and
  states of ParaView, and the SERIAL mode of the publisher, which is the same
  sequence on one rank.

## 9. Running

In this directory: `tlc -workers 2 -config <run>.cfg <MC module>` for a run (the
modules are named in `PROJECT.json`), `tlapm <module>.tla` for the
proofs in a module whose name ends in `Proofs`.
