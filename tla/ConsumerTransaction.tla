------------------------ MODULE ConsumerTransaction ------------------------
(***************************************************************************)
(* The publication transaction of one EffectPlan                           *)
(* (python/pops/runtime/_consumer_transaction.py).  Effects are numbered   *)
(* in plan order, which is the topological order of the ConsumerGraph; the *)
(* lists _prepared, _accepted, _finalize_pending and the locals that walk  *)
(* them are always in plan order, so they are sets and a loop takes their  *)
(* first or, where the code says reversed(...), their last element.        *)
(*                                                                         *)
(* Every call into a PreparedPublication (prepare, publish, discard,       *)
(* rollback, finalize) is one step, because each may fail on its own and   *)
(* because an asynchronous BaseException (KeyboardInterrupt) can reach the *)
(* interpreter between two of them.  Assignments with no call between them *)
(* are one step, except those of seal() and of _rollback_accepted, where   *)
(* an interruption between two of them loses the owners of a release.      *)
(***************************************************************************)
EXTENDS Integers, FiniteSets

CONSTANTS NumEffects,    \* effects of the plan
          MaxAttempts,   \* Retry.max_attempts
          MaxInterrupts  \* bound: asynchronous BaseExceptions per behaviour

ASSUME ConstantsAssumption ==
  /\ NumEffects \in Nat
  /\ MaxAttempts \in Nat \ {0}
  /\ MaxInterrupts \in Nat

Effects == 1 .. NumEffects
FailureActions == {"FailRun", "Retry", "Skip"}

VARIABLES
  action,       \* failure_action of each effect, fixed by the plan
  state,        \* _state
  pc,           \* which method runs: "idle" between two calls of the owner
  prepared,     \* _prepared
  accepted,     \* _accepted
  finalizing,   \* _finalize_pending
  pending,      \* effects the running loop of prepare/accept has still to do
  todo,         \* effects the running cleanup or release loop has still to do
  kept,         \* seal()'s local `pending`: releases that failed in this call
  attempts,     \* attempts spent on each effect
  skipped,      \* effects of _skipped
  cursors,      \* effects whose cursor_after is in _cursor_updates
  culprit,      \* {e} once _failed(e) was raised, else {}
  dirty,        \* effects named by the cleanup diagnostics of the report
  recoveries,   \* effects with a quarantine authority in _recoveries
  visible,      \* world: effects whose artifact is public
  held,         \* world: effects holding a temporary or its descriptor
  quarantined,  \* world: effects with an inode left in a quarantine
  interrupts,   \* asynchronous BaseExceptions so far
  unlisted      \* history: one of them left an accepted transaction after
                \* _accepted.clear() and before the assignment of _state

disk == <<visible, held, quarantined>>
vars == <<action, state, pc, prepared, accepted, finalizing, pending, todo,
          kept, attempts, skipped, cursors, culprit, dirty, recoveries,
          visible, held, quarantined, interrupts, unlisted>>

\* Definitions whose name ends in _Fault are not part of the specification:
\* each is a plausible slip in the definition that follows it, and a property
\* has to notice the exchange.
IsFirst(e, S) == e \in S /\ \A d \in S : e <= d

IsLast_Fault(e, S) == IsFirst(e, S)
IsLast(e, S) == e \in S /\ \A d \in S : d <= e

\* _attempt_limit
Limit_Fault(e) == MaxAttempts + 1
Limit(e) == IF action[e] = "Retry" THEN MaxAttempts ELSE 1

\* The constructor has authenticated the plan and entered _prepare_all.
Init ==
  /\ action \in [Effects -> FailureActions]
  /\ state = "preparing" /\ pc = "prepare"
  /\ pending = Effects
  /\ prepared = {} /\ accepted = {} /\ finalizing = {} /\ todo = {} /\ kept = {}
  /\ attempts = [e \in Effects |-> 0]
  /\ skipped = {} /\ cursors = {} /\ culprit = {} /\ dirty = {}
  /\ recoveries = {} /\ visible = {} /\ held = {} /\ quarantined = {}
  /\ interrupts = 0 /\ unlisted = FALSE
-----------------------------------------------------------------------------
(***************************************************************************)
(* Preparation: _prepare_one inside _prepare_all ("prepare") and inside    *)
(* accept() after a failed publication ("reprepare").                      *)
(***************************************************************************)

\* _prepare_one counts on from the attempts already spent (start_attempt).
Spent_Fault(e) == IF pc = "prepare" THEN attempts[e] + 1 ELSE 1
Spent(e) == attempts[e] + 1

\* publisher.prepare succeeds and the result authenticates the effect.
PrepareOk(e) ==
  /\ pc \in {"prepare", "reprepare"} /\ IsFirst(e, pending)
  /\ attempts[e] < Limit(e)
  /\ attempts' = [attempts EXCEPT ![e] = Spent(e)]
  /\ held' = held \cup {e}
  /\ IF pc = "prepare"
       THEN /\ prepared' = prepared \cup {e}
            /\ pending' = pending \ {e}
            /\ pc' = pc
       ELSE /\ pc' = "publish"
            /\ UNCHANGED <<prepared, pending>>
  /\ UNCHANGED <<action, state, accepted, finalizing, todo, kept, skipped,
                 cursors, culprit, dirty, recoveries, visible, quarantined,
                 interrupts, unlisted>>

\* publisher.prepare raises.  It removes its own partial work, and hands any
\* quarantine authority to the RuntimeInstance itself, before it raises.  (A
\* result that is not a PreparedPublication of this effect is not modelled.)
PrepareFails(e) ==
  /\ pc \in {"prepare", "reprepare"} /\ IsFirst(e, pending)
  /\ attempts[e] < Limit(e)
  /\ attempts' = [attempts EXCEPT ![e] = Spent(e)]
  /\ UNCHANGED <<action, state, pc, prepared, accepted, finalizing, pending,
                 todo, kept, skipped, cursors, culprit, dirty, recoveries,
                 disk, interrupts, unlisted>>

\* _prepare_one returned no preparation to _prepare_all.
PrepareExhausted(e) ==
  /\ pc = "prepare" /\ IsFirst(e, pending)
  /\ attempts[e] >= Limit(e)
  /\ IF action[e] = "Skip"
       THEN /\ skipped' = skipped \cup {e}
            /\ pending' = pending \ {e}
            /\ UNCHANGED <<pc, todo, culprit>>
       ELSE /\ pc' = "fail" /\ todo' = prepared /\ culprit' = {e}
            /\ pending' = {}
            /\ UNCHANGED skipped
  /\ UNCHANGED <<action, state, prepared, accepted, finalizing, kept, attempts,
                 cursors, dirty, recoveries, disk, interrupts, unlisted>>

\* The constructor returns.
PrepareDone ==
  /\ pc = "prepare" /\ pending = {}
  /\ state' = "staged" /\ pc' = "idle"
  /\ UNCHANGED <<action, prepared, accepted, finalizing, pending, todo, kept,
                 attempts, skipped, cursors, culprit, dirty, recoveries, disk,
                 interrupts, unlisted>>
-----------------------------------------------------------------------------
(***************************************************************************)
(* accept(): publish in plan order.                                        *)
(***************************************************************************)

AcceptBegin ==
  /\ pc = "idle" /\ state = "staged"
  /\ pc' = "publish" /\ pending' = prepared /\ prepared' = {} /\ dirty' = {}
  /\ UNCHANGED <<action, state, accepted, finalizing, todo, kept, attempts,
                 skipped, cursors, culprit, recoveries, disk, interrupts, unlisted>>

PublishOk(e) ==
  /\ pc = "publish" /\ IsFirst(e, pending)
  /\ visible' = visible \cup {e}
  /\ accepted' = accepted \cup {e}
  /\ pending' = pending \ {e}
  /\ UNCHANGED <<action, state, pc, prepared, finalizing, todo, kept, attempts,
                 skipped, cursors, culprit, dirty, recoveries, held,
                 quarantined, interrupts, unlisted>>

\* publish() raises, or returns a receipt that does not authenticate: the
\* artifact may be public already, and an inode may be in quarantine.
PublishFails(e) ==
  /\ pc = "publish" /\ IsFirst(e, pending)
  /\ visible' \in {visible, visible \cup {e}}
  /\ quarantined' \in {quarantined, quarantined \cup {e}}
  /\ pc' = "undo"
  /\ UNCHANGED <<action, state, prepared, accepted, finalizing, pending, todo,
                 kept, attempts, skipped, cursors, culprit, dirty, recoveries,
                 held, interrupts, unlisted>>

\* _retain_recoveries after a call into the preparation of e.
Retain(e) == recoveries' = recoveries \cup (quarantined' \cap {e})

\* The same when reading prepared.recoveries may raise: nothing is taken over
\* and the failure is one more diagnostic of the same call.
MayRetain(e) == Retain(e) \/ UNCHANGED recoveries

\* accept() tries the effect again after a clean rollback.
MayRetry(e) == action[e] = "Retry" /\ attempts[e] < Limit(e)

\* SkippedSampleReport, phase "publish".
SkippedWith_Fault(e) == skipped
SkippedWith(e) == IF action[e] = "Skip" THEN skipped \cup {e} ELSE skipped

\* self._prepared.extend(pending): what a failing accept() must discard.
StillStaged_Fault(e) == prepared
StillStaged(e) == prepared \cup (pending \ {e})

\* What becomes of the effect whose publication failed: `clean` says that its
\* rollback succeeded.
Classify(e, clean) ==
  IF clean /\ MayRetry(e)
    THEN /\ pc' = "reprepare"
         /\ UNCHANGED <<pending, prepared, todo, skipped, culprit>>
    ELSE /\ skipped' = SkippedWith(e)
         /\ IF clean /\ action[e] = "Skip"
              THEN /\ pc' = "publish" /\ pending' = pending \ {e}
                   /\ UNCHANGED <<prepared, todo, culprit>>
              ELSE /\ pc' = "rollback" /\ todo' = accepted /\ culprit' = {e}
                   /\ prepared' = StillStaged(e)
                   /\ pending' = {}

\* _rollback of the failed publication.  A cleanup call that raises, or whose
\* recoveries cannot be taken over, may have done all, some or none of its work.
UndoOk(e) ==
  /\ pc = "undo" /\ IsFirst(e, pending)
  /\ visible' = visible \ {e} /\ held' = held \ {e}
  /\ Classify(e, TRUE)
  /\ UNCHANGED <<action, state, accepted, finalizing, kept, attempts, cursors,
                 dirty, quarantined, interrupts, unlisted>>
  /\ Retain(e)

UndoFails(e) ==
  /\ pc = "undo" /\ IsFirst(e, pending)
  /\ visible' \in {visible, visible \ {e}}
  /\ held' \in {held, held \ {e}}
  /\ quarantined' \in {quarantined, quarantined \cup {e}}
  /\ dirty' = dirty \cup {e}
  /\ Classify(e, FALSE)
  /\ UNCHANGED <<action, state, accepted, finalizing, kept, attempts, cursors,
                 interrupts, unlisted>>
  /\ MayRetain(e)

\* A replacement could not be prepared: accepted work is compensated.
ReprepareExhausted(e) ==
  /\ pc = "reprepare" /\ IsFirst(e, pending)
  /\ attempts[e] >= Limit(e)
  /\ pc' = "rollback" /\ todo' = accepted /\ culprit' = {e}
  /\ prepared' = StillStaged(e)
  /\ pending' = {}
  /\ UNCHANGED <<action, state, accepted, finalizing, kept, attempts, skipped,
                 cursors, dirty, recoveries, disk, interrupts, unlisted>>

AcceptDone ==
  /\ pc = "publish" /\ pending = {}
  /\ state' = "accepted" /\ pc' = "idle"
  /\ cursors' = accepted
  /\ UNCHANGED <<action, prepared, accepted, finalizing, pending, todo, kept,
                 attempts, skipped, culprit, dirty, recoveries, disk, interrupts, unlisted>>
-----------------------------------------------------------------------------
(***************************************************************************)
(* Cleanup.  "reject" and "fail" are _discard_staged called by reject()    *)
(* and by _failed; "compensate" and "rollback" are _rollback_accepted      *)
(* called by rollback_accepted() and by a failing accept().                *)
(***************************************************************************)

RejectBegin ==
  /\ pc = "idle" /\ state = "staged"
  /\ pc' = "reject" /\ todo' = prepared /\ dirty' = {}
  /\ UNCHANGED <<action, state, prepared, accepted, finalizing, pending, kept,
                 attempts, skipped, cursors, culprit, recoveries, disk,
                 interrupts, unlisted>>

DiscardOk(e) ==
  /\ pc \in {"reject", "fail"} /\ IsLast(e, todo)
  /\ held' = held \ {e}
  /\ todo' = todo \ {e}
  /\ UNCHANGED <<action, state, pc, prepared, accepted, finalizing, pending,
                 kept, attempts, skipped, cursors, culprit, dirty, visible,
                 quarantined, interrupts, unlisted>>
  /\ Retain(e)

DiscardFails(e) ==
  /\ pc \in {"reject", "fail"} /\ IsLast(e, todo)
  /\ held' \in {held, held \ {e}}
  /\ quarantined' \in {quarantined, quarantined \cup {e}}
  /\ dirty' = dirty \cup {e}
  /\ todo' = todo \ {e}
  /\ UNCHANGED <<action, state, pc, prepared, accepted, finalizing, pending,
                 kept, attempts, skipped, cursors, culprit, visible,
                 interrupts, unlisted>>
  /\ MayRetain(e)

\* _discard_staged clears its list; reject() or _failed sets the state.
DiscardDone ==
  /\ pc \in {"reject", "fail"} /\ todo = {}
  /\ prepared' = {}
  /\ state' = IF pc = "reject" /\ dirty = {} THEN "rejected" ELSE "failed"
  /\ pc' = "idle"
  /\ UNCHANGED <<action, accepted, finalizing, pending, todo, kept, attempts,
                 skipped, cursors, culprit, dirty, recoveries, disk, interrupts, unlisted>>

RollbackBegin_Fault ==
  /\ pc = "idle" /\ state \in {"accepted", "sealed"}
  /\ pc' = "compensate" /\ todo' = accepted \cup finalizing /\ dirty' = {}
  /\ UNCHANGED <<action, state, prepared, accepted, finalizing, pending, kept,
                 attempts, skipped, cursors, culprit, recoveries, disk,
                 interrupts, unlisted>>

RollbackBegin ==
  /\ pc = "idle" /\ state = "accepted"
  /\ pc' = "compensate" /\ todo' = accepted /\ dirty' = {}
  /\ UNCHANGED <<action, state, prepared, accepted, finalizing, pending, kept,
                 attempts, skipped, cursors, culprit, recoveries, disk,
                 interrupts, unlisted>>

RollbackOk(e) ==
  /\ pc \in {"rollback", "compensate"} /\ IsLast(e, todo)
  /\ visible' = visible \ {e} /\ held' = held \ {e}
  /\ todo' = todo \ {e}
  /\ UNCHANGED <<action, state, pc, prepared, accepted, finalizing, pending,
                 kept, attempts, skipped, cursors, culprit, dirty, quarantined,
                 interrupts, unlisted>>
  /\ Retain(e)

RollbackFails(e) ==
  /\ pc \in {"rollback", "compensate"} /\ IsLast(e, todo)
  /\ visible' \in {visible, visible \ {e}}
  /\ held' \in {held, held \ {e}}
  /\ quarantined' \in {quarantined, quarantined \cup {e}}
  /\ dirty' = dirty \cup {e}
  /\ todo' = todo \ {e}
  /\ UNCHANGED <<action, state, pc, prepared, accepted, finalizing, pending,
                 kept, attempts, skipped, cursors, culprit, interrupts, unlisted>>
  /\ MayRetain(e)

\* _rollback_accepted has tried everything and clears its list.
RollbackClear ==
  /\ pc \in {"rollback", "compensate"} /\ todo = {} /\ accepted # {}
  /\ accepted' = {}
  /\ UNCHANGED <<action, state, pc, prepared, finalizing, pending, todo, kept,
                 attempts, skipped, cursors, culprit, dirty, recoveries, disk,
                 interrupts, unlisted>>

\* _rollback_accepted withdraws the cursors and rollback_accepted() sets the
\* state; a failing accept() goes on with _failed, which discards what is
\* still staged.
RollbackDone ==
  /\ pc \in {"rollback", "compensate"} /\ todo = {} /\ accepted = {}
  /\ cursors' = {}
  /\ IF pc = "rollback"
       THEN pc' = "fail" /\ todo' = prepared /\ UNCHANGED state
       ELSE /\ pc' = "idle" /\ UNCHANGED todo
            /\ state' = IF dirty = {} THEN "rejected" ELSE "failed"
  /\ UNCHANGED <<action, prepared, accepted, finalizing, pending, kept, attempts,
                 skipped, culprit, dirty, recoveries, disk, interrupts, unlisted>>
-----------------------------------------------------------------------------
(***************************************************************************)
(* seal(): rollback ownership ends before the first release; failed        *)
(* releases stay in _finalize_pending and seal() may be called again.      *)
(***************************************************************************)

SealUnguarded_Fault ==
  /\ pc = "idle"
  /\ IF state = "accepted"
       THEN pc' = "unlist" /\ finalizing' = accepted /\ UNCHANGED <<todo, state>>
       ELSE /\ pc' = "finalize" /\ todo' = finalizing /\ state' = "sealed"
            /\ UNCHANGED finalizing
  /\ UNCHANGED <<action, prepared, accepted, pending, kept, attempts, skipped,
                 cursors, culprit, dirty, recoveries, disk, interrupts, unlisted>>

\* The first seal() copies _accepted; a repeated one goes to the releases.
SealBegin ==
  /\ pc = "idle" /\ state \in {"accepted", "sealed"}
  /\ IF state = "accepted"
       THEN pc' = "unlist" /\ finalizing' = accepted /\ UNCHANGED todo
       ELSE pc' = "finalize" /\ todo' = finalizing /\ UNCHANGED finalizing
  /\ kept' = {}
  /\ UNCHANGED <<action, state, prepared, accepted, pending, attempts, skipped,
                 cursors, culprit, dirty, recoveries, disk, interrupts, unlisted>>

\* self._accepted.clear()
SealUnlist ==
  /\ pc = "unlist"
  /\ accepted' = {} /\ pc' = "mark"
  /\ UNCHANGED <<action, state, prepared, finalizing, pending, todo, kept, attempts,
                 skipped, cursors, culprit, dirty, recoveries, disk, interrupts, unlisted>>

SealMark_Fault ==
  /\ pc = "mark"
  /\ state' = "sealed" /\ pc' = "finalize" /\ todo' = finalizing /\ finalizing' = {}
  /\ UNCHANGED <<action, prepared, accepted, pending, kept, attempts, skipped,
                 cursors, culprit, dirty, recoveries, disk, interrupts, unlisted>>

\* self._state = "sealed", before the first release.
SealMark ==
  /\ pc = "mark"
  /\ state' = "sealed" /\ pc' = "finalize" /\ todo' = finalizing /\ kept' = {}
  /\ UNCHANGED <<action, prepared, accepted, finalizing, pending, attempts, skipped,
                 cursors, culprit, dirty, recoveries, disk, interrupts, unlisted>>

FinalizeOk(e) ==
  /\ pc = "finalize" /\ IsFirst(e, todo)
  /\ held' = held \ {e}
  /\ todo' = todo \ {e}
  /\ UNCHANGED <<action, state, pc, prepared, accepted, finalizing, pending,
                 kept, attempts, skipped, cursors, culprit, dirty, visible,
                 quarantined, interrupts, unlisted>>
  /\ Retain(e)

\* finalize() raises, before or after it has released, or the recoveries
\* cannot be taken over: the publication stays pending either way.
FinalizeFails(e) ==
  /\ pc = "finalize" /\ IsFirst(e, todo)
  /\ held' \in {held, held \ {e}}
  /\ kept' = kept \cup {e}
  /\ todo' = todo \ {e}
  /\ UNCHANGED <<action, state, pc, prepared, accepted, finalizing, pending,
                 attempts, skipped, cursors, culprit, dirty, visible, quarantined,
                 interrupts, unlisted>>
  /\ MayRetain(e)

SealDone ==
  /\ pc = "finalize" /\ todo = {}
  /\ finalizing' = kept /\ kept' = {} /\ pc' = "idle"
  /\ UNCHANGED <<action, state, prepared, accepted, pending, todo, attempts,
                 skipped, cursors, culprit, dirty, recoveries, disk, interrupts, unlisted>>

\* abort() of a resolved transaction returns None.  (Of a staged or accepted
\* one it is RejectBegin or RollbackBegin.)
AbortResolved ==
  /\ pc = "idle" /\ state \in {"rejected", "failed", "sealed"}
  /\ UNCHANGED vars
-----------------------------------------------------------------------------
\* A BaseException that is not an Exception leaves the running method: the
\* locals are lost, the attributes keep the values they had.  In the
\* constructor the object itself is lost.
Interrupt ==
  /\ interrupts < MaxInterrupts /\ pc \notin {"idle", "lost"}
  /\ interrupts' = interrupts + 1
  /\ pc' = IF state = "preparing" THEN "lost" ELSE "idle"
  /\ pending' = {} /\ todo' = {} /\ kept' = {} /\ culprit' = {}
  /\ unlisted' = (unlisted \/ (state = "accepted" /\ accepted = {}))
  /\ UNCHANGED <<action, state, prepared, accepted, finalizing, attempts,
                 skipped, cursors, dirty, recoveries, disk>>

\* Steps of a method that has been called.
Run ==
  \/ \E e \in Effects :
       \/ PrepareOk(e) \/ PrepareFails(e) \/ PrepareExhausted(e)
       \/ PublishOk(e) \/ PublishFails(e)
       \/ UndoOk(e) \/ UndoFails(e) \/ ReprepareExhausted(e)
       \/ DiscardOk(e) \/ DiscardFails(e)
       \/ RollbackOk(e) \/ RollbackFails(e)
       \/ FinalizeOk(e) \/ FinalizeFails(e)
  \/ PrepareDone \/ AcceptDone \/ DiscardDone \/ RollbackClear \/ RollbackDone
  \/ SealUnlist \/ SealMark \/ SealDone

\* Calls the owner may make.
Call == AcceptBegin \/ RejectBegin \/ RollbackBegin \/ SealBegin \/ AbortResolved

Next == Run \/ Call \/ Interrupt

Spec == Init /\ [][Next]_vars

\* A called method keeps running: the interpreter executes it to its end.
FairSpec == Spec /\ WF_vars(Run)
-----------------------------------------------------------------------------
(***************************************************************************)
(* Properties                                                              *)
(***************************************************************************)
States == {"preparing", "staged", "accepted", "rejected", "failed", "sealed"}
Methods == {"idle", "lost", "prepare", "publish", "undo", "reprepare",
            "reject", "fail", "rollback", "compensate", "unlist", "mark",
            "finalize"}

\* Every attribute and local holds a value of the domain the code gives it.
TypeOK ==
  /\ action \in [Effects -> FailureActions]
  /\ state \in States /\ pc \in Methods
  /\ prepared \in SUBSET Effects /\ accepted \in SUBSET Effects
  /\ finalizing \in SUBSET Effects /\ pending \in SUBSET Effects
  /\ todo \in SUBSET Effects /\ kept \in SUBSET Effects
  /\ attempts \in [Effects -> 0 .. MaxAttempts]
  /\ skipped \in SUBSET Effects /\ cursors \in SUBSET Effects
  /\ culprit \in SUBSET Effects /\ dirty \in SUBSET Effects
  /\ recoveries \in SUBSET Effects
  /\ visible \in SUBSET Effects /\ held \in SUBSET Effects
  /\ quarantined \in SUBSET Effects
  /\ interrupts \in 0 .. MaxInterrupts
  /\ unlisted \in BOOLEAN

\* A rejected or failed transaction leaves no public artifact, no temporary
\* and no cursor behind, except what its report names as not removed; a
\* rejected one has no such exception.  (Until a method is interrupted.)
ResolvedLeavesNothing ==
  interrupts = 0 /\ pc = "idle" /\ state \in {"rejected", "failed"} =>
    /\ visible \subseteq dirty /\ held \subseteq dirty /\ cursors = {}
    /\ state = "rejected" => dirty = {}

\* An accepted or sealed transaction accounts for every effect of its plan
\* exactly once: published with its cursor advanced, or reported skipped with
\* neither artifact nor cursor; and it still owns every resource it holds.
\* (Until a method is interrupted.)
AcceptedIsComplete ==
  interrupts = 0 /\ pc = "idle" /\ state \in {"accepted", "sealed"} =>
    /\ visible = cursors
    /\ cursors \cap skipped = {} /\ cursors \cup skipped = Effects
    /\ held \subseteq accepted \cup finalizing

\* A sealed transaction keeps a release owner for everything it published and
\* still holds, even when a cancellation cut seal() short between two releases
\* or after any other of its steps.  The exception is a cancellation between
\* _accepted.clear() and the assignment of _state that follows it: the state
\* is still "accepted", and a second seal() replaces _finalize_pending by the
\* emptied list.
ReleaseOwnersSurvive ==
  state = "sealed" /\ pc = "idle" /\ ~unlisted => held \cap cursors \subseteq finalizing

\* reject() leaves nothing public.  (It does when an asynchronous
\* BaseException has left accept() half way, see the README.)
RejectedPublishesNothing == pc = "idle" /\ state = "rejected" => visible = {}

\* What accept() publishes and what its compensation withdraws respect the
\* dependency order at every moment: whatever an artifact may depend on is
\* public or was reported skipped as long as the artifact is public, unless
\* the report names it as not removable.  (Until a method is interrupted.)
DependencyClosed ==
  interrupts = 0 => \A e \in visible \ dirty : \A d \in 1 .. (e - 1) : d \in visible \cup skipped

\* Once sealed, no step withdraws an artifact, a cursor or the seal.
SealedIsFinal ==
  [][state = "sealed" =>
       state' = "sealed" /\ visible' = visible /\ cursors' = cursors]_vars

\* Every called method returns, whatever fails in it: retries are bounded.
MethodReturns == pc \notin {"idle", "lost"} ~> pc \in {"idle", "lost"}
-----------------------------------------------------------------------------
(***************************************************************************)
(* The inductive invariant of the proofs: where the running method is, and *)
(* which of its lists accounts for every artifact and temporary.           *)
(***************************************************************************)

\* Which states of the transaction each method runs in.
PhaseInv ==
  /\ pc \in {"prepare", "lost"} => state = "preparing"
  /\ pc \in {"publish", "undo", "reprepare", "reject", "rollback"} => state = "staged"
  /\ pc = "fail" => state \in {"preparing", "staged"}
  /\ pc \in {"compensate", "unlist", "mark"} => state = "accepted"
  /\ pc = "finalize" => state = "sealed"
  /\ pc = "idle" => state # "preparing"

\* Three sets that are disjoint and together the whole plan.
Split(A, B, C) == /\ A \cup B \cup C = Effects
                  /\ A \cap B = {} /\ A \cap C = {} /\ B \cap C = {}

\* No effect is published and nothing is owed to a cursor yet.
Unpublished == visible = {} /\ accepted = {} /\ cursors = {} /\ finalizing = {}

\* The accepted prefix is public, the rest of the plan is pending or skipped.
Publishing == /\ Split(accepted, pending, skipped) /\ prepared = {}
              /\ cursors = {} /\ finalizing = {}

\* A cleanup loop still has to visit everything it has not reported.
Cleaning(owed) == /\ visible \subseteq todo \cup dirty
                  /\ held \subseteq todo \cup owed \cup dirty
                  /\ finalizing = {}

\* Every artifact and every temporary is accounted for by the attribute or
\* local from which the code will publish, withdraw or release it.
Accounting ==
  /\ pc = "prepare" => Split(prepared, pending, skipped) /\ Unpublished /\ held = prepared
  /\ pc = "idle" /\ state = "staged" =>
       Split(prepared, {}, skipped) /\ Unpublished /\ held = prepared
  /\ pc = "publish" => Publishing /\ visible = accepted /\ held = accepted \cup pending
  /\ pc = "undo" =>
       /\ Publishing /\ held = accepted \cup pending
       /\ \A e \in pending : IsFirst(e, pending) =>
            accepted \subseteq visible /\ visible \subseteq accepted \cup {e}
  /\ pc = "reprepare" =>
       /\ Publishing /\ visible = accepted
       /\ \A e \in pending : IsFirst(e, pending) => held = (accepted \cup pending) \ {e}
  /\ pc = "reject" => Cleaning({}) /\ Unpublished
  /\ pc = "rollback" => Cleaning(prepared) /\ cursors = {}
  /\ pc = "fail" => Cleaning({}) /\ visible \subseteq dirty /\ accepted = {} /\ cursors = {}
  /\ pc = "compensate" => Cleaning({})
  /\ pc = "idle" /\ state = "accepted" =>
       /\ Split(accepted, {}, skipped) /\ finalizing = {}
       /\ visible = accepted /\ cursors = accepted /\ held = accepted
  /\ pc \in {"unlist", "mark"} =>
       /\ Split(cursors, {}, skipped) /\ visible = cursors /\ held = cursors
       /\ finalizing = cursors
  /\ pc = "unlist" => accepted = cursors
  /\ pc = "mark" => accepted = {}
  /\ state = "sealed" =>
       /\ Split(cursors, {}, skipped) /\ visible = cursors /\ accepted = {}
       /\ IF pc = "finalize" THEN held \subseteq todo \cup kept /\ todo \cup kept \subseteq cursors
                             ELSE held \subseteq finalizing /\ finalizing \subseteq cursors
  /\ pc = "idle" /\ state \in {"rejected", "failed"} =>
       /\ visible \subseteq dirty /\ held \subseteq dirty /\ cursors = {}
       /\ state = "rejected" => dirty = {}

\* Accounting holds until an interruption loses a local list.
UninterruptedAccounting == interrupts = 0 => Accounting
-----------------------------------------------------------------------------
(***************************************************************************)
(* What a caller sees between two method calls.                            *)
(***************************************************************************)
Outcome ==
  [state |-> state,
   public |-> CASE state \in {"accepted", "sealed"} -> cursors # {}
                [] state = "failed" -> visible # {}
                [] OTHER -> FALSE,
   unremoved |-> state = "failed" /\ dirty # {},
   unreleased |-> state = "sealed" /\ finalizing # {},
   recovered |-> recoveries # {}]

Contract == INSTANCE PublicationContract WITH txn <- Outcome

\* The transaction implements its contract: seen from outside, every method is
\* one atomic step with one of the outcomes the contract allows, as long as no
\* method is interrupted.
ImplementsContract ==
  Contract!Init /\ [][interrupts' = 0 => Contract!Next]_Outcome
=============================================================================
