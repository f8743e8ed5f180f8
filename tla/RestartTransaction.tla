-------------------------- MODULE RestartTransaction --------------------------
(***************************************************************************)
(* Restoring a checkpoint on all MPI ranks: restore_checkpoint_payload     *)
(* drives the restart transaction of the multi-layout executor and, inside *)
(* the same boundary, the Python envelope of the RuntimeInstance.  Every   *)
(* phase ends in a consensus on WORLD; begin, apply, commit and rollback   *)
(* of a layout are collective on the lane of that layout.                  *)
(*                                                                         *)
(* A state is abstracted to the number of the restore that installed it.   *)
(***************************************************************************)
EXTENDS Naturals, FiniteSets

CONSTANTS
    Ranks,
    NumLayouts,
    AMRLayouts,    \* layouts on an AmrSystem; the others are on a System
    MaxRestores,   \* bound: calls of _restore_checkpoint
    MaxFaults,     \* bound: operations that fail
    Torn, None

ASSUME RestartAssumption ==
    /\ IsFiniteSet(Ranks) /\ Ranks # {}
    /\ NumLayouts \in Nat \ {0} /\ AMRLayouts \subseteq 1..NumLayouts
    /\ {MaxRestores, MaxFaults} \subseteq Nat
    /\ Torn \notin Nat /\ None \notin Nat /\ Torn # None

VARIABLES
    goal,      \* number of the latest restore
    base,      \* history: the version that the latest restore started from
    alone,     \* history: ranks that raised between two collectives of the lanes
    phase,     \* rank -> phase of restore_checkpoint_payload
    stage,     \* rank -> "run" locally, or blocked on the "lane" or on "world"
    at,        \* rank -> layout of the running loop
    err,       \* rank -> the local phase raised
    native,    \* rank -> layout -> native state
    snap,      \* rank -> layout -> snapshot of the native transaction, or None
    sealed,    \* rank -> layouts whose native transaction is committed
    python,    \* rank -> layouts with a _checkpoint_restart_python_snapshot
    coord,     \* rank -> mapping evaluations and temporal state of the executor
    saved,     \* rank -> _checkpoint_restart_snapshot of those, or None
    outer,     \* rank -> cursors, diagnostics and run identity
    kept,      \* rank -> outer_snapshot of those
    broken,    \* rank -> layouts, and 0 for outer, whose rollback raised
    faults     \* failed operations so far

engine == <<native, snap, sealed, python>>
coordinator == <<coord, saved>>
envelope == <<outer, kept>>
vars == <<goal, base, alone, phase, stage, at, err, engine, coordinator, envelope, broken, faults>>

Layouts == 1..NumLayouts
Resting == \A r \in Ranks : phase[r] \in {"idle", "returned", "raised"}

Init ==
    /\ goal = 0 /\ base = 0 /\ alone = {} /\ faults = 0
    /\ phase = [r \in Ranks |-> "idle"] /\ stage = [r \in Ranks |-> "run"]
    /\ at = [r \in Ranks |-> 1] /\ err = [r \in Ranks |-> FALSE]
    /\ native = [r \in Ranks |-> [l \in Layouts |-> 0]]
    /\ snap = [r \in Ranks |-> [l \in Layouts |-> None]]
    /\ sealed = [r \in Ranks |-> {}] /\ python = [r \in Ranks |-> {}]
    /\ coord = [r \in Ranks |-> 0] /\ saved = [r \in Ranks |-> None]
    /\ outer = [r \in Ranks |-> 0] /\ kept = [r \in Ranks |-> 0]
    /\ broken = [r \in Ranks |-> {}]

\* n operations fail in this step, within the bound.
Fail(n) == faults + n <= MaxFaults /\ faults' = faults + n
MayFail(fails) == Fail(IF fails THEN 1 ELSE 0)

Runs(r, p) == phase[r] = p /\ stage[r] = "run"
Waits(r, where) == stage' = [stage EXCEPT ![r] = where]
Raises(r, fails) == err' = [err EXCEPT ![r] = fails]

\* Every rank of the program calls _restore_checkpoint.
Call ==
    /\ Resting /\ goal < MaxRestores
    /\ goal' = goal + 1 /\ alone' = {}
    /\ base' = IF \A r \in Ranks : phase[r] = "returned" THEN goal ELSE base
    /\ phase' = [r \in Ranks |-> "policy"]
    /\ UNCHANGED <<stage, at, err, engine, coordinator, envelope, broken, faults>>

-----------------------------------------------------------------------------
(* The consensus that ends every phase.                                    *)

\* The phase that follows when no rank reported an error.
Succeeds ==
    [policy |-> "protocol", protocol |-> "preflight", preflight |-> "prepareOuter",
     prepareOuter |-> "begin", begin |-> "apply", apply |-> "publish",
     publish |-> "commit", commit |-> "finalize",
     rollbackOuter |-> "rollback", rollback |-> "raised"]

\* The compensation that follows when one did.  A failed commit does not withdraw
\* the envelope.
Fails_Fault ==
    [p \in DOMAIN Succeeds |->
        CASE p \in {"policy", "protocol", "preflight", "prepareOuter", "rollback"} -> "raised"
          [] p = "publish" -> "rollbackOuter"
          [] OTHER -> "rollback"]

Fails ==
    [p \in DOMAIN Succeeds |->
        CASE p \in {"policy", "protocol", "preflight", "prepareOuter", "rollback"} -> "raised"
          [] p \in {"publish", "commit"} -> "rollbackOuter"
          [] OTHER -> "rollback"]

\* A rank whose begin failed has undone it and goes straight to the consensus on the
\* begin rollback.
Undone(r) == phase[r] = "begin" /\ err[r]

\* All ranks gather their rows.  Policies and restart evidence are also compared, and
\* every rank finds the same difference.
Consensus ==
    /\ \A r \in Ranks : stage[r] = "world"
    /\ \E differ \in BOOLEAN :
         /\ differ => \A r \in Ranks : phase[r] \in {"policy", "apply"}
         /\ MayFail(differ)
         /\ LET failed == differ \/ \E r \in Ranks : err[r]
                next(r) == IF failed THEN Fails[phase[r]] ELSE Succeeds[phase[r]]
            IN  /\ phase' = [r \in Ranks |-> next(r)]
                /\ stage' = [r \in Ranks |-> IF failed /\ Undone(r) THEN "world" ELSE "run"]
                /\ at' = [r \in Ranks |-> IF next(r) = "rollback" THEN NumLayouts ELSE 1]
    /\ err' = [r \in Ranks |-> FALSE]
    /\ UNCHANGED <<goal, base, alone, engine, coordinator, envelope, broken>>

-----------------------------------------------------------------------------
(* Local phases.                                                           *)

\* Policy, provider protocol and preflight read and validate.
Validate(r) ==
    /\ \E p \in {"policy", "protocol", "preflight"} : Runs(r, p)
    /\ \E fails \in BOOLEAN : MayFail(fails) /\ Raises(r, fails)
    /\ Waits(r, "world")
    /\ UNCHANGED <<goal, base, alone, phase, at, engine, coordinator, envelope, broken>>

\* The failing rank raises at once.
PrepareOuterState_Fault(r) ==
    /\ Runs(r, "prepareOuter")
    /\ \E fails \in BOOLEAN :
         /\ MayFail(fails)
         /\ kept' = IF fails THEN kept ELSE [kept EXCEPT ![r] = outer[r]]
         /\ phase' = IF fails THEN [phase EXCEPT ![r] = "raised"] ELSE phase
         /\ stage' = IF fails THEN stage ELSE [stage EXCEPT ![r] = "world"]
    /\ UNCHANGED <<goal, base, alone, at, err, engine, coordinator, outer, broken>>

PrepareOuterState(r) ==
    /\ Runs(r, "prepareOuter")
    /\ \E fails \in BOOLEAN :
         /\ MayFail(fails) /\ Raises(r, fails)
         /\ kept' = IF fails THEN kept ELSE [kept EXCEPT ![r] = outer[r]]
    /\ Waits(r, "world")
    /\ UNCHANGED <<goal, base, alone, phase, at, engine, coordinator, outer, broken>>

RestoreOuterState(r) ==
    /\ Runs(r, "publish")
    /\ \E fails \in BOOLEAN :
         /\ MayFail(fails) /\ Raises(r, fails)
         /\ outer' = [outer EXCEPT ![r] = IF fails THEN Torn ELSE goal]
    /\ Waits(r, "world")
    /\ UNCHANGED <<goal, base, alone, phase, at, engine, coordinator, kept, broken>>

RollbackOuterState(r) ==
    /\ Runs(r, "rollbackOuter")
    /\ \E fails \in BOOLEAN :
         /\ MayFail(fails) /\ Raises(r, fails)
         /\ outer' = [outer EXCEPT ![r] = IF fails THEN Torn ELSE kept[r]]
         /\ broken' = IF fails THEN [broken EXCEPT ![r] = @ \cup {0}] ELSE broken
    /\ Waits(r, "world")
    /\ UNCHANGED <<goal, base, alone, phase, at, engine, coordinator, kept>>

-----------------------------------------------------------------------------
(* Begin, apply and commit go through the layouts in order.                *)

\* Rank r may raise here, where nothing tells its peers on the lane.
Strays(r, fails) ==
    /\ MayFail(fails)
    /\ alone' = IF fails THEN alone \cup {r} ELSE alone

\* _begin_checkpoint_restart of the executor, then of its child (whose own guard never
\* finds a snapshot: RestoreIsAtomic leaves none between calls): the Python snapshots
\* are taken before the native call.  Where the receipt cannot be prepared the rank
\* starts to undo on its own.
BeginChild(r) ==
    LET l == at[r] IN
    /\ Runs(r, "begin")
    /\ IF l = 1 /\ saved[r] # None
         THEN Raises(r, TRUE) /\ Waits(r, "world") /\ UNCHANGED <<phase, python, saved, alone, faults>>
         ELSE \E fails \in BOOLEAN :
              /\ Strays(r, fails)
              /\ saved' = IF l = 1 THEN [saved EXCEPT ![r] = coord[r]] ELSE saved
              /\ python' = IF fails THEN python ELSE [python EXCEPT ![r] = @ \cup {l}]
              /\ phase' = IF fails THEN [phase EXCEPT ![r] = "undo"] ELSE phase
              /\ stage' = IF fails THEN stage ELSE [stage EXCEPT ![r] = "lane"]
              /\ UNCHANGED err
    /\ UNCHANGED <<goal, base, at, native, snap, sealed, coord, envelope, broken>>

\* The writes of _apply_checkpoint_restart that a rank makes on its own: set_state,
\* set_potential and, after the collective restoration of the layout before, its cadence,
\* clock, histories and caches.  One that raises takes the rank to the consensus.
ApplyChild(r) ==
    /\ Runs(r, "apply") /\ at[r] <= NumLayouts
    /\ native' = [native EXCEPT ![r][at[r]] = Torn]
    /\ \E fails \in BOOLEAN :
         /\ Strays(r, fails) /\ Raises(r, fails)
         /\ Waits(r, IF fails THEN "world" ELSE "lane")
    /\ UNCHANGED <<goal, base, phase, at, snap, sealed, python, coordinator, envelope, broken>>

\* After the last child: mapping evaluations and the composite temporal state.
ApplyCoordinator(r) ==
    /\ Runs(r, "apply") /\ at[r] > NumLayouts
    /\ \E fails \in BOOLEAN :
         /\ MayFail(fails) /\ Raises(r, fails)
         /\ coord' = [coord EXCEPT ![r] = IF fails THEN Torn ELSE goal]
    /\ Waits(r, "world")
    /\ UNCHANGED <<goal, base, alone, phase, at, engine, saved, envelope, broken>>

CommitChild(r) ==
    /\ Runs(r, "commit")
    /\ Waits(r, "lane")
    /\ UNCHANGED <<goal, base, alone, phase, at, err, engine, coordinator, envelope, broken, faults>>

\* All ranks are in a native call on the lane of layout l.
Meet(l, phases) == \A r \in Ranks : stage[r] = "lane" /\ at[r] = l /\ phase[r] \in phases

\* The loop continues with the next layout; a loop of native calls ends in the
\* consensus, apply in the coordinator's own work.
Onward(l) ==
    /\ at' = [r \in Ranks |-> l + 1]
    /\ stage' = [r \in Ranks |-> IF l = NumLayouts /\ phase[r] # "apply" THEN "world" ELSE "run"]
    /\ UNCHANGED <<phase, err>>

\* The native call failed on all ranks: the phase raised.
Stops == /\ stage' = [r \in Ranks |-> "world"]
         /\ err' = [r \in Ranks |-> TRUE]
         /\ UNCHANGED <<phase, at>>

\* The transaction is refused while one rank has one open; the snapshot is prepared
\* on all ranks or on none.  After a failure the executor undoes what it began.
BeginRefused(l) == \E r \in Ranks : snap[r][l] # None

NativeBegin(l) ==
    /\ Meet(l, {"begin"})
    /\ \E fails \in BOOLEAN :
         /\ MayFail(fails)
         /\ IF fails \/ BeginRefused(l)
              THEN /\ python' = [r \in Ranks |-> python[r] \ {l}]
                   /\ phase' = [r \in Ranks |-> "undo"] /\ stage' = [r \in Ranks |-> "run"]
                   /\ UNCHANGED <<snap, at, err>>
              ELSE /\ snap' = [r \in Ranks |-> [snap[r] EXCEPT ![l] = native[r][l]]]
                   /\ Onward(l) /\ UNCHANGED python
    /\ UNCHANGED <<goal, base, alone, native, sealed, coordinator, envelope, broken>>

\* The part of the restoration that the ranks agree on: the auxiliary state and the
\* accepted exchanges.
NativeApply(l) ==
    /\ Meet(l, {"apply"})
    /\ \E fails \in BOOLEAN :
         /\ MayFail(fails)
         /\ IF fails THEN Stops /\ UNCHANGED native
            ELSE Onward(l) /\ native' = [r \in Ranks |-> [native[r] EXCEPT ![l] = goal]]
    /\ UNCHANGED <<goal, base, alone, snap, sealed, python, coordinator, envelope, broken>>

NativeCommit(l) ==
    /\ Meet(l, {"commit"})
    /\ \E fails \in BOOLEAN :
         /\ MayFail(fails)
         /\ IF fails \/ \E r \in Ranks : snap[r][l] = None \/ l \in sealed[r]
              THEN Stops /\ UNCHANGED sealed
              ELSE Onward(l) /\ sealed' = [r \in Ranks |-> sealed[r] \cup {l}]
    /\ UNCHANGED <<goal, base, alone, native, snap, python, coordinator, envelope, broken>>

-----------------------------------------------------------------------------
(* Rollback goes through the layouts in reverse and collects the errors:   *)
(* "undo" in the handler of the executor's begin, "rollback" afterwards.   *)

\* A child without a Python snapshot raises before its native call.
RollbackChild(r) ==
    /\ (Runs(r, "undo") \/ Runs(r, "rollback")) /\ at[r] > 0
    /\ IF at[r] \in python[r]
         THEN Waits(r, "lane") /\ UNCHANGED <<at, err>>
         ELSE at' = [at EXCEPT ![r] = @ - 1] /\ Raises(r, TRUE) /\ UNCHANGED stage
    /\ UNCHANGED <<goal, base, alone, phase, engine, coordinator, envelope, broken, faults>>

\* Restoring a snapshot may fail on the ranks in F.  An AmrSystem agrees on that and
\* keeps the transaction on every rank, a System keeps it where it failed, with the
\* attempt's carrier swapped into the snapshot.
Keeping(l, F) == IF l \in AMRLayouts /\ F # {} THEN Ranks ELSE F

Remaining(l, raised) == l - 1

NativeRollback(l) ==
    /\ Meet(l, {"undo", "rollback"})
    /\ python' = [r \in Ranks |-> python[r] \ {l}]
    /\ IF \E r \in Ranks : snap[r][l] = None
         THEN /\ err' = [r \in Ranks |-> TRUE]
              /\ UNCHANGED <<native, snap, sealed, broken, faults>>
         ELSE \E F \in SUBSET Ranks :
              /\ Fail(Cardinality(F))
              /\ native' = [r \in Ranks |-> [native[r] EXCEPT ![l] = IF r \in F THEN Torn ELSE snap[r][l]]]
              /\ snap' = [r \in Ranks |-> [snap[r] EXCEPT ![l] =
                              IF r \notin Keeping(l, F) THEN None ELSE IF l \in AMRLayouts THEN @ ELSE Torn]]
              /\ sealed' = [r \in Ranks |-> IF r \in F /\ l \notin AMRLayouts
                                            THEN sealed[r] ELSE sealed[r] \ {l}]
              /\ broken' = [r \in Ranks |-> broken[r] \cup (IF r \in Keeping(l, F) THEN {l} ELSE {})]
              /\ err' = [r \in Ranks |-> err[r] \/ r \in Keeping(l, F)]
    /\ at' = [r \in Ranks |-> Remaining(l, err'[r])] /\ stage' = [r \in Ranks |-> "run"]
    /\ UNCHANGED <<goal, base, alone, phase, coordinator, envelope>>

\* Whatever the children did, the executor restores its own snapshot.
RollbackCoordinator(r) ==
    /\ (Runs(r, "undo") \/ Runs(r, "rollback")) /\ at[r] = 0
    /\ coord' = [coord EXCEPT ![r] = saved[r]] /\ saved' = [saved EXCEPT ![r] = None]
    /\ phase' = [phase EXCEPT ![r] = IF @ = "undo" THEN "begin" ELSE @]
    /\ Raises(r, phase[r] = "undo" \/ err[r])
    /\ Waits(r, "world")
    /\ UNCHANGED <<goal, base, alone, at, engine, envelope, broken, faults>>

-----------------------------------------------------------------------------
\* The native release does nothing unless its transaction is committed.
Finalize(r) ==
    LET l == at[r] IN
    /\ Runs(r, "finalize")
    /\ snap' = IF l \in sealed[r] THEN [snap EXCEPT ![r][l] = None] ELSE snap
    /\ sealed' = [sealed EXCEPT ![r] = @ \ {l}]
    /\ python' = [python EXCEPT ![r] = @ \ {l}]
    /\ at' = [at EXCEPT ![r] = l + 1]
    /\ IF l < NumLayouts THEN UNCHANGED <<phase, saved, broken>>
       ELSE /\ phase' = [phase EXCEPT ![r] = "returned"]
            /\ saved' = [saved EXCEPT ![r] = None]
            /\ broken' = [broken EXCEPT ![r] = @ \ {0}]
    /\ UNCHANGED <<goal, base, alone, stage, err, native, coord, envelope, faults>>

Local(r) ==
    \/ Validate(r) \/ PrepareOuterState(r) \/ RestoreOuterState(r) \/ RollbackOuterState(r)
    \/ BeginChild(r) \/ ApplyChild(r) \/ ApplyCoordinator(r) \/ CommitChild(r)
    \/ RollbackChild(r) \/ RollbackCoordinator(r) \/ Finalize(r)

Collective ==
    \/ Consensus
    \/ \E l \in Layouts : NativeBegin(l) \/ NativeApply(l) \/ NativeCommit(l) \/ NativeRollback(l)

Restore == Collective \/ \E r \in Ranks : Local(r)
Next == Call \/ Restore

Spec == Init /\ [][Next]_vars

\* Every rank keeps executing the call it is in, and a collective that all ranks have
\* entered completes.
FairSpec == Spec /\ WF_vars(Collective) /\ \A r \in Ranks : WF_vars(Local(r))

-----------------------------------------------------------------------------
Versions == Nat \cup {Torn}

\* Every part holds the state of a restore or is torn; the loops stay within the
\* layouts, and a snapshot is never that of a transaction nobody opened.
TypeOK ==
    /\ {goal, base} \subseteq 0..MaxRestores /\ alone \subseteq Ranks /\ faults \in 0..MaxFaults
    /\ phase \in [Ranks -> DOMAIN Succeeds \cup {"idle", "undo", "finalize", "returned", "raised"}]
    /\ stage \in [Ranks -> {"run", "lane", "world"}]
    /\ at \in [Ranks -> 0..NumLayouts + 1] /\ err \in [Ranks -> BOOLEAN]
    /\ native \in [Ranks -> [Layouts -> Versions]]
    /\ snap \in [Ranks -> [Layouts -> Versions \cup {None}]]
    /\ sealed \in [Ranks -> SUBSET Layouts] /\ python \in [Ranks -> SUBSET Layouts]
    /\ coord \in [Ranks -> Versions] /\ saved \in [Ranks -> Versions \cup {None}]
    /\ outer \in [Ranks -> Versions] /\ kept \in [Ranks -> Versions]
    /\ broken \in [Ranks -> SUBSET (0..NumLayouts)]

\* All ranks hold version v in every part, with no transaction left open, apart from
\* the parts whose rollback raised.
Holds(v) ==
    \A r \in Ranks :
        /\ coord[r] = v /\ saved[r] = None /\ python[r] = {}
        /\ outer[r] = v \/ 0 \in broken[r]
        /\ \A l \in Layouts \ broken[r] : native[r][l] = v /\ snap[r][l] = None /\ l \notin sealed[r]

\* A restore is atomic over ranks, layouts and the Python envelope: it returns on all
\* ranks with the checkpoint in every part and no transaction open, or raises on all of
\* them with the state before it in every part that could be rolled back.  A layout
\* whose rollback failed is never taken for restored by a later call.
RestoreIsAtomic ==
    Resting =>
        \/ \A r \in Ranks : phase[r] = "returned" /\ broken[r] = {} /\ Holds(goal)
        \/ (\A r \in Ranks : phase[r] \in {"idle", "raised"}) /\ Holds(base)

\* Some ranks have left for the consensus on their own and their peers have not.
Parted == alone # {} /\ alone # Ranks

\* Every restore comes back on every rank, whatever fails and is rolled back in it,
\* unless some ranks raise alone between two collectives of the lanes: their peers
\* then wait on a lane for good.
RestartReturns == []<>Resting \/ <>[]Parted
=============================================================================
