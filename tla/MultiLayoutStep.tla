-------------------------- MODULE MultiLayoutStep ---------------------------
(***************************************************************************)
(* One accepted step over several layouts: _MultiLayoutUniformExecutor     *)
(* (python/pops/runtime/_multi_layout_executor.py) drives one native       *)
(* System per layout and one transfer session per mapping inside the step  *)
(* envelope of RuntimeInstance.  Native calls are collective and are taken *)
(* to raise on all ranks or on none, so one process stands for the ranks.  *)
(*                                                                         *)
(* The state of a layout is abstracted to what it was computed from: the   *)
(* accepted step, the mappings written into it since, and the regions of   *)
(* its Program that have run.  A step in which the cadence is due runs the *)
(* Program once per substep, and meets its ports again in each; in the     *)
(* other steps of a stride no Program runs.                                *)
(***************************************************************************)
EXTENDS Naturals, Sequences, FiniteSets

CONSTANTS
  NumLayouts,   \* layouts, in the order of _engines and of their names
  Plans,        \* the mappings and Programs an instance may be built with
  MaxSteps,     \* bound: accepted steps
  MaxCalls,     \* bound: calls that were not accepted
  RetryBudget,  \* retry_budget of the step controller
  MaxFaults,    \* bound: native operations that fail
  Torn, None

ASSUME MultiLayoutAssumption ==
  /\ {NumLayouts, MaxSteps, MaxCalls, RetryBudget, MaxFaults} \subseteq Nat
  /\ None \notin Nat /\ Torn # None
  /\ {Torn, None} \cap [step : Nat, mapped : SUBSET (Nat \X Nat), regions : Nat] = {}

Layouts == 1 .. NumLayouts
Over == 0  \* the False of a completed Program

\* program_map_invocations and the binding of the routes: a Program map is a port
\* of some Program and belongs to the peers it is a port of, and a mapping may have
\* several of them; mappings other than physical ones are before-step.  A port
\* <<r, k>> is met in substep k, once in each substep.
ASSUME PlansAssumption ==
  \A p \in Plans :
    /\ p.routes \in Seq([source : Layouts, target : Layouts, map : Nat,
                         sync : {"before", "after", "stage"}])
    /\ p.program \in [Layouts -> Seq((DOMAIN p.routes) \X (Nat \ {0}))]
    /\ p.stride \in Nat \ {0}
    /\ p.physical \in BOOLEAN
    /\ None \notin [{p.routes[r].map : r \in DOMAIN p.routes} -> Nat]
    /\ \A l \in Layouts : \A i \in DOMAIN p.program[l] :
         LET r == p.program[l][i][1]
             k == p.program[l][i][2]
         IN /\ p.routes[r].sync = "stage"
            /\ l \in {p.routes[r].source, p.routes[r].target}
            /\ k > 1 => \E j \in 1 .. (i - 1) : p.program[l][j] = <<r, k - 1>>
            /\ \A j \in 1 .. (i - 1) : p.program[l][j] # <<r, k>>
    /\ \A r \in DOMAIN p.routes :
         /\ p.routes[r].sync = "after" => p.physical
         /\ p.routes[r].sync = "stage" =>
              \E l \in Layouts : \E i \in DOMAIN p.program[l] : p.program[l][i][1] = r

VARIABLES
  plan,        \* routes, ports of the Programs over all substeps, stride of the
               \* cadence and whether a physical mapping is among the routes
  schedule,    \* _physical_mapping_schedule: the events of each round
  pc, todo,    \* next statement, what its loop has left: layouts, routes or operations
  raised,      \* class of the exception in flight: "none", "reject", "fail"
  calls, steps, tries, faults,
  val,         \* layout -> native state
  txn,         \* layout -> external_step_transaction_: the snapshot or None
  committed,   \* layout -> external_step_transaction_committed_
  port,        \* layout -> route its Program is suspended at, or None
  swapped,     \* layouts whose provider carrier may be that of an attempt that failed
  session,     \* route -> PreparedSystemLayoutTransfer
  generation, active, attempt,  \* _transfer_generation and so on
  counts,      \* mapping -> _mapping_evaluations
  saved,       \* _mapping_snapshot or None
  captured,    \* captured_routes of step()
  receipts,    \* route -> receipts it has in the list of step()
  waiting,     \* layout -> None runnable, the route it is suspended at, or Over
  after,       \* pending_after
  progress,
  fires        \* history: accepted steps in which the Programs ran

setup == <<plan, schedule>>
native == <<val, txn, committed, port, swapped>>
coordinator == <<generation, active, attempt, counts, saved>>
locals == <<captured, receipts, waiting, after, progress>>
bounds == <<calls, steps, tries, fires>>
vars == <<setup, pc, todo, raised, bounds, faults, native, session,
          coordinator, locals>>

Route == plan.routes
Routes == DOMAIN plan.routes
Stage == {r \in Routes : Route[r].sync = "stage"}
Accepted == {r \in Routes : Route[r].sync = "before"}
After == {r \in Routes : Route[r].sync = "after"}
Into(l) == {r \in Routes : Route[r].target = l}
Mappings == {Route[r].map : r \in Routes}

\* prepare_cadence_step: the ports that the Program of a layout meets in this step.
CadenceDue == (steps + 1) % plan.stride = 0
Ports(l) == IF CadenceDue THEN plan.program[l] ELSE <<>>

\* The loops take routes and layouts in order, or in reverse.
First(i) == i \in todo /\ \A j \in todo : i <= j
Last(i) == i \in todo /\ \A j \in todo : j <= i

Base(n) == [step |-> n, mapped |-> {}, regions |-> 0]
Complete(v, l) == v # Torn /\ v.regions = Len(Ports(l)) + 1
Idle == [active |-> None, captured |-> 0, applied |-> FALSE, last |-> 0,
         copy |-> None]

Init ==
  /\ plan \in Plans
  /\ schedule = <<>>
  /\ pc = "construct" /\ todo = {} /\ raised = "none"
  /\ calls = 0 /\ steps = 0 /\ tries = 0 /\ faults = 0
  /\ val = [l \in Layouts |-> Base(0)] /\ txn = [l \in Layouts |-> None]
  /\ committed = [l \in Layouts |-> FALSE] /\ port = [l \in Layouts |-> None]
  /\ swapped = {} /\ fires = 0
  /\ session = [r \in Routes |-> Idle]
  /\ generation = 0 /\ active = None /\ attempt = 0
  /\ counts = [m \in Mappings |-> 0] /\ saved = None
  /\ captured = {} /\ receipts = [r \in Routes |-> 0]
  /\ waiting = [l \in Layouts |-> None] /\ after = {} /\ progress = FALSE

MayFail(fails) ==
  /\ fails => faults < MaxFaults
  /\ faults' = IF fails THEN faults + 1 ELSE faults

Goto(p, work) == pc' = p /\ todo' = work
Raise(class, p, work) == raised' = class /\ Goto(p, work)
-----------------------------------------------------------------------------
(* The constructor orders the mappings at step boundaries once.            *)

\* physical_mapping_schedule: what an event needs, and the events emitted so far.
Events == {<<"apply", r>> : r \in Routes \ Stage} \cup {<<"step", l>> : l \in Layouts}
Needs(e) ==
  IF e[1] = "step" THEN {<<"apply", r>> : r \in Into(e[2]) \ Stage}
  ELSE IF e[2] \in After THEN {<<"step", Route[e[2]].source>>} ELSE {}
Emitted == UNION {schedule[n] : n \in DOMAIN schedule}
Ready == {e \in Events \ Emitted : Needs(e) \subseteq Emitted}

\* A cycle refuses the construction.
Schedule ==
  /\ pc = "construct"
  /\ CASE ~plan.physical \/ Emitted = Events -> Goto("idle", {}) /\ UNCHANGED schedule
       [] plan.physical /\ Ready # {} ->
            schedule' = Append(schedule, Ready) /\ UNCHANGED <<pc, todo>>
       [] OTHER -> Goto("refused", {}) /\ UNCHANGED schedule
  /\ UNCHANGED <<plan, raised, bounds, faults, native, session, coordinator, locals>>
-----------------------------------------------------------------------------
(* Native transactions of one layout.                                      *)

\* begin_step_transaction: refused inside a transaction, and when a rank cannot
\* take the snapshot.
Begins(l, fails) ==
  /\ fails = FALSE => txn[l] = None
  /\ txn' = IF fails THEN txn ELSE [txn EXCEPT ![l] = val[l]]
  /\ committed' = IF fails THEN committed ELSE [committed EXCEPT ![l] = FALSE]
  /\ IF txn[l] # None THEN faults' = faults ELSE MayFail(fails)
  /\ UNCHANGED <<val, port, swapped>>

RollsBack_Fault(l, fails) ==
  /\ txn[l] = None => fails
  /\ IF txn[l] = None THEN faults' = faults /\ UNCHANGED <<native>>
     ELSE /\ MayFail(fails)
          /\ port' = [port EXCEPT ![l] = None]
          /\ val' = [val EXCEPT ![l] = IF fails THEN Torn ELSE txn[l]]
          /\ txn' = [txn EXCEPT ![l] = None]
          /\ committed' = [committed EXCEPT ![l] = FALSE]
          /\ swapped' = swapped

\* rollback_step_transaction raises without a transaction.  When the restoration
\* itself raises, the snapshot is kept, but not as it was: AcceptedSnapshot::restore
\* exchanges the provider carrier with it, and copies everything else.
RollsBack(l, fails) ==
  /\ txn[l] = None => fails
  /\ IF txn[l] = None THEN faults' = faults /\ UNCHANGED <<native>>
     ELSE /\ MayFail(fails)
          /\ port' = [port EXCEPT ![l] = None]
          /\ val' = [val EXCEPT ![l] = IF fails THEN Torn ELSE txn[l]]
          /\ txn' = [txn EXCEPT ![l] = IF fails THEN @ ELSE None]
          /\ committed' = [committed EXCEPT ![l] = fails /\ @]
          /\ swapped' = IF fails THEN swapped \cup {l} ELSE swapped
-----------------------------------------------------------------------------
(* _begin_step_transaction of the coordinator.                             *)

\* _accepted_step_transaction_body enters the native begin.
Call ==
  /\ pc = "idle" /\ steps < MaxSteps /\ calls < MaxCalls
  /\ saved' = counts /\ raised' = "none"
  /\ Goto("begin", Layouts)
  /\ UNCHANGED <<setup, bounds, faults, native, session, generation, active,
                 attempt, counts, locals>>

BeginEngine ==
  /\ pc = "begin"
  /\ \E l \in todo, fails \in BOOLEAN :
       /\ First(l) /\ Begins(l, fails)
       /\ IF fails THEN Raise("fail", "undo", 1 .. (l - 1))
                   ELSE Goto("begin", todo \ {l}) /\ raised' = raised
  /\ UNCHANGED <<setup, bounds, session, coordinator, locals>>

\* A session begins when it is not active and the generation is a new one.  One
\* that refuses sends those before it back through rollback_transaction.
BeginSessions ==
  /\ pc = "begin" /\ todo = {}
  /\ generation' = generation + 1
  /\ LET refusing == {r \in Routes : session[r].active # None
                                      \/ generation' <= session[r].last}
     IN IF refusing = {}
       THEN /\ session' = [r \in Routes |-> [session[r] EXCEPT !.active = generation']]
            /\ active' = generation' /\ attempt' = 0
            /\ Goto("attempt", {}) /\ raised' = raised
       ELSE /\ session' = [r \in Routes |->
                             IF \E q \in refusing : q <= r THEN session[r]
                             ELSE [session[r] EXCEPT !.last = generation']]
            /\ Raise("fail", "undo", Layouts)
            /\ UNCHANGED <<active, attempt>>
  /\ UNCHANGED <<setup, bounds, faults, native, counts, saved, locals>>

\* The handler of a failed begin; a rollback that raises leaves it early.
UndoBegin ==
  /\ pc = "undo"
  /\ \E l \in todo, fails \in BOOLEAN :
       /\ Last(l) /\ RollsBack(l, fails)
       /\ IF fails THEN Goto("rollback", Layouts) ELSE Goto("undo", todo \ {l})
  /\ UNCHANGED <<setup, raised, bounds, session, coordinator, locals>>

UndoneBegin ==
  /\ pc = "undo" /\ todo = {}
  /\ active' = None /\ attempt' = 0 /\ saved' = None
  /\ Goto("rollback", Layouts)
  /\ UNCHANGED <<setup, raised, bounds, faults, native, session, generation,
                 counts, locals>>
-----------------------------------------------------------------------------
(* Transfer sessions and child steps inside step().                        *)

\* validate_active
Valid(r) ==
  /\ session[r].active # None /\ session[r].active = active
  /\ \A l \in {Route[r].source, Route[r].target} :
       txn[l] # None /\ ~committed[l]

\* program_map_fields: both peers are suspended at this invocation, in the same
\* substep.
AtPort(r) ==
  LET s == Route[r].source
      t == Route[r].target
  IN r \in Stage =>
       /\ port[s] = r /\ port[t] = r
       /\ Ports(s)[val[s].regions] = Ports(t)[val[t].regions]

Captures(r) ==
  /\ Valid(r) /\ AtPort(r)
  /\ session[r].applied => Route[r].sync = "stage"
  /\ session[r].captured \in {0, attempt}

Applies(r) ==
  Valid(r) /\ AtPort(r) /\ session[r].captured = attempt /\ ~session[r].applied

\* capture() copies the source; the executor then lists the route.
Capture(r) ==
  /\ session' = [session EXCEPT ![r].captured = attempt, ![r].applied = FALSE,
                                ![r].copy = val[Route[r].source]]
  /\ captured' = captured \cup {r}

\* apply() writes the target and releases the two ports of a Program map; the
\* executor keeps the receipt.
Apply(r) ==
  /\ session' = [session EXCEPT ![r].applied = TRUE]
  /\ receipts' = [receipts EXCEPT ![r] = @ + 1]
  /\ val' = [val EXCEPT ![Route[r].target].mapped = @ \cup {<<r, receipts[r] + 1>>}]
  /\ port' = [l \in Layouts |-> IF r \in Stage /\ port[l] = r THEN None ELSE port[l]]

\* An operation raised: a rejection is undone by step() itself, any other
\* exception leaves it to the envelope.
Escape(class) ==
  IF class = "reject" THEN Raise(class, "reject", {})
                      ELSE Raise(class, "rollback", Layouts)

\* The operations of one attempt up to the passes over Program maps: ordinary
\* mappings are simultaneous, physical ones follow the schedule, in which a map
\* captures first unless its source is captured at the start of the attempt.
Each(n, op, S) == {<<n, op, i>> : i \in S}
Round(n) ==
  LET maps == {r \in Routes : <<"apply", r>> \in schedule[n]}
  IN Each(n, "capture", maps \cap After) \cup Each(n, "apply", maps)
       \cup Each(n, "step", {l \in Layouts : <<"step", l>> \in schedule[n]})
Script ==
  IF Stage # {} THEN Each(0, "capture", Accepted) \cup Each(1, "apply", Accepted)
  ELSE IF plan.physical
    THEN Each(0, "capture", Accepted) \cup UNION {Round(n) : n \in DOMAIN schedule}
  ELSE Each(0, "capture", Routes) \cup Each(1, "apply", Routes)
         \cup Each(2, "step", Layouts)

\* The order of operations <<round, kind, route or layout>>: a round has its maps
\* before its steps.
Earlier(a, b) ==
  \/ a[1] < b[1]
  \/ a[1] = b[1] /\ a[2] # "step" /\ b[2] = "step"
  \/ a[1] = b[1] /\ (a[2] = "step" <=> b[2] = "step") /\ a[3] < b[3]
  \/ a[1] = b[1] /\ a[3] = b[3] /\ a[2] = "capture" /\ b[2] = "apply"
Due(op) == op \in todo /\ \A other \in todo : ~Earlier(other, op)

\* step() counts the attempt.
Attempt ==
  /\ pc = "attempt"
  /\ attempt' = attempt + 1
  /\ captured' = {} /\ receipts' = [r \in Routes |-> 0]
  /\ after' = After /\ progress' = TRUE /\ waiting' = [l \in Layouts |-> None]
  /\ Goto("script", Script)
  /\ UNCHANGED <<setup, raised, bounds, faults, native, session, generation,
                 active, counts, saved>>

CaptureOp ==
  /\ pc = "script"
  /\ \E op \in todo, fails \in BOOLEAN : LET r == op[3] IN
       /\ Due(op) /\ op[2] = "capture" /\ MayFail(fails)
       /\ IF fails \/ ~Captures(r)
            THEN Escape("fail") /\ UNCHANGED <<session, captured>>
            ELSE Capture(r) /\ Goto("script", todo \ {op}) /\ raised' = raised
  /\ UNCHANGED <<setup, bounds, native, coordinator, receipts, waiting, after, progress>>

\* A provider that fails may have written part of the target.
ApplyOp ==
  /\ pc = "script"
  /\ \E op \in todo, fails \in BOOLEAN : LET r == op[3] IN
       /\ Due(op) /\ op[2] = "apply" /\ MayFail(fails)
       /\ IF fails \/ ~Applies(r)
            THEN /\ Escape("fail")
                 /\ val' = [val EXCEPT ![Route[r].target] = IF fails THEN Torn ELSE @]
                 /\ UNCHANGED <<session, receipts, port>>
            ELSE Apply(r) /\ Goto("script", todo \ {op}) /\ raised' = raised
  /\ UNCHANGED <<setup, bounds, txn, committed, swapped, coordinator, captured,
                 waiting, after, progress>>

\* System::step restores its own snapshot when it rejects; a failure of that
\* restoration is what is raised then.
StepOp ==
  /\ pc = "script"
  /\ \E op \in todo, class \in {"none", "reject", "fail"}, torn \in BOOLEAN :
     LET l == op[3] IN
       /\ Due(op) /\ op[2] = "step" /\ MayFail(class # "none")
       /\ torn => class = "fail"
       /\ IF class = "none"
            THEN /\ val' = [val EXCEPT ![l].regions = 1]
                 /\ Goto("script", todo \ {op}) /\ raised' = raised
            ELSE /\ Escape(class)
                 /\ val' = [val EXCEPT ![l] = IF torn THEN Torn ELSE @]
  /\ UNCHANGED <<setup, bounds, txn, committed, port, swapped, session, coordinator,
                 locals>>

ScriptDone ==
  /\ pc = "script" /\ todo = {}
  /\ Goto(IF Stage # {} THEN "pass" ELSE "advanced", {})
  /\ UNCHANGED <<setup, raised, bounds, faults, native, session, coordinator, locals>>
-----------------------------------------------------------------------------
(* execute_program_maps: passes over the layouts until all are complete.   *)

Finished_Fault == after = {}
Finished == after = {} /\ \A l \in Layouts : waiting[l] = Over

Stuck_Fault == FALSE
Stuck == ~Finished /\ ~progress

\* A pass first maps the sources that have completed their Program.
Pass ==
  /\ pc = "pass"
  /\ IF Finished THEN Goto("advanced", {}) /\ raised' = raised /\ progress' = progress
     ELSE IF Stuck THEN Escape("fail") /\ progress' = progress
     ELSE /\ Goto("after", {r \in after : waiting[Route[r].source] = Over})
          /\ raised' = raised /\ progress' = FALSE
  /\ UNCHANGED <<setup, bounds, faults, native, session, coordinator, captured,
                 receipts, waiting, after>>

\* Fault: a route that the attempt has captured is not captured again.
MapNow_Fault(r, fails) ==
  IF fails \/ ~Captures(r)
    THEN /\ Escape("fail")
         /\ val' = [val EXCEPT ![Route[r].target] = IF fails THEN Torn ELSE @]
         /\ UNCHANGED <<session, port, captured, receipts, waiting, after, progress>>
    ELSE /\ session' = [session EXCEPT ![r].captured = attempt, ![r].applied = TRUE,
                          ![r].copy = IF r \in captured THEN @ ELSE val[Route[r].source]]
         /\ captured' = captured \cup {r}
         /\ receipts' = [receipts EXCEPT ![r] = @ + 1]
         /\ val' = [val EXCEPT ![Route[r].target].mapped = @ \cup {<<r, receipts[r] + 1>>}]
         /\ port' = [l \in Layouts |-> IF r \in Stage /\ port[l] = r THEN None ELSE port[l]]
         /\ waiting' = [l \in Layouts |-> IF r \in Stage /\ waiting[l] = r THEN None
                                                                        ELSE waiting[l]]
         /\ after' = after \ {r} /\ progress' = TRUE
         /\ Goto(pc, todo \ {r}) /\ raised' = raised

\* The apply() of execute_program_maps: capture, apply and authenticate, at every
\* meeting of a Program map.
MapNow(r, fails) ==
  IF fails \/ ~Captures(r)
    THEN /\ Escape("fail")
         /\ val' = [val EXCEPT ![Route[r].target] = IF fails THEN Torn ELSE @]
         /\ UNCHANGED <<session, port, captured, receipts, waiting, after, progress>>
    ELSE /\ session' = [session EXCEPT ![r].captured = attempt, ![r].applied = TRUE,
                                       ![r].copy = val[Route[r].source]]
         /\ captured' = captured \cup {r}
         /\ receipts' = [receipts EXCEPT ![r] = @ + 1]
         /\ val' = [val EXCEPT ![Route[r].target].mapped = @ \cup {<<r, receipts[r] + 1>>}]
         /\ port' = [l \in Layouts |-> IF r \in Stage /\ port[l] = r THEN None ELSE port[l]]
         /\ waiting' = [l \in Layouts |-> IF r \in Stage /\ waiting[l] = r THEN None
                                                                        ELSE waiting[l]]
         /\ after' = after \ {r} /\ progress' = TRUE
         /\ Goto(pc, todo \ {r}) /\ raised' = raised

MapRoute ==
  /\ pc \in {"after", "ports"}
  /\ \E r \in todo, fails \in BOOLEAN : First(r) /\ MayFail(fails) /\ MapNow(r, fails)
  /\ UNCHANGED <<setup, bounds, txn, committed, swapped, coordinator>>

\* Targets of mappings that are still to come do not start their Program.
Blocked == {Route[r].target : r \in after}

StartRegions ==
  /\ pc = "after" /\ todo = {}
  /\ Goto("regions", {l \in Layouts \ Blocked : waiting[l] = None})
  /\ UNCHANGED <<setup, raised, bounds, faults, native, session, coordinator, locals>>

\* The port a Program stops at is a Program map of its layout.
Bound(l, stop) ==
  stop # None => stop \in Stage /\ l \in {Route[stop].source, Route[stop].target}

\* advance_program_region runs to the next port, from one substep into the next;
\* nothing restores the fields of a region that rejects.
Region ==
  /\ pc = "regions"
  /\ \E l \in todo, class \in {"none", "reject", "fail"} :
     LET n == val[l].regions + 1
         stop == IF n <= Len(Ports(l)) THEN Ports(l)[n][1] ELSE None
     IN   /\ First(l) /\ MayFail(class # "none")
          /\ IF class = "none" /\ Bound(l, stop)
               THEN /\ val' = [val EXCEPT ![l].regions = n]
                    /\ port' = [port EXCEPT ![l] = stop]
                    /\ waiting' = [waiting EXCEPT ![l] = IF stop = None THEN Over ELSE stop]
                    /\ progress' = TRUE
                    /\ Goto("regions", todo \ {l}) /\ raised' = raised
               ELSE /\ val' = [val EXCEPT ![l] = Torn]
                    /\ port' = [port EXCEPT ![l] = None]
                    /\ Escape(IF class = "none" THEN "fail" ELSE class)
                    /\ UNCHANGED <<waiting, progress>>
  /\ UNCHANGED <<setup, bounds, txn, committed, swapped, session, coordinator,
                 captured, receipts, after>>

\* Program maps both of whose peers wait for them.
StartPorts ==
  /\ pc = "regions" /\ todo = {}
  /\ Goto("ports", {r \in Stage : waiting[Route[r].source] = r
                               /\ waiting[Route[r].target] = r})
  /\ UNCHANGED <<setup, raised, bounds, faults, native, session, coordinator, locals>>

EndPass ==
  /\ pc = "ports" /\ todo = {}
  /\ Goto("pass", {})
  /\ UNCHANGED <<setup, raised, bounds, faults, native, session, coordinator, locals>>
-----------------------------------------------------------------------------
(* _restore_rejected_native_attempt                                        *)

\* reject_attempt of the captured routes; what it raises is collected.
RejectAttempt ==
  /\ pc = "reject"
  /\ LET resets == {r \in captured : Valid(r) /\ session[r].captured = attempt} IN
       /\ session' = [r \in Routes |-> IF r \in resets
                        THEN [session[r] EXCEPT !.captured = 0, !.applied = FALSE]
                        ELSE session[r]]
       /\ raised' = IF resets = captured THEN "reject" ELSE "fail"
  /\ Goto("restore", Layouts)
  /\ UNCHANGED <<setup, bounds, faults, native, coordinator, locals>>

RestoreEngine ==
  /\ pc = "restore"
  /\ \E l \in todo, fails \in BOOLEAN :
       /\ Last(l) /\ RollsBack(l, fails)
       /\ raised' = IF fails THEN "fail" ELSE raised
       /\ Goto("restore", todo \ {l})
  /\ UNCHANGED <<setup, bounds, session, coordinator, locals>>

RestoreDone ==
  /\ pc = "restore" /\ todo = {}
  /\ Goto(IF raised = "fail" THEN "rollback" ELSE "again", Layouts)
  /\ UNCHANGED <<setup, raised, bounds, faults, native, session, coordinator, locals>>

\* Every child opens a transaction again before the rejection leaves step().
BeginAgain ==
  /\ pc = "again"
  /\ \E l \in todo, fails \in BOOLEAN :
       /\ First(l) /\ Begins(l, fails)
       /\ IF fails THEN Raise("fail", "unwind", 1 .. (l - 1))
                   ELSE Goto("again", todo \ {l}) /\ raised' = raised
  /\ UNCHANGED <<setup, bounds, session, coordinator, locals>>

\* Errors of these rollbacks are swallowed.
UnwindBegun ==
  /\ pc = "unwind"
  /\ \E l \in todo, fails \in BOOLEAN :
       Last(l) /\ RollsBack(l, fails) /\ Goto("unwind", todo \ {l})
  /\ UNCHANGED <<setup, raised, bounds, session, coordinator, locals>>

LeaveStep ==
  /\ pc \in {"again", "unwind"} /\ todo = {}
  /\ Goto("rollback", Layouts)
  /\ UNCHANGED <<setup, raised, bounds, faults, native, session, coordinator, locals>>
-----------------------------------------------------------------------------
(* The envelope: publication, commit, finalization, rollback and retry.    *)

\* With Program maps every receipt counts for its mapping, otherwise every route.
Receipts == UNION {{<<r, k>> : k \in 1 .. receipts[r]} : r \in Routes}
Counted == IF Stage # {} THEN Receipts ELSE {<<r, 1>> : r \in Routes}
Gained(m) == Cardinality({x \in Counted : Route[x[1]].map = m})

\* step() returns: the evaluations are counted and the clocks compared.
Advanced ==
  /\ pc = "advanced"
  /\ counts' = [m \in Mappings |-> counts[m] + Gained(m)]
  /\ Goto("effect", {})
  /\ UNCHANGED <<setup, raised, bounds, faults, native, session, generation,
                 active, attempt, saved, locals>>

\* Consumers are staged, then every child commits.
Commit ==
  /\ pc = "effect"
  /\ committed' = [l \in Layouts |-> TRUE]
  /\ Goto("publish", {})
  /\ UNCHANGED <<setup, raised, bounds, faults, val, txn, port, swapped, session,
                 coordinator, locals>>

\* Staging or publishing a consumer raised, before or after the commit.
EffectFails ==
  /\ pc \in {"effect", "publish"} /\ MayFail(TRUE)
  /\ Raise("fail", "rollback", Layouts)
  /\ UNCHANGED <<setup, bounds, native, session, coordinator, locals>>

Closed(r) == [session[r] EXCEPT !.last = active, !.active = None, !.captured = 0,
                                !.applied = FALSE, !.copy = None]

\* Finalization drops the snapshots: the new states are the accepted ones.
Finalize ==
  /\ pc = "publish"
  /\ val' = [l \in Layouts |-> Base(val[l].step + 1)]
  /\ txn' = [l \in Layouts |-> None] /\ committed' = [l \in Layouts |-> FALSE]
  /\ session' = [r \in Routes |-> Closed(r)]
  /\ active' = None /\ attempt' = 0 /\ saved' = None
  /\ steps' = steps + 1 /\ tries' = 0
  /\ fires' = IF CadenceDue THEN fires + 1 ELSE fires
  /\ Goto("idle", {})
  /\ captured' = {} /\ receipts' = [r \in Routes |-> 0]
  /\ after' = {} /\ progress' = FALSE /\ waiting' = [l \in Layouts |-> None]
  /\ UNCHANGED <<setup, raised, calls, faults, port, swapped, generation, counts>>

\* _rollback_step_transaction goes on after a child that raises.
RollbackEngine ==
  /\ pc = "rollback"
  /\ \E l \in todo, fails \in BOOLEAN :
       Last(l) /\ RollsBack(l, fails) /\ Goto("rollback", todo \ {l})
  /\ UNCHANGED <<setup, raised, bounds, session, coordinator, locals>>

\* A rejection within the budget is retried as a call of its own.
RollbackDone ==
  /\ pc = "rollback" /\ todo = {}
  /\ session' = [r \in Routes |-> IF active # None /\ session[r].active = active
                                    THEN Closed(r) ELSE session[r]]
  /\ counts' = IF saved # None THEN saved ELSE counts
  /\ active' = None /\ attempt' = 0 /\ saved' = None
  /\ Goto("idle", {})
  /\ IF raised = "reject" /\ tries < RetryBudget
       THEN tries' = tries + 1 /\ calls' = calls
       ELSE tries' = 0 /\ calls' = calls + 1
  /\ captured' = {} /\ receipts' = [r \in Routes |-> 0]
  /\ after' = {} /\ progress' = FALSE /\ waiting' = [l \in Layouts |-> None]
  /\ UNCHANGED <<setup, raised, steps, fires, faults, native, generation>>

Begin == Call \/ BeginEngine \/ BeginSessions \/ UndoBegin \/ UndoneBegin
Mapping == Attempt \/ CaptureOp \/ ApplyOp \/ StepOp \/ ScriptDone
Maps == Pass \/ MapRoute \/ StartRegions \/ Region \/ StartPorts \/ EndPass
Rejection == RejectAttempt \/ RestoreEngine \/ RestoreDone \/ BeginAgain
               \/ UnwindBegun \/ LeaveStep
Envelope == Advanced \/ Commit \/ EffectFails \/ Finalize \/ RollbackEngine
              \/ RollbackDone

Next == Schedule \/ Begin \/ Mapping \/ Maps \/ Rejection \/ Envelope

Spec == Init /\ [][Next]_vars

\* The thread of the run is scheduled as long as it has a statement to execute.
FairSpec == Spec /\ WF_vars(Next)
-----------------------------------------------------------------------------
(* Properties.                                                             *)

\* The transfers that a step is made of: every mapping at a step boundary once and,
\* when the cadence is due, every meeting of two Programs.
Meetings(due) ==
  {<<r, 1>> : r \in Routes \ Stage} \cup
    (IF due THEN UNION {{plan.program[l][i] : i \in DOMAIN plan.program[l]} : l \in Layouts}
            ELSE {})
Evaluations(m, due) == Cardinality({x \in Meetings(due) : Route[x[1]].map = m})

\* Between two transactions every layout has the state of the last accepted
\* step, no session is open and the evaluations of every mapping are those of the
\* accepted steps, substeps included, and of no other attempt, whatever was
\* rejected, raised or undone in between.  A layout whose restoration raised is
\* still in its transaction; it and those restored after that are in this state
\* but for their provider carrier.
StepIsAtomic ==
  pc = "idle" =>
    /\ \A l \in Layouts :
         \/ val[l] = Base(steps) /\ txn[l] = None /\ port[l] = None
         \/ val[l] = Torn /\ txn[l] = Base(steps) /\ l \in swapped
    /\ \A r \in Routes : session[r].active = None
    /\ \A m \in Mappings :
         counts[m] = fires * Evaluations(m, TRUE) + (steps - fires) * Evaluations(m, FALSE)
    /\ active = None /\ saved = None

\* The meetings, and the mappings at step boundaries, that a Program is past.
Ran(l) == IF val[l] = Torn THEN 0 ELSE val[l].regions
RanPast(x, l) ==
  IF x[1] \in Stage THEN \E i \in 1 .. (Ran(l) - 1) : Ports(l)[i] = x
                    ELSE Ran(l) > 0 /\ x[2] = 1

\* What a mapping transfers is the source at the declared point: accepted for
\* before-step, complete for after-source-step, and for a Program map suspended at
\* the port in the very substep of this receipt; and no target runs past the point
\* where it needs the value, in any substep.
MappingsAreOrdered ==
  /\ \A r \in {q \in Routes : session[q].applied} :
       LET v == session[r].copy IN
         CASE r \in Accepted -> v = Base(steps)
           [] r \in After -> Complete(v, Route[r].source)
           [] r \in Stage -> Ports(Route[r].source)[v.regions] = <<r, receipts[r]>>
  /\ \A l \in Layouts : \A x \in Meetings(CadenceDue) :
       x[1] \in Into(l) /\ RanPast(x, l) => x \in val[l].mapped

\* Nodes: the regions of every layout; a region follows the one before it, the
\* region of the peer that ends at the same meeting, and the whole Program of the
\* source of an after-source-step mapping.
Regions == UNION {{<<l, i>> : i \in 1 .. (Len(Ports(l)) + 1)} : l \in Layouts}
Follows(a, b) ==
  \/ a[1] = b[1] /\ a[2] < b[2]
  \/ /\ b[2] > 1 /\ a[2] <= Len(Ports(a[1]))
     /\ Ports(a[1])[a[2]] = Ports(b[1])[b[2] - 1]
  \/ \E r \in After : a[1] = Route[r].source /\ b[1] = Route[r].target

\* The reference: every meeting is a port of both peers and the precedence has no
\* cycle.
Executable ==
  /\ \A l \in Layouts : \A i \in 1 .. Len(Ports(l)) :
       LET r == Ports(l)[i][1] IN \A k \in {Route[r].source, Route[r].target} :
         \E j \in 1 .. Len(Ports(k)) : Ports(k)[j] = Ports(l)[i]
  /\ \A S \in (SUBSET Regions) \ {{}} : \E b \in S : \A a \in S : ~Follows(a, b)

\* The scheduler and the passes of execute_program_maps complete exactly the
\* plans that can be completed, and never give one up that could.
PassesDecide ==
  /\ pc = "advanced" => Executable
  /\ pc = "pass" /\ Stuck => ~Executable
  /\ pc = "refused" => ~Executable

\* Construction ends, and every call of the envelope returns or raises: no pass
\* goes round for ever.
StepReturns == (pc # "idle") ~> (pc \in {"idle", "refused"})
=============================================================================
