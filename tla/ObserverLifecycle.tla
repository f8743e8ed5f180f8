-------------------------- MODULE ObserverLifecycle --------------------------
(***************************************************************************)
(* The collective lifecycle of one MPI post-commit consumer (PER_RANK or   *)
(* COLLECTIVE mode): begin_post_commit_consumers, the submission of a      *)
(* frame per step, the close protocol of flush_live_visualizations and the *)
(* error path of the run (src/python/pops/runtime/_runtime_consumers.py    *)
(* and _runtime_instance.py), with the worker thread of every rank         *)
(* (_observer_runtime.py).                                                 *)
(*                                                                         *)
(* Each rank runs two threads.  "main" enters collectives on the WORLD     *)
(* communicator, "worker" on the duplicated lane.  A thread does its local *)
(* work, waits in the collective named at with its vote, receives the rows *)
(* of all ranks and goes on from them: nothing but these rows keeps the    *)
(* ranks on the same path.  Local work may fail on any rank, and a         *)
(* collective may raise on one rank while its peers get their rows or wait *)
(* for ever: nothing in the code or in MPI tells them.                     *)
(***************************************************************************)
EXTENDS Naturals, Sequences, FiniteSets

CONSTANTS
    Ranks,         \* MPI ranks
    NumSteps,      \* accepted steps of the run, one frame each
    NumReplays,    \* pending journal records found when the run begins
    Capacity,      \* queue_capacity
    MaxFaults      \* bound: local failures and lost collectives

ASSUME LifecycleAssumption ==
    /\ Ranks # {} /\ IsFiniteSet(Ranks)
    /\ {NumSteps, NumReplays, MaxFaults} \subseteq Nat /\ Capacity \in Nat \ {0}

VARIABLES
    thread,    \* thread -> rank -> where it stands: the collective, its mode and vote
    rows,      \* thread -> the votes of the last completed collective
    evidence,  \* the inventories the ranks exchanged last
    own,       \* rank -> the run-scoped authorities of the consumer publisher
    flow,      \* rank -> local variables of the method in progress
    tasks,     \* rank -> FIFO of the worker
    answer,    \* rank -> result of the worker call main waits for
    poisoned,  \* ranks whose worker was sealed locally
    gone,      \* thread -> ranks whose collective raised
    calls,     \* rank -> the provider operations entered so far
    faults

vars == <<thread, rows, evidence, own, flow, tasks, answer, poisoned, gone, calls, faults>>

Threads == {"main", "worker"}
Lifecycle == {"initialize", "finalize", "abort"}
Opening == {"b:journal", "b:rows", "b:inspect", "b:worker", "b:session", "b:catalyst",
            "b:queue", "b:enqueue", "b:init", "r:enqueue", "r:deliver", "b:replay"}
Stepping == {"s:step", "s:enqueue", "s:deliver"}
Closing == {"c:preflight", "d:health", "d:seal", "d:route", "a:prepare", "a:enqueue", "a:complete",
            "a:seal", "f:prepare", "f:enqueue", "f:complete", "d:lane", "d:reports",
            "c:root", "c:ready", "c:worker", "c:final", "c:release"}
Exchanges == {"c:preflight", "c:final", "a:complete", "f:complete"}
MainPlaces == Opening \cup Stepping \cup Closing \cup {"loss", "sealing", "ended"}
WorkerPlaces == {"none", "idle", "w:gate", "w:barrier", "w:initialized", "w:frame", "w:executed", "w:acknowledged",
                 "w:finalized", "stopped"}

Inventory == [phase : {"opening", "open", "closing_opening", "closing_open", "closed"},
              lane : {"none", "active", "closed"},
              worker : {"none", "up", "closed"},
              session : {"none", "good", "bad"},
              queue : {"none", "built", "initialized", "close prepared", "abort prepared", "closed"},
              err : {"none", "error", "lost"},
              blocked : SUBSET {"abort", "finalize"},
              diag : BOOLEAN,
              delivered : 0..(NumSteps + NumReplays)]

TypeOK ==
    /\ \A r \in Ranks :
          /\ thread["main"][r].at \in MainPlaces /\ thread["worker"][r].at \in WorkerPlaces
          /\ \A t \in Threads : thread[t][r].mode \in {"run", "wait", "rows", "lost"}
          /\ Len(SelectSeq(tasks[r], LAMBDA x : x.kind = "job")) <= Capacity
          /\ Len(SelectSeq(tasks[r], LAMBDA x : x.kind \in Lifecycle)) <= 1
          /\ \A i \in DOMAIN tasks[r] :
                tasks[r][i] \in [kind : Lifecycle \cup {"job", "stop"}, gate : {"shut", "armed", "cancelled"}]
    /\ own \in [Ranks -> Inventory] /\ evidence \in [Ranks -> Inventory]
    /\ answer \in [Ranks -> {"none", "ok", "failed", "lost"}]
    /\ flow \in [Ranks -> [steps : 0..NumSteps, replays : 0..NumReplays, ready : BOOLEAN, armed : BOOLEAN,
                           release : BOOLEAN, fail : BOOLEAN, sealed : BOOLEAN, close : {"none", "final", "handler"},
                           outcome : {"none", "returned", "raised", "lost"}]]
    /\ poisoned \subseteq Ranks /\ gone \in [Threads -> SUBSET Ranks] /\ faults \in 0..MaxFaults

Init ==
    /\ thread = [t \in Threads |-> [r \in Ranks |->
                    [at |-> IF t = "main" THEN "b:journal" ELSE "none", mode |-> "run", vote |-> TRUE]]]
    /\ rows = [t \in Threads |-> [r \in Ranks |-> TRUE]]
    /\ own = [r \in Ranks |-> [phase |-> "opening", lane |-> "none", worker |-> "none", session |-> "none",
                               queue |-> "none", err |-> "none", blocked |-> {}, diag |-> FALSE, delivered |-> 0]]
    /\ evidence = own
    /\ flow = [r \in Ranks |-> [steps |-> 0, replays |-> 0, ready |-> TRUE, armed |-> FALSE, release |-> FALSE,
                                fail |-> FALSE, sealed |-> FALSE, close |-> "none", outcome |-> "none"]]
    /\ tasks = [r \in Ranks |-> <<>>] /\ answer = [r \in Ranks |-> "none"]
    /\ poisoned = {} /\ gone = [t \in Threads |-> {}]
    /\ calls = [r \in Ranks |-> <<>>] /\ faults = 0

-----------------------------------------------------------------------------
\* Control: Runs is a thread doing the local work before a collective, Waits is
\* its arrival there, Has the rows having come, Goes its way to the next one.
Runs(t, r, at) == thread[t][r].at = at /\ thread[t][r].mode = "run"
Has(t, r, at) == thread[t][r].at = at /\ thread[t][r].mode = "rows"
Waits(t, r, at, vote) == thread' = [thread EXCEPT ![t][r] = [at |-> at, mode |-> "wait", vote |-> vote]]
Goes(t, r, at) == thread' = [thread EXCEPT ![t][r] = [at |-> at, mode |-> "run", vote |-> TRUE]]
All(t) == \A r \in Ranks : rows[t][r]

\* A fallible local operation: it works, or it fails at the cost of one fault.
Outcome(ok) == \/ ok /\ UNCHANGED faults
               \/ ~ok /\ faults < MaxFaults /\ faults' = faults + 1

Task(kind) == [kind |-> kind, gate |-> "shut"]
Enqueue(r, kind) == tasks' = [tasks EXCEPT ![r] = Append(@, Task(kind))]
\* arm or cancel of the one gate that is still shut
Resolved(r, gate) ==
    [tasks EXCEPT ![r] = [i \in DOMAIN @ |-> IF @[i].gate = "shut" /\ @[i].kind # "stop"
                                             THEN [@[i] EXCEPT !.gate = gate] ELSE @[i]]]
NoCall(r) == \A i \in DOMAIN tasks[r] : tasks[r][i].kind \notin Lifecycle
NoJob(r) == \A i \in DOMAIN tasks[r] : tasks[r][i].kind # "job"
Jobs(r) == Cardinality({i \in DOMAIN tasks[r] : tasks[r][i].kind = "job"})

\* MPI: a collective completes when every rank waits in it; or it raises on a rank,
\* before or after its peers got their rows.  A peer that still waits may find out, by
\* an error or by an envelope of another collective, or wait for ever.
Gather(t) ==
    /\ \A r \in Ranks : thread[t][r].mode = "wait"
    /\ \A r, s \in Ranks : thread[t][r].at = thread[t][s].at
    /\ rows' = [rows EXCEPT ![t] = [r \in Ranks |-> thread[t][r].vote]]
    /\ thread' = [thread EXCEPT ![t] = [r \in Ranks |-> [@[r] EXCEPT !.mode = "rows"]]]
    /\ evidence' = IF \E r \in Ranks : thread[t][r].at \in Exchanges THEN own ELSE evidence
    /\ UNCHANGED <<own, flow, tasks, answer, poisoned, gone, calls, faults>>

Loses(t, r) ==
    /\ thread' = [thread EXCEPT ![t][r].mode = "lost"]
    /\ gone' = [gone EXCEPT ![t] = @ \cup {r}]
    /\ UNCHANGED <<rows, evidence, own, flow, tasks, answer, poisoned, calls>>

Lose(t, r) ==
    /\ thread[t][r].mode \in {"wait", "rows"}
    /\ faults < MaxFaults /\ faults' = faults + 1
    /\ Loses(t, r)

Detect(t, r) ==
    /\ thread[t][r].mode = "wait"
    /\ gone[t] \cup gone["main"] # {}
    /\ Loses(t, r)
    /\ UNCHANGED faults

-----------------------------------------------------------------------------
\* Main waits for the result of a worker call before it goes on.
Main(r, at) == Runs("main", r, at) /\ NoCall(r)
Vote(r, at, vote) == Waits("main", r, at, vote)
Set(r, field, value) == own' = [own EXCEPT ![r][field] = value]

\* begin_post_commit_consumers.  Each stage does its local work, votes, and every
\* rank leaves it with the same verdict.
OpenLane(r) ==
    /\ Main(r, "b:journal")
    /\ \E lane \in {"none", "active"}, ok \in BOOLEAN :
          /\ ok => lane = "active"
          /\ Outcome(ok) /\ Set(r, "lane", lane) /\ Vote(r, "b:journal", ok)
    /\ UNCHANGED <<rows, evidence, flow, tasks, answer, poisoned, gone, calls>>

\* list_committed may fail; the verdict over all rows is then carried into the
\* second agreement, and so is the verdict of the replay.
ListCommitted(r) ==
    /\ \E at \in {"b:rows", "b:catalyst"} :
          /\ Main(r, at)
          /\ \E ok \in BOOLEAN : Outcome(ok) /\ Vote(r, at, ok)
    /\ UNCHANGED <<rows, evidence, own, flow, tasks, answer, poisoned, gone, calls>>

CarryVerdict(r) ==
    /\ \E at \in {"b:inspect", "b:replay"} : Main(r, at) /\ Vote(r, at, All("main"))
    /\ UNCHANGED <<rows, evidence, own, flow, tasks, answer, poisoned, gone, calls, faults>>

StartWorker(r) ==
    /\ Main(r, "b:worker")
    /\ \E ok \in BOOLEAN :
          /\ Outcome(ok)
          /\ Set(r, "worker", IF ok THEN "up" ELSE "none")
          /\ thread' = [thread EXCEPT !["main"][r] = [at |-> "b:worker", mode |-> "wait", vote |-> ok],
                                      !["worker"][r].at = IF ok THEN "idle" ELSE "none"]
    /\ UNCHANGED <<rows, evidence, flow, tasks, answer, poisoned, gone, calls>>

\* A session that does not authenticate is retained, one that cannot be opened is not.
OpenSession(r) ==
    /\ Main(r, "b:session")
    /\ \E session \in {"none", "good", "bad"} :
          /\ Outcome(session = "good") /\ Set(r, "session", session)
          /\ Vote(r, "b:session", session = "good")
    /\ UNCHANGED <<rows, evidence, flow, tasks, answer, poisoned, gone, calls>>

\* The queue takes the session over; a constructor that fails leaves it pending.
BuildQueue(r) ==
    /\ Main(r, "b:queue")
    /\ \E ok \in BOOLEAN :
          /\ Outcome(ok) /\ Vote(r, "b:queue", ok)
          /\ own' = IF ok THEN [own EXCEPT ![r].queue = "built", ![r].session = "none"] ELSE own
    /\ UNCHANGED <<rows, evidence, flow, tasks, answer, poisoned, gone, calls>>

PrepareInitialize(r) ==
    /\ Main(r, "b:enqueue")
    /\ \E ok \in BOOLEAN :
          /\ Outcome(ok) /\ Vote(r, "b:enqueue", ok)
          /\ IF ok THEN Enqueue(r, "initialize") ELSE UNCHANGED tasks
    /\ answer' = [answer EXCEPT ![r] = "none"]
    /\ UNCHANGED <<rows, evidence, own, flow, poisoned, gone, calls>>

\* What a failed worker call leaves on the queue: the loss of the lane for certain,
\* any other failure only for initialize.
ErrorOf(a) == CASE a = "lost" -> "lost" [] a = "failed" -> "error" [] OTHER -> "none"

CompleteInitialize(r) ==
    /\ Main(r, "b:init") /\ answer[r] # "none"
    /\ own' = [own EXCEPT ![r].err = ErrorOf(answer[r]),
                          ![r].queue = IF answer[r] = "ok" THEN "initialized" ELSE @]
    /\ Vote(r, "b:init", answer[r] = "ok")
    /\ UNCHANGED <<rows, evidence, flow, tasks, answer, poisoned, gone, calls, faults>>

\* Backpressure: the queue has room, or it is unavailable and will refuse.
Room(r) == Jobs(r) < Capacity \/ own[r].err # "none"

\* _prepare_detached, in the replay and after a step (where the commit of the record
\* comes first): it waits for room, refuses an unavailable queue, and may fail.
PrepareJob(r) ==
    /\ \E at \in {"r:enqueue", "s:enqueue"} :
          /\ Main(r, at)
          /\ Room(r)
          /\ \/ /\ own[r].err # "none"
                /\ Vote(r, at, FALSE)
                /\ UNCHANGED <<tasks, faults>>
             \/ \E ok \in BOOLEAN :
                   /\ own[r].err = "none"
                   /\ Outcome(ok) /\ Vote(r, at, ok)
                   /\ IF ok THEN Enqueue(r, "job") ELSE UNCHANGED tasks
    /\ UNCHANGED <<rows, evidence, own, flow, answer, poisoned, gone, calls>>

\* queue.flush() after the frame was armed.
FlushJob(r) ==
    /\ \E at \in {"r:deliver", "s:deliver"} :
          Main(r, at) /\ NoJob(r) /\ Vote(r, at, own[r].err = "none")
    /\ UNCHANGED <<rows, evidence, own, flow, tasks, answer, poisoned, gone, calls, faults>>

NextStage(at) ==
    CASE at = "b:journal" -> "b:rows"       [] at = "b:rows" -> "b:inspect"
      [] at = "b:inspect" -> "b:worker"     [] at = "b:worker" -> "b:session"
      [] at = "b:session" -> "b:catalyst"   [] at = "b:catalyst" -> "b:queue"
      [] at = "b:queue" -> "b:enqueue"      [] at = "b:enqueue" -> "b:init"
      [] at = "r:enqueue" -> "r:deliver"    [] at = "b:replay" -> "s:step"

\* The error path of the run: one more close, with what failed before, unless the
\* publisher knows that WORLD was lost.
Fails(r) ==
    IF flow[r].sealed
    THEN Goes("main", r, "loss") /\ UNCHANGED flow
    ELSE /\ Goes("main", r, "c:preflight")
         /\ flow' = [flow EXCEPT ![r].close = "handler", ![r].fail = FALSE]

OpenAgreed(r) ==
    /\ \E at \in {"b:journal", "b:inspect", "b:worker", "b:session", "b:catalyst", "b:queue"} :
          /\ Has("main", r, at)
          /\ IF All("main") THEN Goes("main", r, NextStage(at)) /\ UNCHANGED flow ELSE Fails(r)
    /\ UNCHANGED <<rows, evidence, own, tasks, answer, poisoned, gone, calls, faults>>

Listed(r) ==
    /\ Has("main", r, "b:rows")
    /\ Goes("main", r, "b:inspect")
    /\ UNCHANGED <<rows, evidence, own, flow, tasks, answer, poisoned, gone, calls, faults>>

\* A rank arms what it enqueued although a peer could not.
Admission_Fault == "armed"

\* The gate of what was enqueued opens only when every rank enqueued it.
Admission == IF All("main") THEN "armed" ELSE "cancelled"

InitializeAdmitted(r) ==
    /\ Has("main", r, "b:enqueue")
    /\ tasks' = Resolved(r, Admission)
    /\ IF All("main") THEN Goes("main", r, "b:init") /\ UNCHANGED flow ELSE Fails(r)
    /\ UNCHANGED <<rows, evidence, own, answer, poisoned, gone, calls, faults>>

MoreReplays(r) == IF flow[r].replays < NumReplays THEN "r:enqueue" ELSE "b:replay"

InitializeAgreed(r) ==
    /\ Has("main", r, "b:init")
    /\ IF All("main") THEN Goes("main", r, MoreReplays(r)) /\ UNCHANGED flow ELSE Fails(r)
    /\ UNCHANGED <<rows, evidence, own, tasks, answer, poisoned, gone, calls, faults>>

ReplayAdmitted(r) ==
    /\ Has("main", r, "r:enqueue")
    /\ tasks' = Resolved(r, Admission)
    /\ flow' = [flow EXCEPT ![r].replays = @ + 1]
    /\ Goes("main", r, IF All("main") THEN "r:deliver" ELSE "b:replay")
    /\ UNCHANGED <<rows, evidence, own, answer, poisoned, gone, calls, faults>>

ReplayDelivered(r) ==
    /\ Has("main", r, "r:deliver")
    /\ Goes("main", r, IF All("main") THEN MoreReplays(r) ELSE "b:replay")
    /\ UNCHANGED <<rows, evidence, own, flow, tasks, answer, poisoned, gone, calls, faults>>

Opened(r) ==
    /\ Has("main", r, "b:replay")
    /\ IF All("main") THEN Goes("main", r, "s:step") /\ Set(r, "phase", "open") /\ UNCHANGED flow
                      ELSE Fails(r) /\ UNCHANGED own
    /\ UNCHANGED <<rows, evidence, tasks, answer, poisoned, gone, calls, faults>>

-----------------------------------------------------------------------------
\* One accepted step: all ranks accept or none (_collective_attempt_error), then
\* _submit_live_visualization.  A refused or failed delivery is a recorded failure
\* of this step's frame and the run goes on.
Step(r) ==
    /\ Main(r, "s:step")
    /\ \E ok \in BOOLEAN : Outcome(ok) /\ Vote(r, "s:step", ok)
    /\ UNCHANGED <<rows, evidence, own, flow, tasks, answer, poisoned, gone, calls>>

\* After the last step the run closes its consumers; a publisher that knows of the
\* loss refuses and the run fails.  f is flow[r] as it is then.
AfterFrame(r, f) ==
    CASE f.steps < NumSteps -> Goes("main", r, "s:step") /\ flow' = [flow EXCEPT ![r] = f]
      [] f.steps = NumSteps /\ f.sealed -> Goes("main", r, "loss") /\ flow' = [flow EXCEPT ![r] = f]
      [] OTHER -> Goes("main", r, "c:preflight") /\ flow' = [flow EXCEPT ![r] = [f EXCEPT !.close = "final"]]

\* An accepted step is followed by the finalizer of its frame.  Whatever that raises
\* is retained by ConsumerTransaction.seal for a retry, and a retry submits nothing:
\* the run goes on, also when the publisher refuses because it knows of the loss.
Stepped(r) ==
    /\ Has("main", r, "s:step")
    /\ LET accepted == [flow[r] EXCEPT !.steps = @ + 1]
       IN CASE ~All("main") -> Fails(r)
            [] All("main") /\ flow[r].sealed -> AfterFrame(r, accepted)
            [] OTHER -> Goes("main", r, "s:enqueue") /\ flow' = [flow EXCEPT ![r] = accepted]
    /\ UNCHANGED <<rows, evidence, own, tasks, answer, poisoned, gone, calls, faults>>

FrameAdmitted(r) ==
    /\ Has("main", r, "s:enqueue")
    /\ tasks' = Resolved(r, Admission)
    /\ IF All("main") THEN Goes("main", r, "s:deliver") /\ UNCHANGED <<own, flow>>
                      ELSE AfterFrame(r, flow[r]) /\ Set(r, "diag", TRUE)
    /\ UNCHANGED <<rows, evidence, answer, poisoned, gone, calls, faults>>

FrameDelivered(r) ==
    /\ Has("main", r, "s:deliver")
    /\ AfterFrame(r, flow[r])
    /\ IF All("main") THEN UNCHANGED own ELSE Set(r, "diag", TRUE)
    /\ UNCHANGED <<rows, evidence, tasks, answer, poisoned, gone, calls, faults>>

-----------------------------------------------------------------------------
\* _preflight_observer_close: every rank publishes its inventory and judges all of
\* them.  Partial ownership is refused on every rank alike.
Holders(R, field) == {r \in Ranks : R[r][field] # "none"}
Everywhere == {{}, Ranks}

PreflightRefuses(R, phase) ==
    LET owners == Holders(R, "session") \cup Holders(R, "queue")
        lanes == Holders(R, "lane")
        workers == Holders(R, "worker")
        opened == phase \in {"open", "closing_open"}
    IN \/ \E r \in Ranks : R[r].phase # phase
       \/ phase = "open" /\ \/ Holders(R, "queue") # Ranks
                            \/ workers # Ranks
                            \/ \E r \in Ranks : R[r].worker = "closed" \/ R[r].lane = "closed"
                                                \/ R[r].queue \in {"close prepared", "abort prepared", "closed"}
       \/ opened /\ (Holders(R, "session") # {} \/ Holders(R, "queue") \notin Everywhere)
       \/ lanes \notin Everywhere
       \/ owners \notin Everywhere
       \/ owners # {} /\ (lanes = {} \/ workers # Ranks)
       \/ \E r, s \in Ranks : R[r].lane # R[s].lane
       \/ \E r, s \in Ranks : R[r].lane = "closed" /\ R[s].queue \notin {"none", "closed"}

Retained(R) == \E s \in Ranks, field \in {"lane", "worker", "session", "queue"} : R[s][field] # "none"

Inventories(r) ==
    /\ \E at \in {"c:preflight", "c:final"} : Main(r, at) /\ Vote(r, at, TRUE)
    /\ UNCHANGED <<rows, evidence, own, flow, tasks, answer, poisoned, gone, calls, faults>>

Ends(r, outcome) ==
    /\ Goes("main", r, "ended")
    /\ flow' = [flow EXCEPT ![r].outcome = outcome]

\* flush_live_visualizations leaves with an error: the run's own close is followed by
\* the one of its error handler, the error of the latter is only noted.
FlushRaises(r) == IF flow[r].close = "final" THEN Fails(r) ELSE Ends(r, "raised")

\* It returns: the handler of a run without any accepted step still asks all ranks
\* whether the run identity can be reused.
FlushReturns(r) ==
    IF flow[r].close = "final" THEN Ends(r, "returned")
    ELSE IF flow[r].steps = 0 THEN Goes("main", r, "c:release") /\ UNCHANGED flow
    ELSE Ends(r, "raised")

Preflighted(r) ==
    /\ Has("main", r, "c:preflight")
    /\ LET R == evidence IN
       CASE PreflightRefuses(R, own[r].phase) -> FlushRaises(r) /\ UNCHANGED own
         [] ~PreflightRefuses(R, own[r].phase) /\ ~Retained(R) ->
               FlushReturns(r) /\ Set(r, "phase", "closed")
         [] OTHER ->
               /\ Goes("main", r, "d:health")
               /\ flow' = [flow EXCEPT ![r].ready = TRUE, ![r].armed = FALSE, ![r].release = FALSE]
               /\ Set(r, "phase", CASE own[r].phase = "opening" -> "closing_opening"
                                    [] own[r].phase = "open" -> "closing_open"
                                    [] OTHER -> own[r].phase)
    /\ UNCHANGED <<rows, evidence, tasks, answer, poisoned, gone, calls, faults>>

Released_Fault(r) == tasks

Released(r) == Resolved(r, "cancelled")

\* queue.seal_local for the queue, then worker.seal_local: shut gates are cancelled,
\* the worker is poisoned and told to stop.  Its join comes before the next vote.
Sealed(r) ==
    /\ own' = [own EXCEPT ![r].diag = TRUE, ![r].err = IF own[r].queue # "none" THEN "lost" ELSE @]
    /\ IF own[r].worker = "up"
       THEN /\ poisoned' = poisoned \cup {r}
            /\ tasks' = [Released(r) EXCEPT ![r] = Append(@, Task("stop"))]
       ELSE UNCHANGED <<poisoned, tasks>>

Stopped(r) == own[r].worker = "up" => thread["worker"][r].at = "stopped"
Join(r) == own' = IF own[r].worker = "up" THEN [own EXCEPT ![r].worker = "closed"] ELSE own

Owns(r) == own[r].session # "none" \/ own[r].queue # "none"

\* A rank seals its worker when its own lane is lost, without asking the others.
Healthy_Fault(r) == own[r].err # "lost"

Healthy(r) == All("main")

LaneHealth(r) ==
    /\ Main(r, "d:health")
    /\ Vote(r, "d:health", ~(Owns(r) /\ own[r].err = "lost"))
    /\ UNCHANGED <<rows, evidence, own, flow, tasks, answer, poisoned, gone, calls, faults>>

\* A run that failed to open aborts its session; otherwise the ranks agree on the
\* route, and one that needs the abort takes all of them there.
Route(r) == IF own[r].phase = "closing_opening" THEN "a:prepare"
            ELSE IF own[r].queue # "none" THEN "d:route" ELSE "f:prepare"

HealthAgreed(r) ==
    /\ Has("main", r, "d:health")
    /\ IF Healthy(r)
       THEN Goes("main", r, Route(r)) /\ UNCHANGED <<own, tasks, poisoned>>
       ELSE Goes("main", r, "d:seal") /\ Sealed(r)
    /\ UNCHANGED <<rows, evidence, flow, answer, gone, calls, faults>>

SealWorker(r) ==
    /\ \E at \in {"d:seal", "a:seal"} : Main(r, at) /\ Stopped(r) /\ Vote(r, at, TRUE)
    /\ Join(r)
    /\ UNCHANGED <<rows, evidence, flow, tasks, answer, poisoned, gone, calls, faults>>

WorkerSealed(r) ==
    /\ \E at \in {"d:seal", "a:seal"} : Has("main", r, at)
    /\ Goes("main", r, "c:root")
    /\ flow' = [flow EXCEPT ![r].fail = TRUE]
    /\ UNCHANGED <<rows, evidence, own, tasks, answer, poisoned, gone, calls, faults>>

ChooseRoute(r) ==
    /\ Main(r, "d:route")
    /\ Vote(r, "d:route", own[r].err # "error")
    /\ UNCHANGED <<rows, evidence, own, flow, tasks, answer, poisoned, gone, calls, faults>>

RouteAgreed(r) ==
    /\ Has("main", r, "d:route")
    /\ Goes("main", r, IF All("main") THEN "f:prepare" ELSE "a:prepare")
    /\ UNCHANGED <<rows, evidence, own, flow, tasks, answer, poisoned, gone, calls, faults>>

-----------------------------------------------------------------------------
\* The two cleanup routes have the same three agreements: local preparation,
\* admission of the worker call, completion.
Cleanup == {"abort", "finalize"}
Stage(kind, what) ==
    CASE what = "prepare" -> (IF kind = "abort" THEN "a:prepare" ELSE "f:prepare")
      [] what = "enqueue" -> (IF kind = "abort" THEN "a:enqueue" ELSE "f:enqueue")
      [] what = "complete" -> (IF kind = "abort" THEN "a:complete" ELSE "f:complete")
Prepared(kind) == IF kind = "abort" THEN "abort prepared" ELSE "close prepared"

\* A cleanup that failed after the provider was entered is never tried again.
Blocked(r, kind) == kind \in own[r].blocked

\* prepare_abort_close and prepare_close wait for the accepted jobs; the first is
\* refused on a lost lane, the second after any lifecycle error.
PrepareCleanup(r, kind) ==
    /\ Main(r, Stage(kind, "prepare"))
    /\ LET refused == \/ Blocked(r, kind)
                      \/ /\ own[r].queue \notin {"none", "closed", Prepared(kind)}
                         /\ own[r].err \in (IF kind = "abort" THEN {"lost"} ELSE {"error", "lost"})
       IN /\ ~refused /\ own[r].queue # "none" => NoJob(r)
          /\ Vote(r, Stage(kind, "prepare"), ~refused)
          /\ own' = IF refused THEN [own EXCEPT ![r].diag = TRUE]
                    ELSE IF own[r].queue \in {"none", "closed"} THEN own
                    ELSE [own EXCEPT ![r].queue = Prepared(kind)]
    /\ UNCHANGED <<rows, evidence, flow, tasks, answer, poisoned, gone, calls, faults>>

CleanupPrepared(r, kind) ==
    /\ Has("main", r, Stage(kind, "prepare"))
    /\ Goes("main", r, Stage(kind, "enqueue"))
    /\ flow' = [flow EXCEPT ![r].ready = All("main")]
    /\ UNCHANGED <<rows, evidence, own, tasks, answer, poisoned, gone, calls, faults>>

EnqueueCleanup(r, kind) ==
    /\ Main(r, Stage(kind, "enqueue"))
    /\ answer' = [answer EXCEPT ![r] = "none"]
    /\ \/ /\ ~(flow[r].ready /\ Owns(r))
          /\ Vote(r, Stage(kind, "enqueue"), TRUE)
          /\ UNCHANGED <<tasks, faults>>
       \/ /\ flow[r].ready /\ Owns(r)
          /\ \E ok \in BOOLEAN :
                /\ Outcome(ok) /\ Vote(r, Stage(kind, "enqueue"), ok)
                /\ IF ok THEN Enqueue(r, kind) ELSE UNCHANGED tasks
    /\ UNCHANGED <<rows, evidence, own, flow, poisoned, gone, calls>>

CleanupAdmitted(r, kind) ==
    /\ Has("main", r, Stage(kind, "enqueue"))
    /\ tasks' = Resolved(r, Admission)
    /\ flow' = [flow EXCEPT ![r].ready = @ /\ All("main"),
                            ![r].armed = flow[r].ready /\ All("main") /\ Owns(r)]
    /\ own' = IF All("main") THEN own ELSE [own EXCEPT ![r].diag = TRUE]
    /\ Goes("main", r, Stage(kind, "complete"))
    /\ UNCHANGED <<rows, evidence, answer, poisoned, gone, calls, faults>>

CompleteCleanup(r, kind) ==
    /\ Main(r, Stage(kind, "complete"))
    /\ flow[r].armed => answer[r] # "none"
    /\ LET done == flow[r].ready /\ (flow[r].armed => answer[r] = "ok")
           lost == flow[r].armed /\ answer[r] = "lost"
       IN /\ own' = [own EXCEPT ![r].queue = IF done /\ @ # "none" THEN "closed" ELSE @,
                                ![r].err = IF lost THEN "lost" ELSE @,
                                ![r].diag = @ \/ (flow[r].armed /\ ~done)]
          /\ Vote(r, Stage(kind, "complete"), done)
    /\ UNCHANGED <<rows, evidence, flow, tasks, answer, poisoned, gone, calls, faults>>

\* A failure of any rank after provider entry blocks every rank; a lost lane found
\* by an abort seals the workers; a cleanup complete on all ranks releases the owner.
CleanupCompleted(r, kind) ==
    /\ Has("main", r, Stage(kind, "complete"))
    /\ LET failed == \E s \in Ranks : (evidence[s].session # "none" \/ evidence[s].queue # "none") /\ ~rows["main"][s]
           ready == All("main")
           blocked == IF flow[r].armed /\ failed THEN own[r].blocked \cup {kind} ELSE own[r].blocked
       IN IF kind = "abort" /\ \E s \in Ranks : evidence[s].err = "lost"
          THEN /\ Goes("main", r, "a:seal")
               /\ own' = [own EXCEPT ![r].blocked = blocked, ![r].diag = TRUE,
                                     ![r].err = IF own[r].queue # "none" THEN "lost" ELSE @]
               /\ poisoned' = poisoned \cup {r}
               /\ tasks' = [tasks EXCEPT ![r] = Append(@, Task("stop"))]
               /\ UNCHANGED flow
          ELSE /\ Goes("main", r, IF ready THEN "d:lane" ELSE "d:reports")
               /\ flow' = [flow EXCEPT ![r].ready = ready, ![r].armed = FALSE]
               /\ own' = IF ready THEN [own EXCEPT ![r].session = "none", ![r].queue = "none"]
                         ELSE [own EXCEPT ![r].blocked = blocked, ![r].diag = TRUE]
               /\ UNCHANGED <<poisoned, tasks>>
    /\ UNCHANGED <<rows, evidence, answer, gone, calls, faults>>

CloseLane(r) ==
    /\ Main(r, "d:lane")
    /\ \E ok \in BOOLEAN :
          /\ Outcome(ok) /\ (own[r].lane # "active" => ok)
          /\ own' = IF ok THEN [own EXCEPT ![r].lane = IF @ = "active" THEN "closed" ELSE @]
                    ELSE [own EXCEPT ![r].diag = TRUE]
          /\ Vote(r, "d:lane", ok)
    /\ UNCHANGED <<rows, evidence, flow, tasks, answer, poisoned, gone, calls>>

LaneClosed(r) ==
    /\ Has("main", r, "d:lane")
    /\ Goes("main", r, "d:reports")
    /\ flow' = [flow EXCEPT ![r].release = All("main") /\ own[r].lane # "none"]
    /\ UNCHANGED <<rows, evidence, own, tasks, answer, poisoned, gone, calls, faults>>

\* Skipped frames and diagnostics of every rank are failures on every rank.
Reports(r) ==
    /\ Main(r, "d:reports") /\ Vote(r, "d:reports", ~own[r].diag)
    /\ UNCHANGED <<rows, evidence, own, flow, tasks, answer, poisoned, gone, calls, faults>>

Failures_Fault(r) == FALSE

Failures(r) == ~All("main")

Reported(r) ==
    /\ Has("main", r, "d:reports")
    /\ Goes("main", r, "c:root")
    /\ flow' = [flow EXCEPT ![r].fail = @ \/ Failures(r)]
    /\ own' = [own EXCEPT ![r].diag = FALSE, ![r].lane = IF flow[r].release THEN "none" ELSE @]
    /\ UNCHANGED <<rows, evidence, tasks, answer, poisoned, gone, calls, faults>>

-----------------------------------------------------------------------------
\* The end of flush_live_visualizations: no ROOT lane here, then the worker, which
\* is stopped only when no rank retains a session or a queue.
CloseReadiness(r) ==
    /\ \/ Main(r, "c:root") /\ Vote(r, "c:root", TRUE)
       \/ Main(r, "c:ready") /\ Vote(r, "c:ready", ~Owns(r))
       \/ Main(r, "c:release") /\ Vote(r, "c:release", FALSE)
    /\ UNCHANGED <<rows, evidence, own, flow, tasks, answer, poisoned, gone, calls, faults>>

RootClosed(r) ==
    /\ Has("main", r, "c:root")
    /\ Goes("main", r, "c:ready")
    /\ UNCHANGED <<rows, evidence, own, flow, tasks, answer, poisoned, gone, calls, faults>>

CloseReady(r) ==
    /\ Has("main", r, "c:ready")
    /\ Goes("main", r, "c:worker")
    /\ flow' = [flow EXCEPT ![r].ready = All("main")]
    /\ tasks' = IF All("main") /\ own[r].worker = "up"
                THEN [tasks EXCEPT ![r] = Append(@, Task("stop"))] ELSE tasks
    /\ UNCHANGED <<rows, evidence, own, answer, poisoned, gone, calls, faults>>

CloseWorker(r) ==
    /\ Main(r, "c:worker")
    /\ flow[r].ready => Stopped(r)
    /\ IF flow[r].ready THEN Join(r) ELSE UNCHANGED own
    /\ Vote(r, "c:worker", own'[r].worker # "up")
    /\ UNCHANGED <<rows, evidence, flow, tasks, answer, poisoned, gone, calls, faults>>

WorkerClosed(r) ==
    /\ Has("main", r, "c:worker")
    /\ Goes("main", r, "c:final")
    /\ own' = IF All("main") THEN [own EXCEPT ![r].worker = "none"] ELSE own
    /\ UNCHANGED <<rows, evidence, flow, tasks, answer, poisoned, gone, calls, faults>>

\* The failures are raised, except by the handler of a run that accepted a step.
Closed(r) ==
    /\ Has("main", r, "c:final")
    /\ LET refused == PreflightRefuses(evidence, own[r].phase)
           failed == flow[r].fail \/ Retained(evidence)
       IN /\ IF refused \/ (failed /\ ~(flow[r].close = "handler" /\ flow[r].steps > 0))
             THEN FlushRaises(r) ELSE FlushReturns(r)
          /\ own' = IF refused \/ Retained(evidence) THEN own ELSE [own EXCEPT ![r].phase = "closed"]
    /\ UNCHANGED <<rows, evidence, tasks, answer, poisoned, gone, calls, faults>>

IdentityRefused(r) ==
    /\ Has("main", r, "c:release")
    /\ Ends(r, "raised")
    /\ UNCHANGED <<rows, evidence, own, tasks, answer, poisoned, gone, calls, faults>>

\* A lost WORLD collective.  One of the step itself is an error like any other: the
\* handler of the run does not recognise it and closes.  One inside the finalizer of a
\* frame is remembered, cancels the submission and is swallowed by seal().  One while
\* opening or closing fails the run, and lost in the handler's own close it is only
\* noted.
WorldLost(r) ==
    /\ thread["main"][r].mode = "lost"
    /\ LET at == thread["main"][r].at
           known == [flow EXCEPT ![r].sealed = TRUE]
       IN CASE flow[r].close = "handler" -> Ends(r, "lost") /\ tasks' = Released(r)
            [] at = "s:step" -> Fails(r) /\ UNCHANGED tasks
            [] at = "s:enqueue" -> AfterFrame(r, known[r]) /\ tasks' = Released(r)
            [] at = "s:deliver" -> AfterFrame(r, known[r]) /\ UNCHANGED tasks
            [] OTHER -> Goes("main", r, "loss") /\ flow' = known /\ UNCHANGED tasks
    /\ UNCHANGED <<rows, evidence, own, answer, poisoned, gone, calls, faults>>

\* The handler of a run whose publisher knows of the loss seals the local worker and
\* enters no further collective.
SealLocally(r) ==
    /\ Runs("main", r, "loss")
    /\ Goes("main", r, "sealing") /\ Sealed(r)
    /\ UNCHANGED <<rows, evidence, flow, answer, gone, calls, faults>>

SealedAfterLoss(r) ==
    /\ Runs("main", r, "sealing") /\ Stopped(r)
    /\ Join(r) /\ Ends(r, "lost")
    /\ UNCHANGED <<rows, evidence, tasks, answer, poisoned, gone, calls, faults>>

-----------------------------------------------------------------------------
\* PostCommitObserverWorker._run: the head of the FIFO once its gate is resolved.
Worker(r, at) == Runs("worker", r, at)
Head1(r) == tasks[r][1]
Pop(r) == tasks' = [tasks EXCEPT ![r] = Tail(@)]
Enters(r, operation) == calls' = [calls EXCEPT ![r] = Append(@, operation)]
Lane(r, at, vote) == Waits("worker", r, at, vote)

\* The task ends: a lifecycle call answers main, a job is reported.
Answers(r, a) ==
    /\ Goes("worker", r, "idle") /\ Pop(r)
    /\ answer' = [answer EXCEPT ![r] = a]
    /\ UNCHANGED own
Skips(r, err) ==
    /\ Goes("worker", r, "idle") /\ Pop(r)
    /\ own' = [own EXCEPT ![r].diag = TRUE, ![r].err = IF @ = "none" \/ err = "lost" THEN err ELSE @]
    /\ UNCHANGED answer
Delivers(r) ==
    /\ Goes("worker", r, "idle") /\ Pop(r)
    /\ own' = [own EXCEPT ![r].delivered = @ + 1]
    /\ UNCHANGED answer

Stop(r) ==
    /\ Worker(r, "idle") /\ tasks[r] # <<>> /\ Head1(r).kind = "stop"
    /\ Goes("worker", r, "stopped") /\ Pop(r)
    /\ UNCHANGED <<rows, evidence, own, flow, answer, poisoned, gone, calls, faults>>

\* A sealed worker fails the tasks it takes without running them; any other task is
\* taken and waits at its gate.
Take(r) ==
    /\ Worker(r, "idle") /\ tasks[r] # <<>> /\ Head1(r).kind # "stop"
    /\ CASE r \notin poisoned -> Goes("worker", r, "w:gate") /\ UNCHANGED <<tasks, own, answer>>
         [] r \in poisoned /\ Head1(r).kind = "job" -> Skips(r, "error")
         [] OTHER -> Answers(r, "failed")
    /\ UNCHANGED <<rows, evidence, flow, poisoned, gone, calls, faults>>

\* A cancelled task does not reach the provider, and neither does a job of a queue
\* that has become unavailable.
Refuse(r) ==
    /\ Worker(r, "w:gate")
    /\ \/ Head1(r).gate = "cancelled"
       \/ Head1(r).gate = "armed" /\ Head1(r).kind = "job" /\ own[r].err # "none"
    /\ IF Head1(r).kind = "job" THEN Skips(r, own[r].err) ELSE Answers(r, "failed")
    /\ UNCHANGED <<rows, evidence, flow, poisoned, gone, calls, faults>>

Ready(r, kind) == Worker(r, "w:gate") /\ Head1(r) = [kind |-> kind, gate |-> "armed"]

EnterLane(r) ==
    /\ \/ Ready(r, "initialize") /\ Lane(r, "w:barrier", TRUE)
       \/ Ready(r, "job") /\ own[r].err = "none" /\ Lane(r, "w:frame", TRUE)
    /\ UNCHANGED <<rows, evidence, own, flow, tasks, answer, poisoned, gone, calls, faults>>

\* A provider call ends in success or failure, and the ranks agree on it in the lane;
\* a provider that lost its own collectives raises at once, without the agreement.
ProviderLost(r) ==
    /\ faults < MaxFaults /\ faults' = faults + 1
    /\ gone' = [gone EXCEPT !["worker"] = @ \cup {r}]

Initialize(r) ==
    /\ Has("worker", r, "w:barrier")
    /\ Enters(r, "initialize")
    /\ \/ /\ \E ok \in BOOLEAN : Outcome(ok) /\ Lane(r, "w:initialized", ok)
          /\ UNCHANGED <<own, tasks, answer, gone>>
       \/ ProviderLost(r) /\ Answers(r, "lost")
    /\ UNCHANGED <<rows, evidence, flow, poisoned>>

Execute(r) ==
    /\ Has("worker", r, "w:frame")
    /\ Enters(r, "execute")
    /\ \/ /\ \E ok \in BOOLEAN : Outcome(ok) /\ Lane(r, "w:executed", ok)
          /\ UNCHANGED <<own, tasks, answer, gone>>
       \/ ProviderLost(r) /\ Skips(r, "lost")
    /\ UNCHANGED <<rows, evidence, flow, poisoned>>

FinalizeSession(r) ==
    /\ Ready(r, "finalize")
    /\ Enters(r, "finalize")
    /\ \/ /\ \E ok \in BOOLEAN : Outcome(ok) /\ Lane(r, "w:finalized", ok)
          /\ UNCHANGED <<own, tasks, answer, gone>>
       \/ ProviderLost(r) /\ Answers(r, "lost")
    /\ UNCHANGED <<rows, evidence, flow, poisoned>>

\* abort has no agreement of its own.
AbortSession(r) ==
    /\ Ready(r, "abort")
    /\ Enters(r, "abort")
    /\ \/ \E ok \in BOOLEAN : Outcome(ok) /\ Answers(r, IF ok THEN "ok" ELSE "failed") /\ UNCHANGED gone
       \/ ProviderLost(r) /\ Answers(r, "lost")
    /\ UNCHANGED <<rows, evidence, flow, poisoned>>

CallAgreed(r) ==
    /\ \E at \in {"w:initialized", "w:finalized"} : Has("worker", r, at)
    /\ Answers(r, IF All("worker") THEN "ok" ELSE "failed")
    /\ UNCHANGED <<rows, evidence, flow, poisoned, gone, calls, faults>>

\* Only a frame that every rank executed is acknowledged in the journals.
Acknowledge(r) ==
    /\ Has("worker", r, "w:executed")
    /\ IF All("worker")
       THEN /\ \E ok \in BOOLEAN : Outcome(ok) /\ Lane(r, "w:acknowledged", ok)
            /\ UNCHANGED <<own, tasks, answer>>
       ELSE Skips(r, "none") /\ UNCHANGED faults
    /\ UNCHANGED <<rows, evidence, flow, poisoned, gone, calls>>

\* The report may still fail to be built on one rank: its queue then needs the abort.
Acknowledged(r) ==
    /\ Has("worker", r, "w:acknowledged")
    /\ \/ ~All("worker") /\ Skips(r, "none") /\ UNCHANGED faults
       \/ All("worker") /\ Outcome(TRUE) /\ Delivers(r)
       \/ All("worker") /\ Outcome(FALSE) /\ Skips(r, "error")
    /\ UNCHANGED <<rows, evidence, flow, poisoned, gone, calls>>

LaneLost(r) ==
    /\ thread["worker"][r].mode = "lost"
    /\ IF Head1(r).kind = "job" THEN Skips(r, "lost") ELSE Answers(r, "lost")
    /\ UNCHANGED <<rows, evidence, flow, poisoned, gone, calls, faults>>

-----------------------------------------------------------------------------
MainStep(r) ==
    \/ OpenLane(r) \/ ListCommitted(r) \/ CarryVerdict(r) \/ StartWorker(r) \/ OpenSession(r)
    \/ BuildQueue(r) \/ PrepareInitialize(r) \/ CompleteInitialize(r) \/ PrepareJob(r) \/ FlushJob(r)
    \/ OpenAgreed(r) \/ Listed(r) \/ InitializeAdmitted(r) \/ InitializeAgreed(r)
    \/ ReplayAdmitted(r) \/ ReplayDelivered(r) \/ Opened(r)
    \/ Step(r) \/ Stepped(r) \/ FrameAdmitted(r) \/ FrameDelivered(r)
    \/ Inventories(r) \/ Preflighted(r) \/ LaneHealth(r) \/ HealthAgreed(r) \/ SealWorker(r) \/ WorkerSealed(r)
    \/ ChooseRoute(r) \/ RouteAgreed(r)
    \/ \E kind \in Cleanup : \/ PrepareCleanup(r, kind) \/ CleanupPrepared(r, kind) \/ EnqueueCleanup(r, kind)
                             \/ CleanupAdmitted(r, kind) \/ CompleteCleanup(r, kind) \/ CleanupCompleted(r, kind)
    \/ CloseLane(r) \/ LaneClosed(r) \/ Reports(r) \/ Reported(r)
    \/ CloseReadiness(r) \/ RootClosed(r) \/ CloseReady(r) \/ CloseWorker(r) \/ WorkerClosed(r) \/ Closed(r)
    \/ IdentityRefused(r) \/ WorldLost(r) \/ SealLocally(r) \/ SealedAfterLoss(r)

WorkerStep(r) ==
    \/ Stop(r) \/ Take(r) \/ Refuse(r) \/ EnterLane(r) \/ Initialize(r) \/ Execute(r) \/ FinalizeSession(r)
    \/ AbortSession(r) \/ CallAgreed(r) \/ Acknowledge(r) \/ Acknowledged(r) \/ LaneLost(r)

Next ==
    \/ \E r \in Ranks : MainStep(r) \/ WorkerStep(r)
    \/ \E t \in Threads : Gather(t)
    \/ \E t \in Threads, r \in Ranks : Lose(t, r) \/ Detect(t, r)

Spec == Init /\ [][Next]_vars

\* Every thread is scheduled and MPI completes a collective that all ranks entered.
FairSpec ==
    /\ Spec
    /\ \A r \in Ranks : WF_vars(MainStep(r)) /\ WF_vars(WorkerStep(r))
    /\ \A t \in Threads : WF_vars(Gather(t))

-----------------------------------------------------------------------------
Lost(t) == gone[t] # {}

\* Until a WORLD collective is lost the ranks never meet in different collectives, on
\* WORLD or on the lane, and no rank leaves the run while a peer waits for it: neither
\* local failures nor lost lane collectives part them.  After such a loss the code does
\* let them part; a rank whose publisher recorded it then enters the collectives of
\* further steps and no other.
CollectivesMatch ==
    /\ ~Lost("main") =>
          /\ \A t \in Threads : \A r, s \in Ranks :
                thread[t][r].mode = "wait" /\ thread[t][s].mode = "wait" => thread[t][r].at = thread[t][s].at
          /\ \A r, s \in Ranks : thread["main"][r].at = "ended" => thread["main"][s].mode # "wait"
    /\ \A r \in Ranks : flow[r].sealed /\ thread["main"][r].mode = "wait" => thread["main"][r].at = "s:step"

IsPrefixOf(a, b) == Len(a) <= Len(b) /\ \A i \in DOMAIN a : a[i] = b[i]

Cleanups(r) == SelectSeq(calls[r], LAMBDA c : c \in Cleanup)

KindOf(operation) == IF operation = "execute" THEN "job" ELSE operation

\* The providers are entered by the same operations in the same order on every rank.
\* A rank is one call ahead of another only while the other has the same call
\* enqueued and not cancelled, or once a collective was lost; and no provider is
\* finalized or aborted twice, or finalized on one rank and aborted on another.
ProviderCallsAgree ==
    \A r, s \in Ranks :
        /\ Len(Cleanups(r)) <= 1
        /\ Cleanups(r) # <<>> /\ Cleanups(s) # <<>> => Cleanups(r) = Cleanups(s)
        /\ Len(calls[r]) > Len(calls[s]) =>
            /\ IsPrefixOf(calls[s], calls[r])
            /\ \/ gone # [t \in Threads |-> {}]
               \/ /\ Len(calls[r]) = Len(calls[s]) + 1
                  /\ tasks[s] # <<>> /\ tasks[s][1].gate # "cancelled"
                  /\ tasks[s][1].kind = KindOf(calls[r][Len(calls[r])])

\* Either every rank returns from the run or none does, unless WORLD was lost; a run
\* that returns has delivered every frame of its steps on every rank; and when a rank
\* calls the run closed, no rank holds any authority of it or a running worker.
OutcomesAgree ==
    \A r, s \in Ranks :
        /\ flow[r].outcome = "returned" =>
             /\ flow[s].outcome = "raised" => gone["main"] # {}
             /\ own[s].delivered = NumSteps + NumReplays
             /\ thread["worker"][s].at = "stopped"
        /\ own[r].phase = "closed" =>
             /\ own[s].lane = "none" /\ own[s].session = "none" /\ own[s].queue = "none"
             /\ own[s].worker = "none" /\ thread["worker"][s].at \in {"none", "stopped"}

\* A collective was lost and one of the rank's threads waits in another one, or in
\* the same, for a peer that may never come.
Stranded(r) == (\E t \in Threads : Lost(t)) /\ \E t \in Threads : thread[t][r].mode = "wait"

\* Every rank comes back from the run, or is left waiting in a collective after one
\* was lost: no gate, full queue, pending job, worker call or join blocks it for ever.
RunReturns == \A r \in Ranks : <>[](flow[r].outcome # "none" \/ Stranded(r))
=============================================================================
