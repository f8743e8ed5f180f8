-------------------------- MODULE ObserverDelivery --------------------------
(***************************************************************************)
(* Post-commit delivery of live frames by one active process: the          *)
(* simulation thread that prepares, withdraws or hands off one frame per   *)
(* step (src/python/pops/runtime/_runtime_consumers.py), the bounded queue *)
(* and the worker thread that deliver it                                   *)
(* (src/python/pops/runtime/_observer_runtime.py), and the durable journal *)
(* between them, over several processes separated by crashes.  It is the   *)
(* SERIAL and ROOT mode: the worker never enters MPI.                      *)
(*                                                                         *)
(* Frames are numbered in clock order.  A run identity describes the       *)
(* execution and not the invocation, so a process restarted from an        *)
(* earlier checkpoint produces the frames of the lost steps again, with    *)
(* the same identities.                                                    *)
(***************************************************************************)
EXTENDS DurableJournal, Sequences

CONSTANTS
    NumFrames,       \* frames of the whole run
    Capacity,        \* queue_capacity of the consumer
    MaxAttempts,     \* max_attempts of the consumer
    MaxProcesses,    \* bound: processes started one after the other
    MaxWithdrawals,  \* bound: steps withdrawn after their frame was prepared
    MaxFaults        \* bound: system calls of the journal that fail

ASSUME DeliveryAssumption ==
    /\ NumFrames \in Nat \ {0} /\ Frames = 1..NumFrames
    /\ Threads = {"main", "worker"}
    /\ Capacity \in Nat \ {0} /\ MaxAttempts \in Nat \ {0}
    /\ {MaxProcesses, MaxWithdrawals, MaxFaults} \subseteq Nat

VARIABLES
    main,      \* where the simulation thread stands
    step,      \* the frame of the current step, NumFrames + 1 when none is left
    record,    \* state of the journal record the current frame was prepared with
    replay,    \* pending records of earlier processes still to be submitted, in clock order
    fifo,      \* the worker's queue of tasks
    gate,      \* sequence number of the submission whose gate is unresolved, or 0
    cancelled, \* sequence numbers whose gate was cancelled
    queue,     \* counters and flags of the PostCommitObserverQueue
    item,      \* the task the worker is executing
    wpc,       \* where the worker thread stands
    attempt,   \* delivery attempt of the current job
    answer,    \* outcome of the lifecycle call the simulation thread waits for
    closes,    \* close attempts of this run; a failed run has only the last one
    ledger     \* history the properties are about, and the bounded counters

threadVars == <<main, step, record, replay, fifo, gate, cancelled, queue, item, wpc, attempt,
                answer, closes>>
vars == <<journalVars, threadVars, ledger>>

NoTask == [kind |-> "none", frame |-> 0, seq |-> 0]
FreshQueue == [next |-> 1, pending |-> 0, reports |-> <<>>, closeRequested |-> FALSE,
               closePrepared |-> FALSE, closed |-> FALSE]
Last == NumFrames + 1

MainPlaces == {"open", "opening", "initialize", "initializing", "replay", "prepare", "preparing",
               "staged", "withdrawing", "submit", "committing", "enqueue", "consensus",
               "close", "drain", "finalizing", "abort", "aborting", "stop", "join",
               "ended", "retained"}
WorkerPlaces == {"get", "gate", "execute", "acknowledge", "record skipped", "record delivered",
                 "call", "stopped", "unstarted"}
Report == [seq : 1..2 * NumFrames, frame : Frames, status : {"delivered", "skipped"}]

TypeOK ==
    /\ JournalTypeOK
    /\ main \in MainPlaces /\ wpc \in WorkerPlaces
    /\ step \in 1..Last /\ record \in States \cup {"none"}
    /\ replay \subseteq Frames /\ fifo \in Seq([kind : {"job", "initialize", "finalize", "abort", "stop"},
                                               frame : Frames \cup {0}, seq : Nat])
    /\ gate \in Nat /\ cancelled \subseteq 1..2 * NumFrames
    /\ queue.reports \in Seq(Report)
    /\ queue.pending \in 0..Capacity
    /\ attempt \in 0..MaxAttempts /\ answer \in {"none", "ok", "failed"} /\ closes \in 0..2

\* A process starts with fresh threads; step is where its checkpoint left it.
StartProcess(s) ==
    /\ main' = "open" /\ step' = s /\ record' = "none" /\ replay' = {}
    /\ fifo' = <<>> /\ gate' = 0 /\ cancelled' = {} /\ queue' = FreshQueue
    /\ item' = NoTask /\ wpc' = "unstarted" /\ attempt' = 0 /\ answer' = "none" /\ closes' = 0

Init ==
    /\ JournalInit
    /\ main = "open" /\ step = 1 /\ record = "none" /\ replay = {}
    /\ fifo = <<>> /\ gate = 0 /\ cancelled = {} /\ queue = FreshQueue
    /\ item = NoTask /\ wpc = "unstarted" /\ attempt = 0 /\ answer = "none" /\ closes = 0
    /\ ledger = [handed |-> {}, offered |-> {}, entered |-> {}, executed |-> {},
                 processes |-> 1, withdrawals |-> 0, faults |-> 0, exposed |-> FALSE]

-----------------------------------------------------------------------------
Main(at) == main = at
Goes(at) == main' = at
Finished == op["main"].at \in {"returned", "raised"}
Raised == op["main"].at = "raised"
Submit(task) == fifo' = Append(fifo, task)

\* begin_post_commit_consumers: open and recover the journal, list what earlier
\* processes left, construct the queue, whose constructor initializes the provider
\* through the worker, and submit the pending records.  A failure before the queue
\* exists leaves the pending session to be aborted by the close of the run.
OpenJournal ==
    /\ Main("open") /\ Enter("main", "recover", 0)
    /\ Goes("opening")
    /\ UNCHANGED <<step, record, replay, fifo, gate, cancelled, queue, item, wpc, attempt, answer, closes, ledger>>

InspectJournal_Fault ==
    /\ Main("opening") /\ Finished
    /\ Take("main")
    /\ Goes(IF Raised THEN "ended" ELSE "initialize")
    /\ UNCHANGED <<replay, step, record, fifo, gate, cancelled, queue, item, wpc, attempt, answer, closes, ledger>>

InspectJournal ==
    /\ Main("opening") /\ Finished
    /\ Take("main")
    /\ Goes(IF Raised THEN "ended" ELSE "initialize")
    /\ replay' = IF Raised THEN {} ELSE ListPending
    /\ UNCHANGED <<step, record, fifo, gate, cancelled, queue, item, wpc, attempt, answer, closes, ledger>>

ConstructQueue ==
    /\ Main("initialize")
    /\ wpc' = "get"
    /\ Submit([NoTask EXCEPT !.kind = "initialize"])
    /\ answer' = "none" /\ Goes("initializing")
    /\ UNCHANGED <<journalVars, step, record, replay, gate, cancelled, queue, item, attempt, closes, ledger>>

\* Without a session there is neither worker nor queue, and nothing to close.
SessionFails ==
    /\ Main("initialize")
    /\ Goes("ended")
    /\ UNCHANGED <<journalVars, step, record, replay, fifo, gate, cancelled, queue, item, wpc, attempt, answer, closes, ledger>>

Initialized ==
    /\ Main("initializing") /\ answer # "none"
    /\ Goes(IF answer = "ok" THEN "replay" ELSE "abort")
    /\ UNCHANGED <<journalVars, step, record, replay, fifo, gate, cancelled, queue, item, wpc, attempt, answer, closes, ledger>>

\* _enqueue_detached waits for room and assigns the next sequence number.
Room == queue.pending < Capacity
Enqueued(f, unresolved) ==
    /\ Room
    /\ Submit([kind |-> "job", frame |-> f, seq |-> queue.next])
    /\ queue' = [queue EXCEPT !.next = @ + 1, !.pending = @ + 1]
    /\ gate' = IF unresolved THEN queue.next ELSE 0

Replay ==
    /\ Main("replay")
    /\ \/ /\ replay = {}
          /\ Goes(IF step = Last THEN "close" ELSE "prepare")
          /\ UNCHANGED <<replay, fifo, queue, gate>>
       \/ \E f \in replay :
             /\ \A g \in replay : f <= g
             /\ Enqueued(f, FALSE)
             /\ replay' = replay \ {f}
             /\ UNCHANGED main
    /\ UNCHANGED <<journalVars, step, record, cancelled, item, wpc, attempt, answer, closes, ledger>>

-----------------------------------------------------------------------------
\* _prepare_live_visualization: a failed preparation fails the step and the run.
Prepare ==
    /\ Main("prepare") /\ Enter("main", "prepare", step)
    /\ Goes("preparing")
    /\ UNCHANGED <<step, record, replay, fifo, gate, cancelled, queue, item, wpc, attempt, answer, closes, ledger>>

Prepared ==
    /\ Main("preparing") /\ Finished
    /\ Take("main")
    /\ record' = IF Raised THEN "none" ELSE op["main"].result
    /\ Goes(IF Raised THEN "close" ELSE "staged")
    /\ closes' = IF Raised THEN 1 ELSE closes
    /\ UNCHANGED <<step, replay, fifo, gate, cancelled, queue, item, wpc, attempt, answer, ledger>>

\* discard and rollback of the publication: only a record that is still in the
\* prepared state is discarded in the journal.
Withdraw ==
    /\ Main("staged") /\ ledger.withdrawals < MaxWithdrawals
    /\ ledger' = [ledger EXCEPT !.withdrawals = @ + 1]
    /\ Goes("withdrawing")
    /\ IF record = "prepared"
       THEN Enter("main", "discard", step)
       ELSE UNCHANGED journalVars
    /\ UNCHANGED <<step, record, replay, fifo, gate, cancelled, queue, item, wpc, attempt, answer, closes>>

\* The step is retried, or the run fails and is closed.
Withdrawn ==
    /\ Main("withdrawing")
    /\ record = "prepared" => Finished
    /\ IF record = "prepared" THEN Take("main") ELSE UNCHANGED journalVars
    /\ record' = "none"
    /\ main' \in IF Raised THEN {"close"} ELSE {"prepare", "close"}
    /\ closes' = IF main' = "close" THEN 1 ELSE closes
    /\ UNCHANGED <<step, replay, fifo, gate, cancelled, queue, item, wpc, attempt, answer, ledger>>

\* finalize marks the publication before it submits, so a retried finalizer never
\* submits twice.  A record that was already committed when the frame was prepared
\* was replayed when the run began and is not submitted again.
Finalize ==
    /\ Main("staged")
    /\ IF record = "prepared"
       THEN /\ Enter("main", "commit", step)
            /\ Goes("committing")
            /\ ledger' = [ledger EXCEPT !.offered = @ \cup {step}]
       ELSE /\ Goes("consensus")
            /\ ledger' = [ledger EXCEPT !.handed = @ \cup {step}]
            /\ UNCHANGED journalVars
    /\ UNCHANGED <<step, record, replay, fifo, gate, cancelled, queue, item, wpc, attempt, answer, closes>>

\* A commit that fails is a recorded delivery failure: the step stays accepted.
Committed ==
    /\ Main("committing") /\ Finished
    /\ Take("main")
    /\ ledger' = IF Raised THEN ledger ELSE [ledger EXCEPT !.handed = @ \cup {step}]
    /\ Goes(IF ~Raised /\ op["main"].result = "pending" THEN "enqueue" ELSE "consensus")
    /\ UNCHANGED <<step, record, replay, fifo, gate, cancelled, queue, item, wpc, attempt, answer, closes>>

PrepareSubmission ==
    /\ Main("enqueue")
    /\ Enqueued(step, TRUE)
    /\ Goes("consensus")
    /\ UNCHANGED <<journalVars, step, record, replay, cancelled, item, wpc, attempt, answer, closes, ledger>>

\* The gate of a cancelled submission is left unresolved.
Resolve_Fault ==
    /\ Main("consensus")
    /\ \/ gate' = gate \/ gate' = 0
    /\ record' = "none" /\ step' = step + 1
    /\ Goes(IF step + 1 = Last THEN "close" ELSE "prepare")
    /\ UNCHANGED <<journalVars, cancelled, replay, fifo, queue, item, wpc, attempt, answer, closes, ledger>>

\* _post_commit_root_consensus: a peer may reject, and then the gate is cancelled.
Resolve ==
    /\ Main("consensus")
    /\ cancelled' \in {cancelled, cancelled \cup ({gate} \ {0})}
    /\ gate' = 0 /\ record' = "none"
    /\ step' = step + 1
    /\ Goes(IF step + 1 = Last THEN "close" ELSE "prepare")
    /\ UNCHANGED <<journalVars, replay, fifo, queue, item, wpc, attempt, answer, closes, ledger>>

-----------------------------------------------------------------------------
\* flush_live_visualizations(close=True), entered by the end of the run and once
\* more by its error handler when the first attempt failed: prepare_close refuses
\* new work and waits for the accepted jobs, complete_close finalizes the provider
\* on the worker, and only then is the worker stopped and joined.
Close ==
    /\ Main("close")
    /\ queue' = [queue EXCEPT !.closeRequested = TRUE]
    /\ closes' = closes + 1
    /\ Goes("drain")
    /\ UNCHANGED <<journalVars, step, record, replay, fifo, gate, cancelled, item, wpc, attempt, answer, ledger>>

Drained ==
    /\ Main("drain")
    /\ queue.closePrepared \/ queue.pending = 0
    /\ queue' = [queue EXCEPT !.closePrepared = TRUE]
    /\ Submit([NoTask EXCEPT !.kind = "finalize"])
    /\ answer' = "none" /\ Goes("finalizing")
    /\ UNCHANGED <<journalVars, step, record, replay, gate, cancelled, item, wpc, attempt, closes, ledger>>

Finalized ==
    /\ Main("finalizing") /\ answer # "none"
    /\ queue' = [queue EXCEPT !.closed = (answer = "ok")]
    /\ Goes(CASE answer = "ok" -> "stop"
              [] answer = "failed" /\ closes < 2 -> "close"
              [] OTHER -> "retained")
    /\ UNCHANGED <<journalVars, step, record, replay, fifo, gate, cancelled, item, wpc, attempt, answer, closes, ledger>>

\* The close of a run that failed to open aborts its pending session.
AbortSession ==
    /\ Main("abort")
    /\ Submit([NoTask EXCEPT !.kind = "abort"])
    /\ answer' = "none" /\ Goes("aborting")
    /\ UNCHANGED <<journalVars, step, record, replay, gate, cancelled, queue, item, wpc, attempt, closes, ledger>>

Aborted ==
    /\ Main("aborting") /\ answer # "none"
    /\ Goes(IF answer = "ok" THEN "stop" ELSE "retained")
    /\ UNCHANGED <<journalVars, step, record, replay, fifo, gate, cancelled, queue, item, wpc, attempt, answer, closes, ledger>>

StopWorker ==
    /\ Main("stop")
    /\ Submit([NoTask EXCEPT !.kind = "stop"])
    /\ Goes("join")
    /\ UNCHANGED <<journalVars, step, record, replay, gate, cancelled, queue, item, wpc, attempt, answer, closes, ledger>>

Joined ==
    /\ Main("join") /\ wpc = "stopped"
    /\ Goes("ended")
    /\ UNCHANGED <<journalVars, step, record, replay, fifo, gate, cancelled, queue, item, wpc, attempt, answer, closes, ledger>>

-----------------------------------------------------------------------------
\* PostCommitObserverWorker._run, one task after the other in submission order.
Get ==
    /\ wpc = "get" /\ fifo # <<>>
    /\ item' = Head(fifo) /\ fifo' = Tail(fifo)
    /\ wpc' = CASE Head(fifo).kind = "job" -> "gate"
                [] Head(fifo).kind = "stop" -> "stopped"
                [] OTHER -> "call"
    /\ attempt' = 0
    /\ UNCHANGED <<journalVars, main, step, record, replay, gate, cancelled, queue, answer, closes, ledger>>

\* A lifecycle call of the provider: initialize, finalize or abort.
Call ==
    /\ wpc = "call"
    /\ answer' \in {"ok", "failed"}
    /\ item' = NoTask /\ wpc' = "get"
    /\ UNCHANGED <<journalVars, main, step, record, replay, fifo, gate, cancelled, queue, attempt, closes, ledger>>

\* _process_job waits until the simulation thread resolved the submission.
PassGate ==
    /\ wpc = "gate" /\ item.seq # gate
    /\ wpc' = IF item.seq \in cancelled THEN "record skipped" ELSE "execute"
    /\ UNCHANGED <<journalVars, main, step, record, replay, fifo, gate, cancelled, queue, item, attempt, answer, closes, ledger>>

\* _deliver: at most MaxAttempts executions, each followed by the acknowledgement.
Execute ==
    /\ wpc = "execute"
    /\ attempt' = attempt + 1
    /\ \/ /\ Enter("worker", "deliver", item.frame)
          /\ wpc' = "acknowledge"
          /\ ledger' = [ledger EXCEPT !.entered = @ \cup {item.frame}, !.executed = @ \cup {item.frame}]
       \/ /\ ledger' = [ledger EXCEPT !.entered = @ \cup {item.frame}]
          /\ wpc' = IF attempt + 1 < MaxAttempts THEN "execute" ELSE "record skipped"
          /\ UNCHANGED journalVars
    /\ UNCHANGED <<main, step, record, replay, fifo, gate, cancelled, queue, item, answer, closes>>

Acknowledge ==
    /\ wpc = "acknowledge" /\ op["worker"].at \in {"returned", "raised"}
    /\ Take("worker")
    /\ wpc' = CASE op["worker"].at = "returned" -> "record delivered"
                [] op["worker"].at = "raised" /\ attempt < MaxAttempts -> "execute"
                [] OTHER -> "record skipped"
    /\ UNCHANGED <<main, step, record, replay, fifo, gate, cancelled, queue, item, attempt, answer, closes, ledger>>

\* Skipped jobs are not reported.
Record ==
    /\ wpc \in {"record delivered", "record skipped"}
    /\ queue' = [queue EXCEPT !.pending = @ - 1,
                    !.reports = Append(@, [seq |-> item.seq, frame |-> item.frame,
                                           status |-> IF wpc = "record skipped" THEN "skipped" ELSE "delivered"])]
    /\ item' = NoTask /\ wpc' = "get" /\ attempt' = 0
    /\ UNCHANGED <<journalVars, main, step, record, replay, fifo, gate, cancelled, answer, closes, ledger>>

-----------------------------------------------------------------------------
JournalSteps(t) ==
    /\ JournalStep(t)
    /\ UNCHANGED <<threadVars, ledger>>

\* A promotion is abandoned between its link and the fsync that makes it durable:
\* the process is killed there, or the fsync fails.  Later calls find the link, take
\* the promotion for done and remove its source, and nothing syncs the link again.
Abandons(t, at) == at = "sync" /\ Target(t) # "prepared"
Undurable == \E s \in {"pending", "delivered"} : ~(live[s] \subseteq disk[s])

IOFails ==
    /\ ledger.faults < MaxFaults
    /\ \E t \in Threads, at \in {"link", "sync", "unlink", "sync unlink"} :
          /\ CallFails(t, at)
          /\ ledger' = [ledger EXCEPT !.faults = @ + 1, !.exposed = @ \/ Abandons(t, at)]
    /\ UNCHANGED threadVars

\* The process or its machine dies, or the process ends, and another one restarts
\* from a checkpoint of any step so far.
Restart ==
    /\ ledger.processes < MaxProcesses
    /\ \/ /\ ProcessCrash
          /\ ledger' = [ledger EXCEPT !.processes = @ + 1, !.exposed = @ \/ Undurable]
       \/ /\ MachineCrash
          /\ ledger' = [ledger EXCEPT !.processes = @ + 1]
    /\ \E s \in 1..step : StartProcess(s)

MainStep ==
    \/ OpenJournal \/ InspectJournal \/ ConstructQueue \/ SessionFails \/ Initialized \/ Replay
    \/ Prepare \/ Prepared \/ Withdraw \/ Withdrawn \/ Finalize \/ Committed
    \/ PrepareSubmission \/ Resolve
    \/ Close \/ Drained \/ Finalized \/ AbortSession \/ Aborted \/ StopWorker \/ Joined
    \/ JournalSteps("main")

WorkerStep == Get \/ Call \/ PassGate \/ Execute \/ Acknowledge \/ Record \/ JournalSteps("worker")

Next == MainStep \/ WorkerStep \/ IOFails \/ Restart

Spec == Init /\ [][Next]_vars

\* Both threads are scheduled: each one runs on as long as it is not waiting.
FairSpec == Spec /\ WF_vars(MainStep) /\ WF_vars(WorkerStep)

-----------------------------------------------------------------------------
\* As long as no promotion was abandoned between its link and its fsync, a frame that
\* was handed off (commit returned, or it was found committed) keeps a durable link
\* until it is acknowledged and after: no crash of the machine at any system call, no
\* kill of the process anywhere else and no other failing call loses it.  Once one
\* was abandoned the journal does lose frames, against its docstring.
HandedOffSurvives ==
    ~ledger.exposed => ledger.handed \subseteq disk["pending"] \cup disk["delivered"]

\* A frame whose acknowledgement is durable is never delivered again, neither by the
\* replay of a later process nor by a step that is computed a second time.  Only the
\* retries of the job that acknowledged it may still repeat the execution, when the
\* acknowledgement was durable but its cleanup failed.  (Until a promotion is abandoned.)
AcknowledgedIsFinal ==
    [][Execute /\ attempt = 0 /\ ~ledger.exposed => item.frame \notin disk["delivered"]]_vars

\* A run that closed its queue accounts for every frame that was ever handed off,
\* by it or by the processes before it: the acknowledgement is durable, or the frame
\* is still pending in the journal and this run reported it as skipped.  (Until a
\* promotion is abandoned.)
NoSilentLoss ==
    queue.closed /\ ~ledger.exposed =>
        \A f \in ledger.handed \ disk["delivered"] :
            /\ f \in disk["pending"]
            /\ \E i \in DOMAIN queue.reports : queue.reports[i] = [seq |-> i, frame |-> f, status |-> "skipped"]

\* Once processes stop being killed, the last one comes back from its run: neither
\* a gate, nor the bounded queue, nor the join of the worker blocks it for ever.
RunReturns == <>[](main \in {"ended", "retained"})

\* The journal, the queue and the two threads together keep the journal's contract.
\* A link counts as committed or delivered from the moment it is durable.  The
\* contract lapses when a promotion is abandoned.
StatusOf(f) ==
    IF f \in disk["delivered"] THEN "delivered"
    ELSE IF f \in disk["pending"] THEN "committed"
    ELSE IF \E s \in States : f \in live[s] \cup disk[s] THEN "prepared" ELSE "absent"

Contract == INSTANCE JournalContract WITH
    status <- [f \in Frames |-> StatusOf(f)],
    offered <- ledger.offered,
    executed <- ledger.executed,
    lapsed <- ledger.exposed

ImplementsJournalContract == Contract!Spec
=============================================================================
