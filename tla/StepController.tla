--------------------------- MODULE StepController ---------------------------
(***************************************************************************)
(* ErrorControlledDt: the controller and its retry cursor                  *)
(* (python/pops/runtime/_step_strategy.py) together with the clock, the    *)
(* queued proposal and the checkpoint validation of TemporalRestartState   *)
(* (_temporal_restart.py).                                                 *)
(*                                                                         *)
(* Times and intervals are multiples of one unit, kept to Precision        *)
(* significant bits like the binary64 numbers of the code.  Whether an     *)
(* attempt is accepted is the engine's choice.                             *)
(***************************************************************************)
EXTENDS Integers, Sequences

CONSTANTS DtInit, DtMin, DtMax, MaxRejections,  \* fields of ErrorControlledDt
          Shrink, Growth,   \* as fractions <<numerator, denominator>>
          Deadlines,        \* hard boundaries of every_dt consumers
          EndTimes,         \* values of t_end
          MaxRuns,          \* bound: calls of _run
          Precision,        \* bits of a significand
          None              \* Python's None

ASSUME ConstantsAssumption ==
  /\ {DtInit, DtMin, DtMax, Precision} \subseteq Nat \ {0}
  /\ DtMin <= DtInit /\ DtInit <= DtMax
  /\ MaxRejections \in Nat \ {0} /\ MaxRuns \in Nat
  /\ Shrink[1] < Shrink[2] /\ Growth[1] >= Growth[2]
  /\ Deadlines \subseteq Nat /\ EndTimes \subseteq Nat
  /\ None \notin Int

VARIABLES
  pc,
  runs, steps,  \* calls of _run, accepted steps of the current one
  limit,        \* t_end of the running call
  time, step,   \* native clock; the accepted clock of the temporal state
  last,         \* controller_state["last_accepted_dt"]
  queue,        \* event_queue
  status,       \* status; synchronized exactly when it is "accepted"
  nextDt,       \* ErrorControlledDtController.next_dt
  proposal, event, attempts,  \* the retry cursor: proposal[0], queued_event[0]
  env,          \* envelope snapshot of the step
  entry         \* envelope snapshot of the run

cursor == <<proposal, event, attempts>>
vars == <<pc, runs, steps, limit, time, step, last, queue, status, nextDt,
          cursor, env, entry>>

Smaller(a, b) == IF a <= b THEN a ELSE b

\* n / d rounded to nearest, ties to even, at the exponent e.
RoundAt(n, d, e) ==
  LET w == d * 2 ^ e
      q == n \div w
      r == n % w
  IN 2 ^ e * (IF 2 * r > w \/ (2 * r = w /\ q % 2 = 1) THEN q + 1 ELSE q)

\* The floating-point number nearest to n / d.
Float(n, d) ==
  RoundAt(n, d, CHOOSE e \in 0 .. 40 :
                  /\ n < d * 2 ^ (Precision + e)
                  /\ e = 0 \/ n >= d * 2 ^ (Precision + e - 1))

Plus(a, b) == Float(a + b, 1)
Times(a, f) == Float(a * f[1], f[2])

\* queue_error_controlled_proposal
Proposal(dt, t, s) == [dt |-> dt, time |-> Plus(t, dt), cursor |-> s + 1]

Snapshot == [time |-> time, step |-> step, last |-> last, queue |-> queue,
             nextDt |-> nextDt]

\* Native rollback and _restore_step_envelope, or the restoration of the run
\* entry.
RestoreTo(s) ==
  /\ time' = s.time /\ step' = s.step /\ last' = s.last /\ queue' = s.queue
  /\ nextDt' = s.nextDt /\ status' = "accepted"

Init ==
  /\ pc = "idle" /\ runs = 0 /\ steps = 0 /\ limit = 0
  /\ time = 0 /\ step = 0 /\ last = None /\ queue = <<>> /\ status = "accepted"
  /\ nextDt = DtInit
  /\ proposal = 0 /\ event = None /\ attempts = 0
  /\ env = Snapshot /\ entry = Snapshot
-----------------------------------------------------------------------------
\* begin_run publishes the first proposal of a fresh simulation.
RunBegin ==
  /\ pc = "idle" /\ runs < MaxRuns
  /\ runs' = runs + 1 /\ steps' = 0
  /\ limit' \in {t \in EndTimes : t > time}
  /\ entry' = Snapshot
  /\ queue' = IF step = 0 /\ last = None /\ queue = <<>>
                THEN <<Proposal(DtInit, time, step)>> ELSE queue
  /\ pc' = "loop"
  /\ UNCHANGED <<time, step, last, status, nextDt, cursor, env>>

RunEnds_Fault ==
  /\ pc = "loop" /\ time > limit
  /\ pc' = "idle"
  /\ UNCHANGED <<runs, steps, limit, time, step, last, queue, status, nextDt,
                 cursor, env, entry>>

RunEnds ==
  /\ pc = "loop" /\ time >= limit
  /\ pc' = "idle"
  /\ UNCHANGED <<runs, steps, limit, time, step, last, queue, status, nextDt,
                 cursor, env, entry>>

\* prepare_attempts: a proposal that was clipped replaces the queued one.
PrepareAttempts ==
  /\ pc = "loop" /\ time < limit
  /\ \E end \in {limit} \cup {d \in Deadlines : time < d /\ d < limit} :
       proposal' = Smaller(Smaller(nextDt, DtMax), Float(end - time, 1))
  /\ event' = Proposal(proposal', time, step)
  /\ queue' = <<event'>>
  /\ attempts' = 0
  /\ pc' = "enter"
  /\ UNCHANGED <<runs, steps, limit, time, step, last, status, nextDt, env, entry>>

Enter ==
  /\ pc = "enter"
  /\ env' = Snapshot
  /\ pc' = "attempt"
  /\ UNCHANGED <<runs, steps, limit, time, step, last, queue, status, nextDt,
                 cursor, entry>>

\* before_queued_attempt, and the clock condition of TemporalRestartState.accept.
Authentic == queue # <<>> /\ queue[1] = event

\* The proposal that accept publishes for the next step.
Grown_Fault == Times(nextDt, Growth)
Grown == Smaller(DtMax, Times(proposal, Growth))

AttemptOk ==
  /\ pc = "attempt" /\ Authentic /\ Plus(time, proposal) > time
  /\ attempts' = attempts + 1
  /\ time' = Plus(time, proposal) /\ step' = step + 1
  /\ last' = Float(time' - time, 1)
  /\ nextDt' = Grown
  /\ queue' = Append(Tail(queue), Proposal(nextDt', time', step'))
  /\ pc' = "publish"
  /\ UNCHANGED <<runs, steps, limit, status, proposal, event, env, entry>>

AttemptRejected ==
  /\ pc = "attempt" /\ Authentic
  /\ attempts' = attempts + 1
  /\ status' = "rejected"
  /\ pc' = "restore"
  /\ UNCHANGED <<runs, steps, limit, time, step, last, queue, nextDt, proposal,
                 event, env, entry>>

AttemptFails ==
  /\ pc = "attempt"
  /\ attempts' = attempts + 1
  /\ status' = "failed"
  /\ pc' = "restore"
  /\ UNCHANGED <<runs, steps, limit, time, step, last, queue, nextDt, proposal,
                 event, env, entry>>

\* The consumers of the step are published, a due checkpoint among them.
PublishOk ==
  /\ pc = "publish"
  /\ steps' = steps + 1 /\ pc' = "loop"
  /\ UNCHANGED <<runs, limit, time, step, last, queue, status, nextDt, cursor,
                 env, entry>>

PublishFails ==
  /\ pc = "publish"
  /\ pc' = "fail"
  /\ RestoreTo(env)
  /\ UNCHANGED <<runs, steps, limit, cursor, env, entry>>

\* The envelope is back; a rejected attempt may be repeated.
Restore ==
  /\ pc = "restore"
  /\ RestoreTo(env)
  /\ pc' = IF status = "rejected" THEN "retry" ELSE "fail"
  /\ UNCHANGED <<runs, steps, limit, cursor, env, entry>>

\* The closure `retry` of prepare_attempts.
Reduced == Times(proposal, Shrink)
MayRetry == attempts <= MaxRejections /\ Reduced >= DtMin

Retry ==
  /\ pc = "retry" /\ MayRetry
  /\ proposal' = Reduced
  /\ event' = Proposal(Reduced, time, step)
  /\ queue' = <<event'>>
  /\ pc' = "enter"
  /\ UNCHANGED <<runs, steps, limit, time, step, last, status, nextDt, attempts,
                 env, entry>>

\* _run raises; a run without accepted steps restores its entry.
RunFails ==
  /\ pc = "fail" \/ (pc = "retry" /\ ~MayRetry)
  /\ IF steps = 0 THEN RestoreTo(entry)
       ELSE UNCHANGED <<time, step, last, queue, nextDt, status>>
  /\ pc' = "idle"
  /\ UNCHANGED <<runs, steps, limit, cursor, env, entry>>
-----------------------------------------------------------------------------
\* _validate_controller_events: what checkpoint_json accepts.
ExpectedDt ==
  IF last = None THEN DtInit ELSE Smaller(DtMax, Times(last, Growth))

Checkpointable ==
  /\ status = "accepted"
  /\ (last = None) = (step = 0)
  /\ Len(queue) = 1
  /\ queue[1] = Proposal(ExpectedDt, time, step)

\* A checkpoint is written between two runs and another process continues:
\* from_json, then restore_temporal_state of a new controller.
Restored_Fault == DtInit
Restored == queue[1].dt

Restart ==
  /\ pc = "idle" /\ Checkpointable
  /\ nextDt' = Restored
  /\ UNCHANGED <<pc, runs, steps, limit, time, step, last, queue, status, cursor,
                 env, entry>>

Running ==
  \/ RunEnds \/ PrepareAttempts \/ Enter
  \/ AttemptOk \/ AttemptRejected \/ AttemptFails
  \/ PublishOk \/ PublishFails \/ Restore \/ Retry \/ RunFails

Next == Running \/ RunBegin \/ Restart

Spec == Init /\ [][Next]_vars

\* A called _run keeps executing.
FairSpec == Spec /\ WF_vars(Running)
-----------------------------------------------------------------------------
Envelope == [time : Nat, step : Nat, last : Nat \cup {None},
             queue : Seq([dt : Nat, time : Nat, cursor : Nat]), nextDt : Nat]

\* The clock, the queue and the cursor keep their domains; a proposal is
\* positive and a sequence makes at most MaxRejections + 1 attempts.
TypeOK ==
  /\ pc \in {"idle", "loop", "enter", "attempt", "publish", "restore", "retry", "fail"}
  /\ runs \in 0 .. MaxRuns /\ steps \in Nat /\ limit \in Nat
  /\ time \in Nat /\ step \in Nat /\ last \in Nat \cup {None}
  /\ status \in {"accepted", "rejected", "failed"}
  /\ Len(queue) <= 1 /\ nextDt \in 1 .. DtMax
  /\ proposal \in 0 .. DtMax /\ attempts \in 0 .. MaxRejections + 1
  /\ env \in Envelope /\ entry \in Envelope

\* Every accepted step can be checkpointed: the proposal queued by accept is
\* the one the checkpoint validation derives from the accepted interval.
AcceptedStepCheckpoints == pc = "publish" => Checkpointable

\* A restarted run makes the decision the uninterrupted one would have made.
RestartReplays == [][pc = "idle" /\ pc' = "idle" => nextDt' = nextDt]_vars

\* A run returns: retries are bounded and every accepted step moves the clock.
RunReturns == pc # "idle" ~> pc = "idle"
=============================================================================
