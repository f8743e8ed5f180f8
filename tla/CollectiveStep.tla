--------------------------- MODULE CollectiveStep ---------------------------
(***************************************************************************)
(* One step attempt of a System on all MPI ranks: the control votes of the *)
(* native transaction (step_transaction.hpp), System::step with the        *)
(* rejection phases and status votes its Program meets                     *)
(* (collective_step_rejection.hpp, collective_exception.hpp) and the       *)
(* attempt verdict of _step_strategy.py, inside the step envelope of       *)
(* RuntimeInstance with its retries.                                       *)
(*                                                                         *)
(* Native collectives run on the lane of the System, those of Python on    *)
(* WORLD.  A rank in one of them waits until every rank is in it.  A rank  *)
(* that raises in System::step outside a phase goes to WORLD although its  *)
(* peers are still to meet on the lane.                                    *)
(***************************************************************************)
EXTENDS Integers, Sequences, FiniteSets

CONSTANTS
  NumRanks,
  Phases,       \* collectives the Program meets: "phase" or "status"
  Payloads,     \* what a rejection carries: its control fields and its text
  Terminal,     \* control fields of failures that a smaller dt does not repair
  RetryBudget,  \* retry_budget of the step controller
  MaxSteps,     \* bound: accepted steps
  MaxCalls,     \* bound: step calls that raise
  MaxFaults,    \* bound: rank-local operations that raise
  Work, Torn, None

ASSUME CollectiveStepAssumption ==
  /\ NumRanks \in Nat \ {0}
  /\ Phases \in Seq({"phase", "status"})
  /\ {RetryBudget, MaxSteps, MaxCalls, MaxFaults} \subseteq Nat
  /\ {Work, Torn, None} \cap Nat = {} /\ Cardinality({Work, Torn, None}) = 3

Ranks == 0 .. (NumRanks - 1)

VARIABLES
  pc,          \* rank -> next local operation, or the collective it waits in
  op,          \* rank -> transaction operation of its control vote
  phase,       \* rank -> index of the next collective of the Program
  out,         \* rank -> outcome in flight
  val,         \* rank -> native state: accepted step, Work or Torn
  txn,         \* rank -> external_step_transaction_ or None
  committed,   \* rank -> external_step_transaction_committed_
  accepted,    \* rank -> steps this rank has finalized
  tries,       \* rank -> attempts of the step beyond the first
  calls,       \* rank -> calls that raised
  said,        \* history: what each rank itself reported in this attempt
  alone,       \* history: ranks that raised ahead of collectives of the Program
  swapped,     \* ranks whose kept snapshot may hold the carrier of an attempt
  faults

native == <<val, txn, committed, swapped>>
vars == <<pc, op, phase, out, native, accepted, tries, calls, said, alone, faults>>

Ok == [kind |-> "ok", payload |-> None]
Fail == [kind |-> "fail", payload |-> None]
Reject(p) == [kind |-> "reject", payload |-> p]

Init ==
  /\ pc = [r \in Ranks |-> "idle"] /\ op = [r \in Ranks |-> None]
  /\ phase = [r \in Ranks |-> 1] /\ out = [r \in Ranks |-> Ok]
  /\ val = [r \in Ranks |-> 0] /\ txn = [r \in Ranks |-> None]
  /\ committed = [r \in Ranks |-> FALSE]
  /\ accepted = [r \in Ranks |-> 0] /\ tries = [r \in Ranks |-> 0]
  /\ calls = [r \in Ranks |-> 0] /\ said = [r \in Ranks |-> Ok]
  /\ alone = {} /\ swapped = {} /\ faults = 0

MayFail(fails) ==
  /\ fails => faults < MaxFaults
  /\ faults' = IF fails THEN faults + 1 ELSE faults

To(r, p) == pc' = [pc EXCEPT ![r] = p]
AllTo(p) == pc' = [r \in Ranks |-> p]
AllOut(o) == out' = [r \in Ranks |-> o]
All(p) == \A r \in Ranks : pc[r] = p
Some(kind) == {r \in Ranks : out[r].kind = kind}

\* The envelope enters an operation of the native transaction.
Votes(o) == AllTo("control") /\ op' = [r \in Ranks |-> o]
-----------------------------------------------------------------------------
(* Native transaction control.                                             *)

Call(r) ==
  /\ pc[r] = "idle" /\ accepted[r] < MaxSteps /\ calls[r] < MaxCalls
  /\ To(r, "control") /\ op' = [op EXCEPT ![r] = "begin"]
  /\ out' = [out EXCEPT ![r] = Ok] /\ said' = [said EXCEPT ![r] = Ok]
  /\ UNCHANGED <<phase, native, accepted, tries, calls, alone, faults>>

\* The condition each operation passes to require_step_transaction_control.
Admits(r) ==
  CASE op[r] = "begin" -> txn[r] = None
    [] op[r] = "commit" -> txn[r] # None /\ ~committed[r]
    [] op[r] = "finalize" -> txn[r] # None /\ committed[r]
    [] op[r] = "rollback" -> txn[r] # None

\* Fault: the vote compares the operation only.
Agreed_Fault == \A r, s \in Ranks : op[r] = op[s]

\* All ranks are in the same operation, at the same depth, and admit it.
Agreed ==
  /\ \A r, s \in Ranks : op[r] = op[s] /\ (txn[r] = None <=> txn[s] = None)
  /\ \A r \in Ranks : Admits(r)

\* Fault: a refused rollback raises into the handler that rolls back.
Control_Fault ==
  /\ All("control")
  /\ IF Agreed
       THEN /\ AllTo(CASE op[0] = "begin" -> "snapshot" [] op[0] = "commit" -> "publish"
                       [] op[0] = "finalize" -> "finalize" [] OTHER -> "restore")
            /\ committed' = [r \in Ranks |-> committed[r] \/ op[r] = "commit"]
            /\ UNCHANGED <<op, out>>
       ELSE Votes("rollback") /\ AllOut(Fail) /\ UNCHANGED committed
  /\ UNCHANGED <<phase, val, txn, swapped, accepted, tries, calls, said, alone, faults>>

\* A refused begin, commit or finalize raises into the handler, which rolls back;
\* a refused rollback is only noted.
Control ==
  /\ All("control")
  /\ pc' = [r \in Ranks |->
              IF ~Agreed THEN IF op[r] = "rollback" THEN "leave" ELSE "control"
              ELSE CASE op[r] = "begin" -> "snapshot"
                     [] op[r] = "commit" -> "publish"
                     [] op[r] = "finalize" -> "finalize"
                     [] op[r] = "rollback" -> "restore"]
  /\ op' = [r \in Ranks |-> IF Agreed THEN op[r] ELSE "rollback"]
  /\ out' = [r \in Ranks |-> IF ~Agreed /\ op[r] # "rollback" THEN Fail ELSE out[r]]
  /\ committed' = [r \in Ranks |-> committed[r] \/ (Agreed /\ op[r] = "commit")]
  /\ UNCHANGED <<phase, val, txn, swapped, accepted, tries, calls, said, alone, faults>>

\* begin_step_transaction: the snapshot may not fit on one rank.
Snapshot(r) ==
  /\ pc[r] = "snapshot"
  /\ \E fails \in BOOLEAN :
       MayFail(fails) /\ out' = [out EXCEPT ![r] = IF fails THEN Fail ELSE Ok]
  /\ To(r, "snapped")
  /\ UNCHANGED <<op, phase, native, accepted, tries, calls, said, alone>>

Snapped ==
  /\ All("snapped")
  /\ IF Some("fail") # {}
       THEN Votes("rollback") /\ AllOut(Fail) /\ UNCHANGED <<native, phase>>
       ELSE /\ txn' = val /\ committed' = [r \in Ranks |-> FALSE]
            /\ phase' = [r \in Ranks |-> 1]
            /\ AllTo("enter") /\ UNCHANGED <<val, swapped, op, out>>
  /\ UNCHANGED <<accepted, tries, calls, said, alone, faults>>
-----------------------------------------------------------------------------
(* System::step.                                                           *)

\* The rank leaves the native call, where collectives of the Program are left.
GoesAlone(r) == alone' = IF phase[r] <= Len(Phases) THEN alone \cup {r} ELSE alone

\* Outside any vote: Python enters the native call, which takes a snapshot of
\* its own.
Enter(r) ==
  /\ pc[r] = "enter"
  /\ \E fails \in BOOLEAN :
       /\ MayFail(fails)
       /\ out' = [out EXCEPT ![r] = IF fails THEN Fail ELSE @]
       /\ said' = [said EXCEPT ![r] = IF fails THEN Fail ELSE @]
       /\ To(r, IF fails THEN "return" ELSE "operate")
       /\ IF fails THEN GoesAlone(r) ELSE UNCHANGED alone
  /\ UNCHANGED <<op, phase, native, accepted, tries, calls>>

\* The Program raises outside a phase: nothing tells the peers.
Raise(r) ==
  /\ pc[r] = "operate"
  /\ \E o \in {Fail} \cup {Reject(p) : p \in Payloads} :
       out' = [out EXCEPT ![r] = o] /\ said' = [said EXCEPT ![r] = o]
  /\ MayFail(TRUE)
  /\ val' = [val EXCEPT ![r] = Work]
  /\ To(r, "unwind") /\ GoesAlone(r)
  /\ UNCHANGED <<op, phase, txn, committed, swapped, accepted, tries, calls>>

\* The local operation of the next phase; a rejection that cannot be encoded is
\* an ordinary failure.
Operate(r) ==
  /\ pc[r] = "operate" /\ phase[r] <= Len(Phases)
  /\ \E o \in {Ok, Fail} \cup {Reject(p) : p \in Payloads} :
       /\ MayFail(o # Ok)
       /\ out' = [out EXCEPT ![r] = o]
       /\ said' = [said EXCEPT ![r] = IF o = Ok THEN @ ELSE o]
  /\ val' = [val EXCEPT ![r] = Work]
  /\ To(r, IF Phases[phase[r]] = "phase" THEN "errors" ELSE "status")
  /\ UNCHANGED <<op, phase, txn, committed, swapped, accepted, tries, calls, alone>>

\* After the last phase the native step returns; also a step that is not due,
\* which runs no phase, moves the clock.
StepReturns(r) ==
  /\ pc[r] = "operate" /\ phase[r] > Len(Phases)
  /\ val' = [val EXCEPT ![r] = Work]
  /\ To(r, "return")
  /\ UNCHANGED <<op, phase, out, txn, committed, swapped, accepted, tries, calls, said,
                 alone, faults>>

NextPhase == phase' = [r \in Ranks |-> phase[r] + 1] /\ AllTo("operate")
Throws == AllOut(Fail) /\ AllTo("unwind") /\ UNCHANGED phase

\* Fault: the failing rank alone leaves the phase.
Errors_Fault ==
  /\ All("errors")
  /\ pc' = [r \in Ranks |-> IF r \in Some("fail") THEN "unwind" ELSE "rejects"]
  /\ UNCHANGED <<op, phase, out, native, accepted, tries, calls, said, alone, faults>>

\* collectively_rethrow_exception: an ordinary failure goes before every
\* rejection and is raised on every rank.
Errors ==
  /\ All("errors")
  /\ IF Some("fail") # {} THEN Throws ELSE AllTo("rejects") /\ UNCHANGED <<out, phase>>
  /\ UNCHANGED <<op, native, accepted, tries, calls, said, alone, faults>>

\* Fault: the first rejection is taken for all.
Selected_Fault ==
  IF Some("reject") = {} THEN Fail
  ELSE out[CHOOSE r \in Some("reject") : \A s \in Some("reject") : r <= s]

\* rethrow: the payloads of the rejecting ranks must be the same; the ranks
\* that did not reject receive it from the first one that did.
Selected ==
  LET payloads == {out[r].payload : r \in Some("reject")}
  IN IF Cardinality(payloads) = 1 THEN Reject(CHOOSE p \in payloads : TRUE) ELSE Fail

Rejects ==
  /\ All("rejects")
  /\ CASE Some("reject") = {} -> NextPhase /\ UNCHANGED out
       [] Some("reject") # {} /\ Selected = Fail -> Throws
       [] OTHER -> AllOut(Selected) /\ AllTo("decode") /\ UNCHANGED phase
  /\ UNCHANGED <<op, native, accepted, tries, calls, said, alone, faults>>

\* Decoding and constructing the exception allocate.
Decode(r) ==
  /\ pc[r] = "decode"
  /\ \E fails \in BOOLEAN :
       /\ MayFail(fails)
       /\ out' = [out EXCEPT ![r] = IF fails THEN Fail ELSE @]
       /\ said' = [said EXCEPT ![r] = IF fails THEN Fail ELSE @]
  /\ To(r, "decoded")
  /\ UNCHANGED <<op, phase, native, accepted, tries, calls, alone>>

Decoded ==
  /\ All("decoded")
  /\ AllTo("unwind") /\ out' = IF Some("fail") # {} THEN [r \in Ranks |-> Fail] ELSE out
  /\ UNCHANGED <<op, phase, native, accepted, tries, calls, said, alone, faults>>

\* consume_native_evaluation_status: one status for all ranks; the reason code
\* of the rejection it raises is that of each rank.
Status ==
  /\ All("status")
  /\ CASE \E r, s \in Ranks : out[r].kind # out[s].kind -> Throws
       [] Some("ok") = Ranks -> NextPhase /\ UNCHANGED out
       [] OTHER -> AllTo("unwind") /\ UNCHANGED <<out, phase>>
  /\ UNCHANGED <<op, native, accepted, tries, calls, said, alone, faults>>

\* System::step restores its own snapshot, for the first time; when that raises,
\* this is what the rank reports.
Unwind(r) ==
  /\ pc[r] = "unwind"
  /\ \E fails \in BOOLEAN :
       /\ MayFail(fails)
       /\ val' = [val EXCEPT ![r] = IF fails THEN Torn ELSE txn[r]]
       /\ out' = [out EXCEPT ![r] = IF fails THEN Fail ELSE @]
       /\ said' = [said EXCEPT ![r] = IF fails THEN Fail ELSE @]
  /\ To(r, "return")
  /\ UNCHANGED <<op, phase, txn, committed, swapped, accepted, tries, calls, alone>>
-----------------------------------------------------------------------------
(* The verdict of the attempt.                                             *)

\* The native call has returned to Python, where the rank may still raise.
Return(r) ==
  /\ pc[r] = "return"
  /\ \E fails \in BOOLEAN :
       /\ MayFail(fails)
       /\ out' = [out EXCEPT ![r] = IF fails THEN Fail ELSE @]
       /\ said' = [said EXCEPT ![r] = IF fails THEN Fail ELSE @]
  /\ To(r, "attempt")
  /\ UNCHANGED <<op, phase, native, accepted, tries, calls, alone>>

Controls == {out[r].payload.control : r \in Some("reject")}

\* _collective_attempt_error: one decision from the gathered outcomes, with the
\* rejection of the first rank when all ranks reject alike.
Verdict ==
  IF Some("ok") = Ranks THEN Ok
  ELSE IF Some("reject") = Ranks /\ Cardinality(Controls) = 1 THEN out[0]
  ELSE Fail

Attempt ==
  /\ All("attempt")
  /\ AllOut(Verdict)
  /\ IF Verdict = Ok THEN AllTo("stage") /\ UNCHANGED op ELSE Votes("rollback")
  /\ alone' = {}
  /\ UNCHANGED <<phase, native, accepted, tries, calls, said, faults>>
-----------------------------------------------------------------------------
(* Effects, finalization, rollback and retry.                              *)

\* _stage_consumers and _accept_consumers: the publishers gather their outcomes,
\* so that a failure of one rank is raised on all.
Effect(r) ==
  /\ pc[r] \in {"stage", "publish"}
  /\ \E fails \in BOOLEAN :
       MayFail(fails) /\ out' = [out EXCEPT ![r] = IF fails THEN Fail ELSE @]
  /\ To(r, IF pc[r] = "stage" THEN "staged" ELSE "published")
  /\ UNCHANGED <<op, phase, native, accepted, tries, calls, said, alone>>

EffectGather ==
  /\ All("staged") \/ All("published")
  /\ IF Some("fail") # {} THEN Votes("rollback") /\ AllOut(Fail)
     ELSE Votes(IF All("staged") THEN "commit" ELSE "finalize") /\ UNCHANGED out
  /\ UNCHANGED <<phase, native, accepted, tries, calls, said, alone, faults>>

Finalize(r) ==
  /\ pc[r] = "finalize"
  /\ accepted' = [accepted EXCEPT ![r] = @ + 1]
  /\ val' = [val EXCEPT ![r] = IF txn[r] = Torn THEN Torn ELSE accepted[r] + 1]
  /\ txn' = [txn EXCEPT ![r] = None] /\ committed' = [committed EXCEPT ![r] = FALSE]
  /\ tries' = [tries EXCEPT ![r] = 0]
  /\ To(r, "idle")
  /\ UNCHANGED <<op, phase, out, swapped, calls, said, alone, faults>>

\* rollback_step_transaction restores on this rank only.  The restoration swaps
\* the provider carrier with that of the snapshot: a second one, after one that
\* raised past the swap, gives the carrier of the attempt back.
Restore(r) ==
  /\ pc[r] = "restore"
  /\ \E fails, exact \in BOOLEAN :
       /\ MayFail(fails)
       /\ exact \/ fails \/ r \in swapped
       /\ val' = [val EXCEPT ![r] = IF fails \/ ~exact THEN Torn ELSE txn[r]]
       /\ swapped' = IF fails THEN swapped \cup {r} ELSE swapped
       /\ txn' = [txn EXCEPT ![r] = IF fails THEN @ ELSE None]
       /\ committed' = [committed EXCEPT ![r] = fails /\ @]
  /\ To(r, "leave")
  /\ UNCHANGED <<op, phase, out, accepted, tries, calls, said, alone>>

\* _PreparedStepAttempts.retry
Retries(r) ==
  /\ out[r].kind = "reject" /\ out[r].payload.control \notin Terminal
  /\ tries[r] < RetryBudget

\* The exception leaves the envelope: a retry begins a transaction of its own,
\* anything else is raised to the caller.
Leave(r) ==
  /\ pc[r] = "leave"
  /\ IF Retries(r)
       THEN /\ tries' = [tries EXCEPT ![r] = @ + 1]
            /\ op' = [op EXCEPT ![r] = "begin"] /\ To(r, "control")
            /\ UNCHANGED calls
       ELSE /\ tries' = [tries EXCEPT ![r] = 0]
            /\ calls' = [calls EXCEPT ![r] = @ + 1] /\ To(r, "idle")
            /\ UNCHANGED op
  /\ out' = [out EXCEPT ![r] = Ok] /\ said' = [said EXCEPT ![r] = Ok]
  /\ UNCHANGED <<phase, native, accepted, alone, faults>>

Local(r) ==
  \/ Call(r) \/ Snapshot(r) \/ Enter(r) \/ Raise(r) \/ Operate(r) \/ StepReturns(r)
  \/ Decode(r) \/ Unwind(r) \/ Return(r) \/ Effect(r) \/ Finalize(r) \/ Restore(r) \/ Leave(r)

Collective ==
  \/ Control \/ Snapped \/ Errors \/ Rejects \/ Decoded \/ Status \/ Attempt
  \/ EffectGather

Next == Collective \/ \E r \in Ranks : Local(r)

Spec == Init /\ [][Next]_vars

\* Every rank is a process of its own, and a collective that all ranks have
\* entered completes.
FairSpec == Spec /\ WF_vars(Collective) /\ \A r \in Ranks : WF_vars(Local(r))
-----------------------------------------------------------------------------
(* Properties.                                                             *)

Waits(r) == pc[r] \in {"control", "snapped", "errors", "rejects", "decoded",
                       "status", "attempt", "staged", "published"}

\* Some ranks, and not all, raised in System::step outside a phase.
Parted == alone # {} /\ alone # Ranks

\* When every rank waits, they wait in the same collective and, in a vote of
\* the native transaction, for the same operation: only a raise in System::step
\* outside a phase sends a rank to another collective than its peers, and those
\* it leaves behind still wait together.  In such a vote the ranks are in the
\* same attempt of the same step and carry the same outcome: all retry, all
\* raise or all go on.
CollectivesMatch ==
  (\A r \in Ranks : Waits(r)) =>
    \A r, s \in Ranks : (r \in alone <=> s \in alone) =>
      /\ pc[r] = pc[s]
      /\ pc[r] = "control" =>
           /\ op[r] = op[s] /\ out[r].kind = out[s].kind
           /\ accepted[r] = accepted[s] /\ tries[r] = tries[s] /\ calls[r] = calls[s]
           /\ out[r].kind = "reject" => out[r].payload.control = out[s].payload.control

\* A rejection that a controller may retry comes from no failure: no rank
\* raised anything else in the attempt, the ranks that rejected did so for this
\* reason, and every rank is back in the state its transaction began in.
RetryIsClean ==
  \A r \in Ranks :
    pc[r] = "control" /\ out[r].kind = "reject" =>
      \A s \in Ranks :
        /\ said[s].kind # "fail"
        /\ said[s].kind = "reject" => said[s].payload.control = out[r].payload.control
        /\ val[s] = txn[s]

\* A rank whose restoration raised keeps all ranks from accepting a step: no
\* rank finalizes while another is not in the same finalization, of a step that
\* it began on the state it last accepted.  Only a restoration that raised on
\* every rank ends in one that closes the transactions.
TornIsFenced ==
  \A r \in Ranks : pc[r] = "finalize" =>
    \A s \in Ranks :
      \/ /\ pc[s] = "finalize" /\ val[s] = Work
         /\ accepted[s] = accepted[r]
         /\ txn[s] = accepted[s] \/ swapped = Ranks
      \/ accepted[s] = accepted[r] + 1

\* Every call of the step returns or raises on every rank, unless some ranks
\* raised in System::step outside a phase and their peers wait on the lane.
CallReturns == <>[]Parted \/ \A r \in Ranks : []<>(pc[r] = "idle")
=============================================================================
