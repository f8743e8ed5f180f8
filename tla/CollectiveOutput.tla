--------------------------- MODULE CollectiveOutput ---------------------------
(***************************************************************************)
(* One scientific output on all MPI ranks: ConsumerOutputPublisher.prepare *)
(* and PreparedConsumerOutput, the writer sessions below them (ROOT,       *)
(* PER_RANK and the COLLECTIVE HDF5 staging) and the catalogue of the      *)
(* series, over several samples of one run.  Every rank runs the same      *)
(* sequence of local calls, each closed by a collective that tells every   *)
(* rank whether some rank failed.                                          *)
(*                                                                         *)
(* A sample is its number; numbers order the exact clocks.                 *)
(***************************************************************************)
EXTENDS Naturals, FiniteSets, Sequences, SequencesExt

CONSTANTS
    Ranks, Root,
    Modes,         \* the parallel modes a behaviour may choose
    MaxSamples,    \* bound: samples of the run
    MaxAttempts,   \* attempt limit of the Retry action
    MaxRetries,    \* bound: calls of retry_consumer_finalizers between steps
    MaxFaults      \* bound: operations that fail

ASSUME OutputAssumption ==
    /\ IsFiniteSet(Ranks) /\ Root \in Ranks
    /\ Modes \subseteq {"root", "per_rank", "collective"}
    /\ {MaxSamples, MaxAttempts, MaxRetries, MaxFaults} \subseteq Nat

VARIABLES
    mode,      \* ParallelMode of the output
    sample,    \* number of the current sample
    label,     \* rank -> the call it executes
    stage,     \* rank -> "run" locally, "root" alone, or blocked in a collective
    err,       \* rank -> the local call raised
    spent,     \* rank -> attempts of this sample
    staged,    \* rank -> its session holds a _StagedOutputFile
    created,   \* rank -> its session created the target
    withdrawn, \* rank -> the enclosing transaction asked for the rollback
    fin,       \* rank -> finalizers to run, finalizers kept, what follows them
    temp,      \* ranks with a live temporary
    stray,     \* ranks with a temporary that stays: its removal, or its creation, failed
    disk,      \* artifacts <<sample, rank>> at their targets
    index,     \* the catalogue of the series
    accepted,  \* samples whose step committed
    dirty,     \* samples whose rollback failed and was reported
    retries, faults

control == <<label, stage, err, spent>>
session == <<staged, created, withdrawn>>
files == <<temp, stray, disk>>
verdicts == <<accepted, dirty>>
vars == <<mode, sample, control, session, fin, files, index, verdicts, retries, faults>>

Blocked == {"in", "cast", "out", "gather"}
StageSteps == <<"snapshot", "validate", "plan", "temporary", "owner",
                "descriptors", "native", "verify", "construct">>

\* The ranks that write a file.
Owners == IF mode = "per_rank" THEN Ranks ELSE {Root}
HasSeries == mode # "per_rank"
Listed == Range(index)

Finalizer(s) == [sample |-> s, series |-> ~HasSeries, writer |-> FALSE]
Resting == \A r \in Ranks : label[r] = "idle"

Init ==
    /\ mode \in Modes
    /\ sample = 0 /\ retries = 0 /\ faults = 0
    /\ label = [r \in Ranks |-> "preflight"] /\ stage = [r \in Ranks |-> "run"]
    /\ err = [r \in Ranks |-> FALSE] /\ spent = [r \in Ranks |-> 0]
    /\ staged = [r \in Ranks |-> FALSE] /\ created = [r \in Ranks |-> FALSE]
    /\ withdrawn = [r \in Ranks |-> FALSE]
    /\ fin = [r \in Ranks |-> [queue |-> <<>>, kept |-> <<>>, after |-> "rest"]]
    /\ temp = {} /\ stray = {} /\ disk = {} /\ index = <<>>
    /\ accepted = {} /\ dirty = {}

Fail(n) == faults + n <= MaxFaults /\ faults' = faults + n
MayFail(fails) == Fail(IF fails THEN 1 ELSE 0)
Raises(r, fails) == err' = [err EXCEPT ![r] = fails]

-----------------------------------------------------------------------------
(* The finalizers, pending and new.                                        *)

\* A finalizer owes its series first, then its writer.
Owes(f) == IF f.series THEN "finalize" ELSE "series"
Unfinished(f) == ~(f.series /\ f.writer)

\* Where a rank goes with finalizers q to run, k kept and `after' to follow: a seal is
\* followed by one retry of everything kept.
Loop(q, k, after) ==
    LET at(l, qq, kk, aa) == [label |-> l, fin |-> [queue |-> qq, kept |-> kk, after |-> aa]]
    IN  CASE q # <<>> -> at(Owes(Head(q)), q, k, after)
          [] q = <<>> /\ after = "seal" /\ k # <<>> -> at(Owes(Head(k)), k, <<>>, "rest")
          [] q = <<>> /\ after = "prepare" -> at("writer", <<>>, k, "rest")
          [] OTHER -> at("idle", <<>>, k, "rest")

\* All ranks enter that loop.
Enters(where) ==
    /\ label' = [r \in Ranks |-> where[r].label]
    /\ fin' = [r \in Ranks |-> where[r].fin]

\* The program takes a step with a due sample: the next one, or the same again after a
\* step that failed.
Step ==
    /\ Resting
    /\ sample' \in {sample + 1} \cup ({sample} \ (accepted \cup {0})) /\ sample' <= MaxSamples
    /\ Enters([r \in Ranks |-> Loop(fin[r].kept, <<>>, "prepare")])
    /\ spent' = [r \in Ranks |-> 1] /\ stage' = [r \in Ranks |-> "run"]
    /\ staged' = [r \in Ranks |-> FALSE] /\ created' = [r \in Ranks |-> FALSE]
    /\ withdrawn' = [r \in Ranks |-> FALSE]
    /\ UNCHANGED <<mode, err, files, index, verdicts, retries, faults>>

RetryConsumerFinalizers ==
    /\ Resting /\ retries < MaxRetries /\ \E r \in Ranks : fin[r].kept # <<>>
    /\ retries' = retries + 1
    /\ Enters([r \in Ranks |-> Loop(fin[r].kept, <<>>, "rest")])
    /\ stage' = [r \in Ranks |-> "run"]
    /\ UNCHANGED <<mode, sample, err, spent, session, files, index, verdicts, faults>>

-----------------------------------------------------------------------------
(* Local calls of prepare.                                                 *)

Runs(r, l) == label[r] = l /\ stage[r] = "run"
Waits(r, where) == stage' = [stage EXCEPT ![r] = where]

\* Calls that read and compare.  Only the root verifies the file it wrote.
Check(r) ==
    /\ \E l \in {"preflight", "writer", "authority", "session"} \cup (Range(StageSteps) \ {"temporary"}) :
         /\ Runs(r, l)
         /\ \E fails \in BOOLEAN : (fails /\ l = "verify" => r = Root) /\ MayFail(fails) /\ Raises(r, fails)
    /\ Waits(r, "gather")
    /\ UNCHANGED <<mode, sample, label, spent, session, fin, files, index, verdicts, retries>>

\* _parallel_temporary_path: the root creates the shared temporary.  What fails after
\* mkstemp leaves the entry, and nobody tries to remove it.
CreateTemporary(r) ==
    /\ Runs(r, "temporary")
    /\ \E fails, leaves \in BOOLEAN :
         /\ (fails => r = Root) /\ (leaves => fails)
         /\ MayFail(fails) /\ Raises(r, fails)
         /\ temp' = IF r = Root /\ ~fails THEN temp \cup {r} ELSE temp
         /\ stray' = IF leaves THEN stray \cup {r} ELSE stray
    /\ Waits(r, "gather")
    /\ UNCHANGED <<mode, sample, label, spent, session, fin, disk, index, verdicts, retries>>

\* A temporary of r is removed, or its removal fails and is reported.
Removed(r, fails) ==
    /\ fails => r \in temp
    /\ temp' = temp \ {r}
    /\ stray' = IF fails THEN stray \cup {r} ELSE stray

\* _collective_remove: the root removes the shared temporary, its peers close their view.
CollectiveRemove(r) ==
    /\ Runs(r, "remove")
    /\ \E fails \in BOOLEAN :
         /\ MayFail(fails) /\ Raises(r, fails)
         /\ IF r = Root THEN Removed(r, fails) ELSE UNCHANGED <<temp, stray>>
    /\ Waits(r, "gather")
    /\ UNCHANGED <<mode, sample, label, spent, session, fin, disk, index, verdicts, retries>>

\* session.stage() of a writer without a communicator: a failure removes its own
\* temporary, or fails at that too, or leaves it without trying.
StageFile(r) ==
    /\ Runs(r, "stage")
    /\ \E fails, leaves \in BOOLEAN :
         /\ (fails => r \in Owners) /\ (leaves => fails)
         /\ MayFail(fails) /\ Raises(r, fails)
         /\ temp' = IF r \in Owners /\ ~fails THEN temp \cup {r} ELSE temp
         /\ stray' = IF leaves THEN stray \cup {r} ELSE stray
         /\ staged' = [staged EXCEPT ![r] = r \in Owners /\ ~fails]
    /\ Waits(r, "gather")
    /\ UNCHANGED <<mode, sample, label, spent, created, withdrawn, fin, disk, index, verdicts, retries>>

-----------------------------------------------------------------------------
(* Calls on the staged file.  With a communicator every rank that holds    *)
(* one meets its peers in a barrier, waits for the root's verdict in a     *)
(* broadcast and leaves through a second barrier.                          *)

FileCalls == {"abort", "discard", "publish", "rollback"}

Meets_Fault(r) == mode = "collective" /\ staged[r] /\ r # Root
Meets(r) == mode = "collective" /\ staged[r]

EnterBarrier(r) ==
    /\ \E l \in FileCalls : Runs(r, l)
    /\ Meets(r)
    /\ Waits(r, "in")
    /\ UNCHANGED <<mode, sample, label, err, spent, session, fin, files, index, verdicts, retries, faults>>

\* r executes call l, alone or as the root of its peers.
Acts(r, l) ==
    /\ label[r] = l
    /\ (stage[r] = "run" /\ ~Meets(r)) \/ stage[r] = "root"
    /\ Waits(r, IF stage[r] = "root" THEN "cast" ELSE "gather")

\* Nothing is staged here: the call has no effect.
Skip(r) ==
    /\ \E l \in FileCalls : Acts(r, l)
    /\ ~staged[r]
    /\ Raises(r, FALSE)
    /\ UNCHANGED <<mode, sample, label, spent, session, fin, files, index, verdicts, retries, faults>>

\* discard, also as the abort_prepare after a failed staging.
Discard(r) ==
    /\ \E l \in {"abort", "discard"} : Acts(r, l)
    /\ staged[r]
    /\ \E fails \in BOOLEAN : MayFail(fails) /\ Raises(r, fails) /\ Removed(r, fails)
    /\ UNCHANGED <<mode, sample, label, spent, session, fin, disk, index, verdicts, retries>>

\* publish links the temporary at the target, unless an equal file is there, and removes
\* the temporary.  It may fail before the link, at the removal or after it.
Publish(r) ==
    /\ Acts(r, "publish") /\ staged[r]
    /\ \E fate \in {"done", "verify", "removal", "evidence"} :
         /\ MayFail(fate # "done") /\ Raises(r, fate # "done")
         /\ IF fate = "verify"
            THEN UNCHANGED <<disk, created>>
            ELSE /\ disk' = disk \cup {<<sample, r>>}
                 /\ created' = [created EXCEPT ![r] = <<sample, r>> \notin disk]
         /\ temp' = IF fate \in {"verify", "removal"} THEN temp ELSE temp \ {r}
    /\ UNCHANGED <<mode, sample, label, spent, staged, withdrawn, fin, stray, index, verdicts, retries>>

\* rollback removes the target it created and the temporary, each on its own.
Rollback_Fault(r) ==
    /\ Acts(r, "rollback") /\ staged[r]
    /\ \E fails \in BOOLEAN : MayFail(fails) /\ Raises(r, fails) /\ Removed(r, fails)
    /\ UNCHANGED <<mode, sample, label, spent, session, fin, disk, index, verdicts, retries>>

Rollback(r) ==
    /\ Acts(r, "rollback") /\ staged[r]
    /\ \E keepsTarget, keepsTemp \in BOOLEAN :
         /\ keepsTarget => created[r]
         /\ Fail((IF keepsTarget THEN 1 ELSE 0) + (IF keepsTemp THEN 1 ELSE 0))
         /\ Raises(r, keepsTarget \/ keepsTemp)
         /\ Removed(r, keepsTemp)
         /\ disk' = IF created[r] /\ ~keepsTarget THEN disk \ {<<sample, r>>} ELSE disk
    /\ UNCHANGED <<mode, sample, label, spent, session, fin, index, verdicts, retries>>

-----------------------------------------------------------------------------
(* Local calls of finalize.                                                *)

Due(r) == Head(fin[r].queue)

\* publish_output_series: a family member on disk that the catalogue does not list makes
\* it rebuild the whole list in clock order; otherwise the sample is appended.
Family == {a[1] : a \in disk}
Rebuilt ==
    CHOOSE list \in [1..Cardinality(Family) -> Family] :
        Range(list) = Family /\ \A i, j \in DOMAIN list : i < j => list[i] < list[j]
Listing_Fault(s) == IF s \in Listed THEN index ELSE Append(index, s)
Listing(s) ==
    IF Family \ (Listed \cup {s}) # {} THEN Rebuilt
    ELSE IF s \in Listed THEN index ELSE Append(index, s)

\* It refuses a catalogue that lists a missing member and a sample earlier than the last.
Refuses(s) ==
    \/ s \notin Family \/ ~(Listed \subseteq Family)
    \/ /\ Family \ (Listed \cup {s}) = {} /\ s \notin Listed
       /\ index # <<>> /\ s < Last(index)

\* Only the root writes the catalogue; it may fail before or after replacing the file.
PublishSeries(r) ==
    /\ Runs(r, "series")
    /\ LET s == Due(r).sample IN
       IF r # Root THEN Raises(r, FALSE) /\ UNCHANGED <<index, faults>>
       ELSE \E fate \in IF Refuses(s) THEN {"before"} ELSE {"done", "before", "late"} :
              /\ MayFail(fate # "done" /\ ~Refuses(s)) /\ Raises(r, fate # "done")
              /\ index' = IF fate = "before" THEN index ELSE Listing(s)
    /\ Waits(r, "gather")
    /\ UNCHANGED <<mode, sample, label, spent, session, fin, files, verdicts, retries>>

\* session.finalize() closes the staging descriptor of a rank that has one.
FinalizeWriter(r) ==
    /\ Runs(r, "finalize")
    /\ \E fails \in BOOLEAN : (fails => r \in Owners) /\ MayFail(fails) /\ Raises(r, fails)
    /\ Waits(r, "gather")
    /\ UNCHANGED <<mode, sample, label, spent, session, fin, files, index, verdicts, retries>>

-----------------------------------------------------------------------------
(* The collectives.                                                        *)

All(l, where) == \A r \in Ranks : label[r] = l /\ stage[r] = where

\* What a rank learns from the rows: some rank failed.
Failed_Fault(r) == err[r]
Failed(r) == \E s \in Ranks : err[s]

MeetBarrier ==
    /\ \E l \in FileCalls : All(l, "in")
    /\ stage' = [r \in Ranks |-> IF r = Root THEN "root" ELSE "cast"]
    /\ UNCHANGED <<mode, sample, label, err, spent, session, fin, files, index, verdicts, retries, faults>>

\* Every rank raises the root's failure; only a failed publish skips the last barrier.
Broadcast ==
    /\ \E l \in FileCalls :
         /\ All(l, "cast")
         /\ stage' = [r \in Ranks |-> IF l = "publish" /\ err[Root] THEN "gather" ELSE "out"]
    /\ err' = [r \in Ranks |-> err[Root]]
    /\ UNCHANGED <<mode, sample, label, spent, session, fin, files, index, verdicts, retries, faults>>

LeaveBarrier ==
    /\ \E l \in FileCalls : All(l, "out")
    /\ stage' = [r \in Ranks |-> "gather"]
    /\ UNCHANGED <<mode, sample, label, err, spent, session, fin, files, index, verdicts, retries, faults>>

-----------------------------------------------------------------------------
(* What follows a gather.                                                  *)

\* The call that follows l in prepare when no rank failed.
Follows(l) ==
    LET i == CHOOSE n \in 1..Len(StageSteps) : StageSteps[n] = l IN
    CASE l = "preflight" -> "idle"
      [] l = "writer" -> "authority"
      [] l = "authority" -> "session"
      [] l = "session" -> IF mode = "collective" THEN StageSteps[1] ELSE "stage"
      [] l = "construct" -> "stage"
      [] OTHER -> StageSteps[i + 1]

\* A failed attempt is followed by another one while the limit allows it.
Retried(r) == IF spent[r] < MaxAttempts THEN "writer" ELSE "idle"

\* A collective staging that failed removes the temporary if there may be one, then
\* raises into the gather on the staging.
FailsTo(r, l) ==
    CASE l = "preflight" -> "refused"
      [] l \in {"writer", "authority", "session"} -> Retried(r)
      [] l \in {"snapshot", "validate", "plan"} -> "stage"
      [] l = "temporary" -> "cleanup"
      [] OTHER -> "remove"

Moves(to, blocked, raised) ==
    /\ label' = [r \in Ranks |-> to[r]]
    /\ stage' = [r \in Ranks |-> IF to[r] \in blocked THEN "gather" ELSE "run"]
    /\ err' = [r \in Ranks |-> to[r] \in blocked /\ raised]
    /\ spent' = [r \in Ranks |-> IF to[r] = "writer" THEN spent[r] + 1 ELSE spent[r]]

\* A staged file reaches its session only when every rank constructed one.
Holds(r) == ~Failed(r)

PrepareGather ==
    /\ \E l \in {"preflight", "writer", "authority", "session"} \cup Range(StageSteps) :
         LET to == [r \in Ranks |-> IF Failed(r) THEN FailsTo(r, l) ELSE Follows(l)]
             failed == \E r \in Ranks : Failed(r)
             nested == l \in Range(StageSteps)
         IN  /\ All(l, "gather")
             /\ Moves(to, IF nested THEN {"stage", "cleanup"} ELSE {}, failed)
             /\ staged' = IF l = "construct" THEN [r \in Ranks |-> Holds(r)] ELSE staged
    /\ UNCHANGED <<mode, sample, created, withdrawn, fin, files, index, verdicts, retries, faults>>

\* The collectives of a cleanup inside a failed staging: the broadcast when no temporary
\* was created, the gather and then the barrier of _collective_remove.
CleanupGather ==
    /\ \E l \in {"cleanup", "remove", "removed"} :
         /\ All(l, "gather")
         /\ Moves([r \in Ranks |-> IF l = "remove" THEN "removed" ELSE "stage"], {"removed", "stage"}, TRUE)
    /\ UNCHANGED <<mode, sample, session, fin, files, index, verdicts, retries, faults>>

\* A complete staging is kept by the transaction, or discarded when another effect or the
\* step fails.  A failed one is aborted on every rank.
StageGather ==
    /\ All("stage", "gather")
    /\ \E next \in {"publish", "discard"} :
         Moves([r \in Ranks |-> IF Failed(r) THEN "abort" ELSE next], {}, FALSE)
    /\ UNCHANGED <<mode, sample, session, fin, files, index, verdicts, retries, faults>>

\* abort_prepare is done: the session is dropped and prepare raises.
AbortGather ==
    /\ All("abort", "gather")
    /\ Moves([r \in Ranks |-> Retried(r)], {}, FALSE)
    /\ staged' = [r \in Ranks |-> FALSE]
    /\ UNCHANGED <<mode, sample, created, withdrawn, fin, files, index, verdicts, retries, faults>>

DiscardGather ==
    /\ All("discard", "gather")
    /\ Moves([r \in Ranks |-> "idle"], {}, FALSE)
    /\ UNCHANGED <<mode, sample, session, fin, files, index, verdicts, retries, faults>>

\* A failed publication is rolled back.  A complete one is sealed with its step, or
\* withdrawn when another effect or the step fails.
PublishGather ==
    /\ All("publish", "gather")
    /\ \E commits \in BOOLEAN :
         LET seals(r) == commits /\ ~Failed(r)
             where(r) == IF seals(r) THEN Loop(<<Finalizer(sample)>>, fin[r].kept, "seal")
                                     ELSE [label |-> "rollback", fin |-> fin[r]]
         IN  /\ Moves([r \in Ranks |-> where(r).label], {}, FALSE)
             /\ fin' = [r \in Ranks |-> where(r).fin]
             /\ withdrawn' = [r \in Ranks |-> ~Failed(r) /\ ~commits]
             /\ accepted' = IF \A r \in Ranks : seals(r) THEN accepted \cup {sample} ELSE accepted
    /\ UNCHANGED <<mode, sample, staged, created, files, index, dirty, retries, faults>>

RollbackGather ==
    /\ All("rollback", "gather")
    /\ Moves([r \in Ranks |-> IF Failed(r) \/ withdrawn[r] THEN "idle" ELSE Retried(r)], {}, FALSE)
    /\ dirty' = IF \E r \in Ranks : Failed(r) THEN dirty \cup {sample} ELSE dirty
    /\ staged' = [r \in Ranks |-> FALSE] /\ created' = [r \in Ranks |-> FALSE]
    /\ UNCHANGED <<mode, sample, withdrawn, fin, files, index, accepted, retries, faults>>

\* The writer is finalized whether or not its series was.
FinalizeGather ==
    /\ \E l \in {"series", "finalize"} :
         LET done(r) == IF l = "series" THEN [Due(r) EXCEPT !.series = ~Failed(r)]
                                        ELSE [Due(r) EXCEPT !.writer = ~Failed(r)]
             rest(r) == Tail(fin[r].queue)
             where(r) == IF l = "series" /\ ~done(r).writer
                         THEN [label |-> "finalize", fin |-> [fin[r] EXCEPT !.queue = <<done(r)>> \o rest(r)]]
                         ELSE Loop(rest(r),
                                   IF Unfinished(done(r)) THEN Append(fin[r].kept, done(r)) ELSE fin[r].kept,
                                   fin[r].after)
         IN  /\ All(l, "gather")
             /\ label' = [r \in Ranks |-> where(r).label]
             /\ fin' = [r \in Ranks |-> where(r).fin]
    /\ stage' = [r \in Ranks |-> "run"] /\ err' = [r \in Ranks |-> FALSE]
    /\ UNCHANGED <<mode, sample, spent, session, files, index, verdicts, retries, faults>>

-----------------------------------------------------------------------------
Local(r) ==
    \/ Check(r) \/ CreateTemporary(r) \/ CollectiveRemove(r) \/ StageFile(r)
    \/ EnterBarrier(r) \/ Skip(r) \/ Discard(r) \/ Publish(r) \/ Rollback(r)
    \/ PublishSeries(r) \/ FinalizeWriter(r)

Collective ==
    \/ MeetBarrier \/ Broadcast \/ LeaveBarrier
    \/ PrepareGather \/ CleanupGather \/ StageGather \/ AbortGather \/ DiscardGather
    \/ PublishGather \/ RollbackGather \/ FinalizeGather

Next == Step \/ RetryConsumerFinalizers \/ (\E r \in Ranks : Local(r)) \/ Collective

Spec == Init /\ [][Next]_vars

\* Every rank keeps executing, and a collective that every rank entered completes.
FairSpec == Spec /\ (\A r \in Ranks : WF_vars(Local(r))) /\ WF_vars(Collective)

-----------------------------------------------------------------------------
(* Properties.                                                             *)

\* The state of a rank, of the files and of the verdicts.
TypeOK ==
    /\ mode \in Modes /\ sample \in 0..MaxSamples
    /\ stage \in [Ranks -> {"run", "root"} \cup Blocked]
    /\ \A v \in {err, staged, created, withdrawn} : v \in [Ranks -> BOOLEAN]
    /\ spent \in [Ranks -> 0..MaxAttempts]
    /\ temp \subseteq Ranks /\ stray \subseteq Ranks
    /\ disk \subseteq (1..MaxSamples) \X Ranks
    /\ index \in Seq(1..MaxSamples)
    /\ accepted \subseteq 1..MaxSamples /\ dirty \subseteq 1..MaxSamples

\* No rank ever waits in one collective while a peer waits in another: a failure of one
\* rank in any local call of staging, publication, compensation or finalization keeps
\* every rank on the same sequence of collectives.
CollectivesMatch ==
    \A r, s \in Ranks :
        stage[r] \in Blocked /\ stage[s] \in Blocked => label[r] = label[s] /\ stage[r] = stage[s]

\* Between steps an accepted sample has the file of every writing rank, and a sample that
\* was not accepted has none unless its failed rollback was reported.  No temporary is
\* left that no failed removal or creation accounts for.
OutputAllOrNone ==
    Resting =>
        /\ \A s \in 1..MaxSamples :
             LET present == {r \in Ranks : <<s, r>> \in disk} IN
             IF s \in accepted THEN present = Owners ELSE present = {} \/ s \in dirty
        /\ temp = {}

\* The catalogue lists members in clock order, each of them on disk and either accepted
\* or left behind by a reported rollback failure.  Between steps every accepted sample is
\* listed, unless every rank still owns its finalizer and a retry would not be refused.
CatalogueExact ==
    /\ \A i, j \in 1..Len(index) : i < j => index[i] < index[j]
    /\ \A s \in Listed : <<s, Root>> \in disk /\ s \in accepted \cup dirty
    /\ Resting /\ HasSeries =>
         \A s \in accepted \ Listed :
             /\ ~Refuses(s)
             /\ \A r \in Ranks : \E f \in Range(fin[r].kept) : f.sample = s /\ ~f.series

\* Every step and every retry of the finalizers returns on all ranks.
OutputReturns ==
    (\E r \in Ranks : label[r] # "idle") ~> (\A r \in Ranks : label[r] \in {"idle", "refused"})

=============================================================================
