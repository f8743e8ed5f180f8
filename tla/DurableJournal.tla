--------------------------- MODULE DurableJournal ---------------------------
(***************************************************************************)
(* The filesystem-backed observer journal of                               *)
(* src/python/pops/output/_durable_journal.py, one system call per step.   *)
(*                                                                         *)
(* An archive is a hard link of one inode in up to three state             *)
(* directories.  live is what the running system sees, disk what a crash   *)
(* is certain to leave: a link or unlink changes live, an fsync of the     *)
(* directory copies live to disk, and a crash keeps an arbitrary part of   *)
(* the changes that were not synced.  Several threads call one journal;    *)
(* op[t] is the call thread t is inside.                                   *)
(*                                                                         *)
(* Archive bytes are written and synced in a temporary before they are     *)
(* linked, so a link is always to complete bytes: the temporaries and the  *)
(* authentication of the bytes are left out.                               *)
(***************************************************************************)
EXTENDS Naturals, FiniteSets

CONSTANTS
    Frames,      \* frame identities
    Threads,     \* the threads that call the journal
    Syncs        \* TRUE for sync="fsync", FALSE for sync="none"

ASSUME SyncsAssumption == Syncs \in BOOLEAN

VARIABLES
    live,        \* directory -> the frames with a link in it
    disk,        \* the part of live that survives a crash for certain
    op           \* thread -> the journal call it is executing

journalVars == <<live, disk, op>>

States == {"prepared", "pending", "delivered"}

\* A call is at its next system call; "returned" and "raised" end it with a
\* result: the state of the record, or why it was refused.  dir is the directory
\* an unlink in progress acts on and then the place the call continues from.
Idle == [call |-> "none", frame |-> 0, at |-> "idle", dir |-> "prepared",
         then |-> "idle", result |-> "none"]
Calls == {"none", "prepare", "discard", "commit", "deliver", "recover"}
Places == {"idle", "delivered?", "pending?", "prepared?", "source?", "link", "sync",
           "source again?", "stale pending?", "stale prepared?", "scan",
           "unlink", "sync unlink", "finish", "returned", "raised"}
Results == States \cup {"none", "removed", "missing", "committed", "io"}

JournalTypeOK ==
    /\ live \in [States -> SUBSET Frames]
    /\ disk \in [States -> SUBSET Frames]
    /\ op \in [Threads -> [call : Calls, frame : Frames \cup {0}, at : Places,
                           dir : States, then : Places, result : Results]]

JournalInit ==
    /\ live = [s \in States |-> {}]
    /\ disk = [s \in States |-> {}]
    /\ op = [t \in Threads |-> Idle]

-----------------------------------------------------------------------------
At(t, at) == op[t].at = at
In(t, call, at) == op[t].call = call /\ op[t].at = at
Has(t, s) == op[t].frame \in live[s]

Go(t, at) == op' = [op EXCEPT ![t].at = at]
Keep(t, result, at) == op' = [op EXCEPT ![t].at = at, ![t].result = result]
End(t, result) == Keep(t, result, "returned")
Fail(t, result) == Keep(t, result, "raised")
\* _remove(path): unlink, then sync the directory, then continue at then.
Remove(t, s, then) == op' = [op EXCEPT ![t].at = "unlink", ![t].dir = s, ![t].then = then]

\* A public method is entered at its first inspection of a directory.
Enter(t, call, f) ==
    /\ op[t].at = "idle"
    /\ op' = [op EXCEPT ![t] = [Idle EXCEPT !.call = call, !.frame = f,
                                            !.at = IF call = "recover" THEN "scan" ELSE "delivered?"]]
    /\ UNCHANGED <<live, disk>>

\* The directories a promotion links from and into; prepare publishes its
\* temporary into "prepared" with the same link and sync.
Source(t) == IF op[t].call = "deliver" THEN "pending" ELSE "prepared"
Target(t) == CASE op[t].call = "deliver" -> "delivered"
               [] op[t].call = "commit" -> "pending"
               [] OTHER -> "prepared"

\* The inspections of the state directories, in the order of each method.
Inspect(t) ==
    /\ \/ /\ At(t, "delivered?")
          /\ IF ~Has(t, "delivered")
             THEN Go(t, IF op[t].call = "deliver" THEN "source?" ELSE "pending?")
             ELSE CASE op[t].call = "prepare" -> End(t, "delivered")
                    [] op[t].call = "discard" -> Fail(t, "committed")
                    [] op[t].call = "commit" -> Keep(t, "delivered", "stale prepared?")
                    [] OTHER -> Keep(t, "delivered", "stale pending?")
       \/ /\ At(t, "pending?")
          /\ IF ~Has(t, "pending")
             THEN Go(t, IF op[t].call = "commit" THEN "source?" ELSE "prepared?")
             ELSE CASE op[t].call = "prepare" -> End(t, "pending")
                    [] op[t].call = "discard" -> Fail(t, "committed")
                    [] OTHER -> Keep(t, "pending", "stale prepared?")
       \/ /\ In(t, "prepare", "prepared?")
          /\ IF Has(t, "prepared") THEN End(t, "prepared") ELSE Go(t, "link")
       \/ /\ In(t, "discard", "prepared?")
          /\ IF Has(t, "prepared")
             THEN op' = [op EXCEPT ![t].at = "unlink", ![t].dir = "prepared",
                                   ![t].then = "finish", ![t].result = "removed"]
             ELSE End(t, "none")
    /\ UNCHANGED <<live, disk>>

\* _promote and the publication of a new archive: link the target, make it
\* durable, and only then remove the source.
PromoteSource(t) ==
    /\ At(t, "source?")
    /\ IF Has(t, Source(t)) THEN Go(t, "link") ELSE Fail(t, "missing")
    /\ UNCHANGED <<live, disk>>

\* A rename in place of a link that is made durable before the source goes.
Link_Fault(t) ==
    /\ At(t, "link")
    /\ live' = [s \in States |-> CASE s = Target(t) -> live[s] \cup {op[t].frame}
                                   [] s # Target(t) /\ s = Source(t) -> live[s] \ {op[t].frame}
                                   [] OTHER -> live[s]]
    /\ Go(t, "sync")
    /\ UNCHANGED disk

Link(t) ==
    /\ At(t, "link")
    /\ live' = [live EXCEPT ![Target(t)] = @ \cup {op[t].frame}]
    /\ Go(t, "sync")
    /\ UNCHANGED disk

Synced_Fault(s) == disk

\* _sync_directory is a no-op unless the journal was built with sync="fsync".
Synced(s) == IF Syncs THEN [disk EXCEPT ![s] = live[s]] ELSE disk

Sync(t) ==
    /\ At(t, "sync")
    /\ disk' = Synced(Target(t))
    /\ IF op[t].call = "prepare" THEN End(t, "prepared") ELSE Keep(t, Target(t), "source again?")
    /\ UNCHANGED live

PromoteCleanup(t) ==
    /\ At(t, "source again?")
    /\ LET after == IF op[t].call = "deliver" THEN "stale pending?" ELSE "finish"
       IN IF Has(t, Source(t)) THEN Remove(t, Source(t), after) ELSE Go(t, after)
    /\ UNCHANGED <<live, disk>>

\* The stale links a method removes once the record is known to be further on.
RemoveStale(t) ==
    /\ \/ /\ At(t, "stale pending?")
          /\ IF Has(t, "pending") THEN Remove(t, "pending", "stale prepared?") ELSE Go(t, "stale prepared?")
       \/ /\ At(t, "stale prepared?")
          /\ IF Has(t, "prepared") THEN Remove(t, "prepared", "finish") ELSE Go(t, "finish")
    /\ UNCHANGED <<live, disk>>

Unlink(t) ==
    /\ At(t, "unlink")
    /\ live' = [live EXCEPT ![op[t].dir] = @ \ {op[t].frame}]
    /\ Go(t, IF Has(t, op[t].dir) THEN "sync unlink" ELSE op[t].then)
    /\ UNCHANGED disk

SyncUnlink(t) ==
    /\ At(t, "sync unlink")
    /\ disk' = Synced(op[t].dir)
    /\ Go(t, op[t].then)
    /\ UNCHANGED live

Finish(t) ==
    /\ At(t, "finish")
    /\ End(t, op[t].result)
    /\ UNCHANGED <<live, disk>>

Recover_Fault(t) ==
    /\ In(t, "recover", "scan")
    /\ \/ \E f \in live["prepared"] :
             op' = [op EXCEPT ![t].frame = f, ![t].at = "unlink", ![t].dir = "prepared", ![t].then = "scan"]
       \/ /\ live["prepared"] = {}
          /\ End(t, "none")
    /\ UNCHANGED <<live, disk>>

\* _recover, entered when the journal is opened: every prepared link is stale,
\* whether the record was committed or must be rolled back, and so is the pending
\* link of a delivered record.
Recover(t) ==
    /\ In(t, "recover", "scan")
    /\ \/ \E f \in live["delivered"] \cap live["pending"] :
             op' = [op EXCEPT ![t].frame = f, ![t].at = "unlink", ![t].dir = "pending", ![t].then = "scan"]
       \/ \E f \in live["prepared"] \ (live["delivered"] \cap live["pending"]) :
             op' = [op EXCEPT ![t].frame = f, ![t].at = "unlink", ![t].dir = "prepared", ![t].then = "scan"]
       \/ /\ live["prepared"] \cup (live["delivered"] \cap live["pending"]) = {}
          /\ End(t, "none")
    /\ UNCHANGED <<live, disk>>

\* A system call of the journal fails: the method raises where it stands.
CallFails(t, at) ==
    /\ At(t, at) /\ at \in {"link", "sync", "unlink", "sync unlink"}
    /\ Fail(t, "io")
    /\ UNCHANGED <<live, disk>>

JournalStep(t) ==
    \/ Inspect(t) \/ PromoteSource(t) \/ Link(t) \/ Sync(t) \/ PromoteCleanup(t)
    \/ RemoveStale(t) \/ Unlink(t) \/ SyncUnlink(t) \/ Finish(t) \/ Recover(t)

\* The caller takes the result of a finished method.
Take(t) == op' = [op EXCEPT ![t] = Idle] /\ UNCHANGED <<live, disk>>

\* list_pending: every committed, unacknowledged frame (in clock order).
ListPending == live["pending"]

-----------------------------------------------------------------------------
\* The process dies: the filesystem keeps what it shows.
ProcessCrash ==
    /\ op' = [t \in Threads |-> Idle]
    /\ UNCHANGED <<live, disk>>

\* The machine dies: of the links and unlinks that were not synced an arbitrary
\* part reached the disk.
MachineCrash ==
    /\ op' = [t \in Threads |-> Idle]
    /\ \E left \in [States -> SUBSET Frames] :
          /\ \A s \in States : /\ live[s] \cap disk[s] \subseteq left[s]
                               /\ left[s] \subseteq live[s] \cup disk[s]
          /\ live' = left
          /\ disk' = left
=============================================================================
