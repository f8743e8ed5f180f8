---------------------------- MODULE StagedOutput ----------------------------
(***************************************************************************)
(* _StagedOutputFile and its quarantine protocol                           *)
(* (python/pops/output/_writers/common.py), as executed by rank zero; the  *)
(* other ranks only receive the outcome.  A directory entry holds an inode *)
(* or nothing.  Every system call is one step, and between two of them     *)
(* another process may replace or remove an entry.                         *)
(***************************************************************************)
EXTENDS Integers, FiniteSets

CONSTANT MaxInodes  \* bound: inodes that ever exist

ASSUME ConstantsAssumption == MaxInodes \in Nat \ {0, 1}

Nothing == 0
Own == 1              \* the inode that mkstemp created
Inodes == 1 .. MaxInodes
Foreign == Inodes \ {Own}

VARIABLES
  pc, call,      \* next system call; the method it belongs to
  path,          \* entry that _quarantine_owned_path works on
  entry,         \* inode at the temporary and at the target path
  lodged,        \* inode in the private quarantine being worked on
  quarantine,    \* retained quarantines: [path, inode]
  recoveries,    \* _recoveries, then the registry of the RuntimeInstance
  created,       \* _created_target
  owner,         \* _target_owner
  published, discarded,  \* _published, _discarded
  failed,        \* the running method has a failure
  open,          \* the staging descriptor is open
  twins,         \* world: foreign inodes with the bytes of our file
  superseded,    \* world: inodes another process has itself replaced
  used,          \* world: inodes allocated so far
  adopted        \* history: files of others that publish() took for its own

object == <<recoveries, created, owner, published, discarded, open>>
vars == <<pc, call, path, entry, lodged, quarantine, object, failed, twins,
          superseded, used, adopted>>

Paths == {"temporary", "target"}

Init ==
  /\ pc = "idle" /\ call = "none" /\ path = "temporary"
  /\ entry \in [temporary : {Own}, target : {Nothing, Own + 1}]
  /\ lodged = Nothing /\ quarantine = {} /\ recoveries = {}
  /\ created = FALSE /\ owner = Nothing
  /\ published = FALSE /\ discarded = FALSE /\ failed = FALSE /\ open = TRUE
  /\ twins \in SUBSET ({entry.target} \ {Nothing}) /\ superseded = {}
  /\ used = IF entry.target = Nothing THEN Own ELSE entry.target
  /\ adopted = {}
-----------------------------------------------------------------------------
(***************************************************************************)
(* publish()                                                               *)
(***************************************************************************)
PublishBegin ==
  /\ pc = "idle" /\ call = "none"
  /\ pc' = "check" /\ call' = "publish" /\ failed' = FALSE
  /\ UNCHANGED <<path, entry, lodged, quarantine, object, twins, superseded, used, adopted>>

\* A method raises: the owning transaction answers with rollback() or reports.
RaiseIn == pc' = "idle" /\ failed' = TRUE

\* _verify and lstat of the temporary.
Check ==
  /\ pc = "check"
  /\ IF entry.temporary = Own THEN pc' = "link" /\ UNCHANGED failed ELSE RaiseIn
  /\ UNCHANGED <<call, path, entry, lodged, quarantine, object, twins,
                 superseded, used, adopted>>

\* os.link fails if the target exists; the same bytes are an idempotent
\* publication.
Link ==
  /\ pc = "link"
  /\ \/ /\ entry.target = Nothing /\ entry.temporary # Nothing
        /\ entry' = [entry EXCEPT !.target = entry.temporary]
        /\ created' = TRUE /\ owner' = Own /\ pc' = "confirm"
        /\ UNCHANGED <<path, failed>>
     \/ /\ entry.target \in twins /\ entry.temporary = Own
        /\ pc' = "rename" /\ path' = "temporary"
        /\ UNCHANGED <<entry, created, owner, failed>>
     \/ /\ \/ entry.temporary = Nothing
           \/ entry.target # Nothing /\ ~(entry.target \in twins /\ entry.temporary = Own)
        /\ RaiseIn
        /\ UNCHANGED <<path, entry, created, owner>>
  /\ UNCHANGED <<call, lodged, quarantine, recoveries, published, discarded,
                 open, twins, superseded, used, adopted>>

\* lstat of the new target.
Confirm ==
  /\ pc = "confirm"
  /\ IF entry.target = owner
       THEN pc' = "rename" /\ path' = "temporary" /\ UNCHANGED failed
       ELSE RaiseIn /\ UNCHANGED path
  /\ UNCHANGED <<call, entry, lodged, quarantine, object, twins, superseded, used, adopted>>

\* _path_file_evidence(target): publish() returns its receipt.  It takes what it
\* finds: a file that another process has put there since Confirm is adopted, and
\* the rollback of this publication will withdraw it.
Evidence ==
  /\ pc = "evidence"
  /\ IF entry.target = Nothing
       THEN RaiseIn /\ UNCHANGED <<owner, published, adopted>>
       ELSE /\ owner' = entry.target /\ published' = TRUE
            /\ pc' = "idle" /\ UNCHANGED failed
            /\ adopted' = adopted \cup (IF created THEN {entry.target} \ {Own} ELSE {})
  /\ UNCHANGED <<call, path, entry, lodged, quarantine, recoveries, created,
                 discarded, open, twins, superseded, used>>
-----------------------------------------------------------------------------
(***************************************************************************)
(* discard(), rollback() and finalize()                                    *)
(***************************************************************************)
DiscardBegin ==
  /\ pc = "idle" /\ call = "none"
  /\ pc' = "rename" /\ path' = "temporary" /\ call' = "discard" /\ failed' = FALSE
  /\ UNCHANGED <<entry, lodged, quarantine, object, twins, superseded, used, adopted>>

\* Only a target that this object created is withdrawn.
RollbackStart == IF created THEN "target" ELSE "temporary"

RollbackBegin ==
  /\ pc = "idle" /\ call = "publish" /\ ~discarded
  /\ pc' = "rename" /\ path' = RollbackStart
  /\ call' = "rollback" /\ failed' = FALSE
  /\ UNCHANGED <<entry, lodged, quarantine, object, twins, superseded, used, adopted>>

Finalize ==
  /\ pc = "idle" /\ call = "publish" /\ published
  /\ open' = FALSE /\ call' = "finalize"
  /\ UNCHANGED <<pc, path, entry, lodged, quarantine, recoveries, created, owner,
                 published, discarded, failed, twins, superseded, used, adopted>>
-----------------------------------------------------------------------------
(***************************************************************************)
(* _quarantine_owned_path                                                  *)
(***************************************************************************)
Expected == IF path = "temporary" THEN Own ELSE owner

\* _remove_temporary_owned is the last removal of discard() and rollback().
LastRemoval_Fault == TRUE
LastRemoval == path = "temporary"

\* discard() and rollback() close the descriptor when nothing has failed.
Release == published' = FALSE /\ discarded' = TRUE /\ open' = FALSE

\* What the caller does when the quarantine of `path` has returned or raised.
Continue(ok) ==
  /\ failed' = (failed \/ ~ok)
  /\ \/ /\ call = "publish"
        /\ pc' = IF ok THEN "evidence" ELSE "idle"
        /\ UNCHANGED <<path, published, discarded, open>>
     \/ /\ call # "publish" /\ ~LastRemoval
        /\ pc' = "rename" /\ path' = "temporary"
        /\ UNCHANGED <<published, discarded, open>>
     \/ /\ call # "publish" /\ LastRemoval
        /\ pc' = "idle" /\ UNCHANGED path
        /\ IF failed' THEN UNCHANGED <<published, discarded, open>> ELSE Release

\* The entry is moved, whatever it is, into a private directory.
Rename ==
  /\ pc = "rename"
  /\ IF entry[path] = Nothing
       THEN Continue(TRUE) /\ UNCHANGED <<entry, lodged>>
       ELSE /\ lodged' = entry[path] /\ entry' = [entry EXCEPT ![path] = Nothing]
            /\ pc' = "inspect"
            /\ UNCHANGED <<path, failed, published, discarded, open>>
  /\ UNCHANGED <<call, quarantine, recoveries, created, owner, twins, superseded,
                 used, adopted>>

\* The inode is ours: it is unlinked, and only then is it gone.
Unlink_Fault ==
  /\ pc = "inspect"
  /\ lodged' = Nothing /\ Continue(TRUE)
  /\ UNCHANGED <<call, entry, quarantine, recoveries, created, owner, twins,
                 superseded, used, adopted>>

Unlink ==
  /\ pc = "inspect" /\ lodged = Expected
  /\ lodged' = Nothing /\ Continue(TRUE)
  /\ UNCHANGED <<call, entry, quarantine, recoveries, created, owner, twins,
                 superseded, used, adopted>>

RetainLodged ==
  /\ quarantine' = quarantine \cup {[path |-> path, inode |-> lodged]}
  /\ recoveries' = recoveries \cup {[path |-> path, inode |-> lodged]}

UnlinkFails ==
  /\ pc = "inspect" /\ lodged = Expected
  /\ RetainLodged
  /\ lodged' = Nothing /\ Continue(FALSE)
  /\ UNCHANGED <<call, entry, created, owner, twins, superseded, used, adopted>>

\* The inode is not ours: it goes back to its path if that is still free, and
\* its quarantine is retained.
PutBack ==
  /\ pc = "inspect" /\ lodged # Expected
  /\ entry' = IF entry[path] = Nothing THEN [entry EXCEPT ![path] = lodged] ELSE entry
  /\ RetainLodged
  /\ lodged' = Nothing /\ Continue(FALSE)
  /\ UNCHANGED <<call, created, owner, twins, superseded, used, adopted>>
-----------------------------------------------------------------------------
(***************************************************************************)
(* _QuarantineRecovery, driven by the operator; and other processes        *)
(***************************************************************************)

RecoveryRestore(r) ==
  /\ pc = "idle" /\ r \in recoveries
  /\ entry[r.path] = Nothing
  /\ entry' = [entry EXCEPT ![r.path] = r.inode]
  /\ UNCHANGED <<pc, call, path, lodged, quarantine, object, failed, twins,
                 superseded, used, adopted>>

\* cleanup_restored drops the retained link of a publicly restored inode.
MayCleanup(r) == entry[r.path] = r.inode

RecoveryCleanup(r) ==
  /\ pc = "idle" /\ r \in recoveries /\ MayCleanup(r)
  /\ quarantine' = quarantine \ {r} /\ recoveries' = recoveries \ {r}
  /\ UNCHANGED <<pc, call, path, entry, lodged, created, owner, published,
                 discarded, open, failed, twins, superseded, used, adopted>>

\* Another process renames a file of its own over an entry, or removes it.
OtherProcess(p) ==
  /\ superseded' = superseded \cup ({entry[p]} \ {Nothing})
  /\ \/ /\ used < MaxInodes
        /\ used' = used + 1 /\ entry' = [entry EXCEPT ![p] = used + 1]
     \/ /\ entry[p] # Nothing
        /\ entry' = [entry EXCEPT ![p] = Nothing]
        /\ UNCHANGED used
  /\ UNCHANGED <<pc, call, path, lodged, quarantine, object, failed, twins, adopted>>

Next ==
  \/ PublishBegin \/ Check \/ Link \/ Confirm \/ Evidence
  \/ DiscardBegin \/ RollbackBegin \/ Finalize
  \/ Rename \/ Unlink \/ UnlinkFails \/ PutBack
  \/ \E r \in recoveries : RecoveryRestore(r) \/ RecoveryCleanup(r)
  \/ \E p \in Paths : OtherProcess(p)

Spec == Init /\ [][Next]_vars
-----------------------------------------------------------------------------
Linked == {entry[p] : p \in Paths} \cup {lodged} \cup {r.inode : r \in quarantine}

\* Entries, quarantines and the owner hold allocated inodes.
TypeOK ==
  /\ pc \in {"idle", "check", "link", "confirm", "evidence", "rename", "inspect"}
  /\ call \in {"none", "publish", "discard", "rollback", "finalize"}
  /\ path \in Paths /\ entry \in [Paths -> 0 .. used] /\ lodged \in 0 .. used
  /\ quarantine \subseteq [path : Paths, inode : 1 .. used]
  /\ recoveries \subseteq [path : Paths, inode : 1 .. used]
  /\ created \in BOOLEAN /\ published \in BOOLEAN /\ discarded \in BOOLEAN
  /\ failed \in BOOLEAN /\ open \in BOOLEAN
  /\ owner \in 0 .. used /\ twins \subseteq Foreign /\ superseded \subseteq Inodes
  /\ used \in Inodes /\ adopted \subseteq Foreign

\* No file of another process is destroyed, whenever it is put in place: unless
\* that process itself replaced or removed it, or publish() adopted it at its
\* second look at the target, it is at its path or in a retained quarantine.
ForeignSurvives ==
  \A i \in Foreign : i <= used /\ i \notin superseded \cup adopted => i \in Linked

\* When discard() or rollback() reports success, our inode is at no path, and
\* if an earlier failure left it in a quarantine, its authority is retained.
CleanExitIsEmpty ==
  [][~discarded /\ discarded' =>
       /\ \A p \in Paths : entry'[p] # Own
       /\ Own \in Linked' => \E r \in recoveries' : r.inode = Own]_vars
=============================================================================
