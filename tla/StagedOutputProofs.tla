------------------------- MODULE StagedOutputProofs -------------------------
(***************************************************************************)
(* Proofs about StagedOutput for any number of inodes and any sequence of  *)
(* replacements, failures and recoveries.                                  *)
(***************************************************************************)
EXTENDS StagedOutput, TLAPS

\* A quarantine is never empty-handed: an inode is lodged only while the
\* object decides what to do with it.
LodgedInv == lodged # Nothing <=> pc = "inspect"

\* Each system call belongs to the method that makes it; the target is worked
\* on by rollback() only, and only if it was created.
CallInv ==
  /\ pc \in {"check", "link", "confirm", "evidence"} => call = "publish"
  /\ pc \in {"rename", "inspect"} => call \in {"publish", "discard", "rollback"}
  /\ pc \in {"rename", "inspect"} /\ path = "target" => call = "rollback" /\ created

\* A created target belongs to our inode, or publish() found another file there
\* at its second look and adopted it.
OwnerInv ==
  /\ created => owner = Own \/ owner \in adopted
  /\ pc = "confirm" => created
  /\ pc \in {"check", "link"} \/ call = "none" => ~created

\* Every retained quarantine has its authority; our inode is at the target only
\* after publish() created it or after a failed rollback() retained it; it does
\* not come back to an entry while that entry is being withdrawn.
WithdrawalInv ==
  /\ quarantine = recoveries
  /\ entry["target"] = Own => created /\ call \notin {"none", "discard"}
  /\ \A r \in recoveries : r.path = "target" => created /\ call = "rollback" /\ failed
  /\ pc = "inspect" => entry[path] # Own
  /\ pc \in {"rename", "inspect"} /\ call = "rollback" /\ path = "temporary" /\ ~failed
       => entry["target"] # Own
-----------------------------------------------------------------------------
(***************************************************************************)
(* Type correctness                                                        *)
(***************************************************************************)

\* A new object has an open temporary and perhaps a file at its target.
LEMMA TypeOKInit == Init => TypeOK
<1> SUFFICES ASSUME Init PROVE TypeOK
  OBVIOUS
<1> USE ConstantsAssumption DEF Init, Own, Nothing, Inodes, Foreign, Paths
<1>1. PICK t \in {Nothing, Own + 1} : entry = [temporary |-> Own, target |-> t]
  OBVIOUS
<1>2. used \in Inodes /\ entry \in [Paths -> 0 .. used] /\ used = (IF t = 0 THEN 1 ELSE t)
  BY <1>1
<1>3. twins \subseteq Foreign
  BY <1>1
<1>4. /\ created \in BOOLEAN /\ published \in BOOLEAN /\ discarded \in BOOLEAN
      /\ failed \in BOOLEAN /\ open \in BOOLEAN
  OBVIOUS
<1>5. /\ quarantine = {} /\ recoveries = {} /\ superseded = {} /\ adopted = {}
      /\ pc = "idle" /\ call = "none" /\ path = "temporary" /\ lodged = 0 /\ owner = 0
  OBVIOUS
<1> HIDE DEF Init
<1> QED BY <1>2, <1>3, <1>4, <1>5 DEF TypeOK

\* What a returning quarantine leaves in the attributes of the object.
LEMMA ContinueType ==
  ASSUME TypeOK, Continue(TRUE) \/ Continue(FALSE)
  PROVE  /\ pc' \in {"idle", "evidence", "rename"} /\ path' \in Paths
         /\ failed' \in BOOLEAN /\ published' \in BOOLEAN
         /\ discarded' \in BOOLEAN /\ open' \in BOOLEAN
<1> USE DEF TypeOK, Continue, Release, Paths
<1>1. failed' \in BOOLEAN
  OBVIOUS
<1>2. published' \in BOOLEAN /\ discarded' \in BOOLEAN /\ open' \in BOOLEAN
  OBVIOUS
<1>3. pc' \in {"idle", "evidence", "rename"} /\ path' \in Paths
  OBVIOUS
<1> QED BY <1>1, <1>2, <1>3

\* Every system call, recovery and replacement keeps the types.
LEMMA TypeOKNext == TypeOK /\ LodgedInv /\ [Next]_vars => TypeOK'
<1> SUFFICES ASSUME TypeOK, LodgedInv, [Next]_vars PROVE TypeOK'
  OBVIOUS
<1> USE ConstantsAssumption DEF TypeOK, Own, Nothing, Inodes, Foreign, Paths, object
<1>1. CASE PublishBegin \/ Check
  BY <1>1 DEF PublishBegin, Check, RaiseIn
<1>2. CASE Confirm
  BY <1>2 DEF Confirm, RaiseIn
<1>3. CASE Evidence
  <2>1. entry["target"] \in 0 .. used /\ used \in 1 .. MaxInodes
    OBVIOUS
  <2>2. adopted' \subseteq Foreign
    <3>1. adopted' = adopted \/ (entry["target"] # 0
                                 /\ adopted' \subseteq adopted \cup ({entry["target"]} \ {1}))
      BY <1>3 DEF Evidence
    <3>2. entry["target"] # 0 => {entry["target"]} \ {1} \subseteq (1 .. MaxInodes) \ {1}
      BY <2>1
    <3> QED BY <3>1, <3>2
  <2>3. owner' \in 0 .. used
    BY <1>3, <2>1 DEF Evidence
  <2> QED BY <1>3, <2>2, <2>3 DEF Evidence, RaiseIn
<1>4. CASE Link
  <2>1. entry' \in [Paths -> 0 .. used]
    BY <1>4 DEF Link
  <2>2. failed' \in BOOLEAN /\ created' \in BOOLEAN
    BY <1>4 DEF Link, RaiseIn
  <2> QED BY <1>4, <2>1, <2>2 DEF Link, RaiseIn
<1>5. CASE DiscardBegin
  BY <1>5 DEF DiscardBegin
<1>6. CASE RollbackBegin
  BY <1>6 DEF RollbackBegin, RollbackStart
<1>7. CASE Finalize
  BY <1>7 DEF Finalize
<1>8. CASE Rename
  <2>1. CASE entry[path] = Nothing
    BY <1>8, <2>1, ContinueType DEF Rename
  <2>2. CASE entry[path] # Nothing
    BY <1>8, <2>2 DEF Rename
  <2> QED BY <2>1, <2>2
<1>9. CASE Unlink
  <2>1. Continue(TRUE)
    BY <1>9 DEF Unlink
  <2> QED BY <1>9, <2>1, ContinueType DEF Unlink
<1>10. CASE UnlinkFails \/ PutBack
  <2>1. pc = "inspect" /\ Continue(FALSE)
    BY <1>10 DEF UnlinkFails, PutBack
  <2>2. lodged \in 1 .. used
    BY <2>1 DEF LodgedInv
  <2>3. entry' \in [Paths -> 0 .. used]
    BY <1>10 DEF UnlinkFails, PutBack
  <2>4. /\ lodged' = Nothing /\ RetainLodged
        /\ UNCHANGED <<call, created, owner, twins, superseded, used, adopted>>
    BY <1>10 DEF UnlinkFails, PutBack
  <2>5. quarantine' \subseteq [path : Paths, inode : 1 .. used]
    BY <2>2, <2>4 DEF RetainLodged
  <2>6. recoveries' \subseteq [path : Paths, inode : 1 .. used]
    BY <2>2, <2>4 DEF RetainLodged
  <2> QED BY <2>1, <2>3, <2>4, <2>5, <2>6, ContinueType
<1>11. ASSUME NEW r \in recoveries, RecoveryRestore(r) PROVE TypeOK'
  <2>1. r.path \in Paths /\ r.inode \in 1 .. used
    OBVIOUS
  <2> QED BY <1>11, <2>1 DEF RecoveryRestore
<1>12. ASSUME NEW r \in recoveries, RecoveryCleanup(r) PROVE TypeOK'
  BY <1>12 DEF RecoveryCleanup
<1>13. ASSUME NEW p \in Paths, OtherProcess(p) PROVE TypeOK'
  <2>1. entry[p] \in 0 .. used
    OBVIOUS
  <2>2. {entry[p]} \ {Nothing} \subseteq Inodes
    BY <2>1
  <2>3. superseded' \subseteq Inodes
    BY <1>13, <2>2 DEF OtherProcess
  <2>4. used' \in Inodes /\ used <= used' /\ entry' \in [Paths -> 0 .. used']
    BY <1>13 DEF OtherProcess
  <2> QED BY <1>13, <2>3, <2>4 DEF OtherProcess
<1>14. CASE UNCHANGED vars
  BY <1>14 DEF vars
<1> QED
  BY <1>1, <1>2, <1>3, <1>4, <1>5, <1>6, <1>7, <1>8, <1>9, <1>10, <1>11, <1>12,
     <1>13, <1>14 DEF Next

\* An inode is lodged exactly while _quarantine_owned_path inspects it.
LEMMA LodgedNext == TypeOK /\ LodgedInv /\ [Next]_vars => LodgedInv'
<1> SUFFICES ASSUME TypeOK, LodgedInv, [Next]_vars PROVE LodgedInv'
  OBVIOUS
<1> USE DEF LodgedInv, Nothing
<1>1. CASE \/ PublishBegin \/ Check \/ Link \/ Confirm \/ Evidence
           \/ DiscardBegin \/ RollbackBegin \/ Finalize
  BY <1>1 DEF PublishBegin, Check, Link, Confirm, Evidence, RaiseIn, DiscardBegin,
              RollbackBegin, Finalize
<1>2. CASE Rename
  BY <1>2, ContinueType DEF Rename
<1>3. CASE Unlink
  BY <1>3, ContinueType DEF Unlink
<1>4. CASE UnlinkFails
  BY <1>4, ContinueType DEF UnlinkFails
<1>5. CASE PutBack
  BY <1>5, ContinueType DEF PutBack
<1>6. ASSUME NEW r \in recoveries, RecoveryRestore(r) \/ RecoveryCleanup(r)
      PROVE  LodgedInv'
  BY <1>6 DEF RecoveryRestore, RecoveryCleanup
<1>7. ASSUME NEW p \in Paths, OtherProcess(p) PROVE LodgedInv'
  BY <1>7 DEF OtherProcess
<1>8. CASE UNCHANGED vars
  BY <1>8 DEF vars
<1> QED BY <1>1, <1>2, <1>3, <1>4, <1>5, <1>6, <1>7, <1>8 DEF Next

\* Type correctness of the staged file, whatever other processes do.
THEOREM TypeCorrect == Spec => [](TypeOK /\ LodgedInv)
<1>1. Init => LodgedInv
  BY DEF Init, LodgedInv
<1> QED BY <1>1, TypeOKInit, TypeOKNext, LodgedNext, PTL DEF Spec
-----------------------------------------------------------------------------
(***************************************************************************)
(* Foreign files                                                           *)
(***************************************************************************)

\* The target is touched by the rollback of a publication that created it.
LEMMA CallNext == TypeOK /\ CallInv /\ [Next]_vars => CallInv'
<1> SUFFICES ASSUME TypeOK, CallInv, [Next]_vars PROVE CallInv'
  OBVIOUS
<1> USE DEF CallInv, object
<1>1. CASE PublishBegin \/ Check \/ Link \/ Confirm \/ Evidence
  BY <1>1 DEF PublishBegin, Check, Link, Confirm, Evidence, RaiseIn
<1>2. CASE DiscardBegin \/ RollbackBegin \/ Finalize
  BY <1>2 DEF DiscardBegin, RollbackBegin, RollbackStart, Finalize
<1>3. CASE Rename
  BY <1>3 DEF Rename, Continue
<1>4. CASE Unlink \/ UnlinkFails \/ PutBack
  BY <1>4 DEF Unlink, UnlinkFails, PutBack, Continue
<1>5. ASSUME NEW r \in recoveries, RecoveryRestore(r) \/ RecoveryCleanup(r)
      PROVE  CallInv'
  BY <1>5 DEF RecoveryRestore, RecoveryCleanup
<1>6. ASSUME NEW p \in Paths, OtherProcess(p) PROVE CallInv'
  BY <1>6 DEF OtherProcess
<1>7. CASE UNCHANGED vars
  BY <1>7 DEF vars
<1> QED BY <1>1, <1>2, <1>3, <1>4, <1>5, <1>6, <1>7 DEF Next

\* Whatever other processes do, the created target is ours or adopted.
LEMMA OwnerNext == TypeOK /\ CallInv /\ OwnerInv /\ [Next]_vars => OwnerInv'
<1> SUFFICES ASSUME TypeOK, CallInv, OwnerInv, [Next]_vars PROVE OwnerInv'
  OBVIOUS
<1> USE DEF OwnerInv, object, Paths
<1>1. CASE PublishBegin \/ Check \/ Confirm \/ Evidence
  BY <1>1 DEF PublishBegin, Check, Confirm, Evidence, RaiseIn, CallInv
<1>2. CASE Link
  BY <1>2 DEF Link, RaiseIn, CallInv, TypeOK
<1>3. CASE DiscardBegin \/ RollbackBegin \/ Finalize
  BY <1>3 DEF DiscardBegin, RollbackBegin, Finalize
<1>4. CASE Rename
  BY <1>4 DEF Rename, Continue, TypeOK, CallInv
<1>5. CASE Unlink \/ UnlinkFails \/ PutBack
  BY <1>5 DEF Unlink, UnlinkFails, PutBack, Continue, TypeOK, CallInv
<1>6. ASSUME NEW r \in recoveries, RecoveryRestore(r) \/ RecoveryCleanup(r)
      PROVE  OwnerInv'
  BY <1>6 DEF RecoveryRestore, RecoveryCleanup
<1>7. ASSUME NEW p \in Paths, OtherProcess(p) PROVE OwnerInv'
  BY <1>7 DEF OtherProcess
<1>8. CASE UNCHANGED vars
  BY <1>8 DEF vars
<1> QED BY <1>1, <1>2, <1>3, <1>4, <1>5, <1>6, <1>7, <1>8 DEF Next

\* No step loses a file of another process: what leaves a path is lodged, what
\* is lodged and not ours is retained, and only our own inode is unlinked.
LEMMA ForeignNext ==
  TypeOK /\ LodgedInv /\ CallInv /\ OwnerInv /\ ForeignSurvives /\ [Next]_vars
    => ForeignSurvives'
<1> SUFFICES ASSUME TypeOK, LodgedInv, CallInv, OwnerInv, ForeignSurvives, [Next]_vars,
                    NEW i \in Foreign, i <= used', i \notin superseded' \cup adopted'
             PROVE  i \in Linked'
  BY DEF ForeignSurvives
<1> USE DEF Paths, object
<1>a. i # Nothing /\ i # Own
  BY DEF Foreign, Inodes, Own, Nothing
<1>b. ASSUME i \in Linked, lodged' = lodged, entry' = entry, quarantine' = quarantine
      PROVE  i \in Linked'
  BY <1>b DEF Linked
<1>d. i \notin adopted
  BY DEF Next, vars, PublishBegin, Check, Link, Confirm, Evidence, DiscardBegin, RollbackBegin,
         Finalize, Rename, Unlink, UnlinkFails, PutBack, RecoveryRestore, RecoveryCleanup,
         OtherProcess
<1>c. ASSUME used' = used, superseded' = superseded
      PROVE  i \in Linked
  BY <1>c, <1>d DEF ForeignSurvives
<1>1. CASE \/ PublishBegin \/ Check \/ Confirm \/ Evidence
           \/ DiscardBegin \/ RollbackBegin \/ Finalize
  BY <1>1, <1>b, <1>c DEF PublishBegin, Check, Confirm, Evidence, DiscardBegin,
                          RollbackBegin, Finalize
<1>2. CASE Link
  <2>1. i \in Linked /\ lodged' = lodged /\ quarantine' = quarantine
    BY <1>2, <1>c DEF Link
  <2>2. CASE entry' = entry
    BY <2>1, <2>2, <1>b
  <2>3. CASE entry.target = Nothing /\ entry' = [entry EXCEPT !.target = entry.temporary]
    <3>1. entry'["temporary"] = entry["temporary"] /\ entry["target"] # i
      BY <1>a, <2>3 DEF TypeOK
    <3> QED BY <2>1, <3>1 DEF Linked
  <2> QED BY <1>2, <2>2, <2>3 DEF Link
<1>3. CASE Rename
  <2>1. i \in Linked /\ quarantine' = quarantine
    BY <1>3, <1>c DEF Rename
  <2>2. CASE entry[path] = Nothing
    BY <2>1, <2>2, <1>3, <1>b DEF Rename
  <2>3. CASE entry[path] # Nothing
    <3>1. lodged = Nothing /\ lodged' = entry[path]
          /\ entry' = [entry EXCEPT ![path] = Nothing]
      BY <1>3, <2>3 DEF Rename, LodgedInv
    <3>2. \A q \in Paths : entry[q] = i => entry'[q] = i \/ lodged' = i
      BY <3>1 DEF TypeOK
    <3> QED BY <1>a, <2>1, <3>1, <3>2 DEF Linked
  <2> QED BY <2>2, <2>3
<1>4. CASE Unlink
  <2>1. lodged = Own \/ lodged \in adopted
    BY <1>4 DEF Unlink, Expected, CallInv, OwnerInv, TypeOK
  <2>2. i \in Linked
    BY <1>4, <1>c DEF Unlink
  <2> QED BY <1>4, <1>a, <1>d, <2>1, <2>2 DEF Unlink, Linked
<1>5. CASE UnlinkFails \/ PutBack
  <2>1. i \in Linked /\ quarantine' = quarantine \cup {[path |-> path, inode |-> lodged]}
    BY <1>5, <1>c DEF UnlinkFails, PutBack, RetainLodged
  <2>2. \A q \in Paths : entry[q] = i => entry'[q] = i
    BY <1>5, <1>a DEF UnlinkFails, PutBack, TypeOK
  <2>3. CASE i = lodged
    BY <2>1, <2>3 DEF Linked
  <2>4. CASE \E q \in Paths : entry[q] = i
    BY <2>2, <2>4 DEF Linked
  <2>5. CASE \E r \in quarantine : r.inode = i
    BY <2>1, <2>5 DEF Linked
  <2> QED BY <2>1, <2>3, <2>4, <2>5 DEF Linked
<1>6. ASSUME NEW r \in recoveries, RecoveryRestore(r) PROVE i \in Linked'
  <2>1. i \in Linked /\ lodged' = lodged /\ quarantine' = quarantine
    BY <1>6, <1>c DEF RecoveryRestore
  <2>2. \A q \in Paths : entry[q] = i => entry'[q] = i
    BY <1>6, <1>a DEF RecoveryRestore, TypeOK
  <2> QED BY <2>1, <2>2 DEF Linked
<1>7. ASSUME NEW r \in recoveries, RecoveryCleanup(r) PROVE i \in Linked'
  <2>1. /\ i \in Linked /\ lodged' = lodged /\ entry' = entry
        /\ quarantine' = quarantine \ {r} /\ entry[r.path] = r.inode
    BY <1>7, <1>c DEF RecoveryCleanup, MayCleanup
  <2>2. r.path \in Paths
    BY DEF TypeOK
  <2> QED BY <2>1, <2>2 DEF Linked
<1>8. ASSUME NEW p \in Paths, OtherProcess(p) PROVE i \in Linked'
  <2>1. lodged' = lodged /\ quarantine' = quarantine
    BY <1>8 DEF OtherProcess
  <2>2. i # entry[p] /\ i \notin superseded
    BY <1>8, <1>a DEF OtherProcess
  <2>3. \A q \in Paths : entry[q] = i => entry'[q] = i
    BY <1>8, <2>2 DEF OtherProcess, TypeOK
  <2>4. CASE i <= used
    <3>1. i \in Linked
      BY <1>d, <2>2, <2>4 DEF ForeignSurvives
    <3> QED BY <3>1, <2>1, <2>3 DEF Linked
  <2>5. CASE ~(i <= used)
    <3>1. i = used + 1 /\ entry' = [entry EXCEPT ![p] = used + 1]
      BY <1>8, <2>5, ConstantsAssumption DEF OtherProcess, TypeOK, Foreign, Inodes
    <3>2. entry'[p] = i
      BY <3>1 DEF TypeOK
    <3> QED BY <3>2 DEF Linked
  <2> QED BY <2>4, <2>5
<1>9. CASE UNCHANGED vars
  BY <1>9, <1>b, <1>c DEF vars
<1> QED BY <1>1, <1>2, <1>3, <1>4, <1>5, <1>6, <1>7, <1>8, <1>9 DEF Next

\* The invariants hold of a new object: a file found at the target is there.
LEMMA ForeignInit == Init => CallInv /\ OwnerInv /\ ForeignSurvives
<1> SUFFICES ASSUME Init PROVE CallInv /\ OwnerInv /\ ForeignSurvives
  OBVIOUS
<1>1. CallInv /\ OwnerInv
  BY DEF Init, CallInv, OwnerInv
<1>2. ForeignSurvives
  <2>1. PICK t \in {Nothing, Own + 1} : entry = [temporary |-> Own, target |-> t]
    BY DEF Init
  <2>2. \A i \in Foreign : i <= used => i = entry["target"]
    BY <2>1, ConstantsAssumption DEF Init, Foreign, Inodes, Own, Nothing
  <2> QED BY <2>2 DEF ForeignSurvives, Linked, Paths
<1> QED BY <1>1, <1>2

\* For any number of files and any interleaving of other processes with the
\* system calls of publish(), discard(), rollback() and the recoveries: no file
\* of another process is destroyed, except one that publish() found at its target
\* at the second look, took for its own and later withdrew.
THEOREM ForeignFilesSurvive == Spec => []ForeignSurvives
<1>1. TypeOK /\ LodgedInv /\ CallInv /\ OwnerInv /\ ForeignSurvives /\ [Next]_vars
      => CallInv' /\ OwnerInv' /\ ForeignSurvives'
  BY CallNext, OwnerNext, ForeignNext
<1> QED BY <1>1, ForeignInit, TypeCorrect, PTL DEF Spec
-----------------------------------------------------------------------------
(***************************************************************************)
(* Withdrawal                                                              *)
(***************************************************************************)

\* A new object has nothing of its own at the target.
LEMMA WithdrawalInit == Init => WithdrawalInv
BY DEF Init, WithdrawalInv, Own, Nothing

\* Whatever other processes do, our inode moves only as WithdrawalInv says.
LEMMA WithdrawalNext ==
  TypeOK /\ LodgedInv /\ CallInv /\ WithdrawalInv /\ [Next]_vars => WithdrawalInv'
<1> SUFFICES ASSUME TypeOK, LodgedInv, CallInv, WithdrawalInv, [Next]_vars
             PROVE  WithdrawalInv'
  OBVIOUS
<1> USE DEF WithdrawalInv, object, Paths, Own, Nothing
<1>1. CASE PublishBegin \/ Check \/ Confirm \/ Evidence
  BY <1>1 DEF PublishBegin, Check, Confirm, Evidence, RaiseIn, CallInv
<1>2. CASE Link
  BY <1>2 DEF Link, RaiseIn, CallInv, TypeOK
<1>3. CASE DiscardBegin \/ RollbackBegin \/ Finalize
  BY <1>3 DEF DiscardBegin, RollbackBegin, RollbackStart, Finalize
<1>4. CASE Rename
  BY <1>4 DEF Rename, Continue, LastRemoval, TypeOK, CallInv
<1>5. CASE Unlink
  BY <1>5 DEF Unlink, Continue, LastRemoval, TypeOK, CallInv
<1>6. CASE UnlinkFails
  BY <1>6 DEF UnlinkFails, RetainLodged, Continue, LastRemoval, TypeOK, CallInv
<1>7. CASE PutBack
  BY <1>7 DEF PutBack, RetainLodged, Continue, LastRemoval, TypeOK, CallInv
<1>8. ASSUME NEW r \in recoveries, RecoveryRestore(r) PROVE WithdrawalInv'
  BY <1>8 DEF RecoveryRestore, TypeOK
<1>9. ASSUME NEW r \in recoveries, RecoveryCleanup(r) PROVE WithdrawalInv'
  BY <1>9 DEF RecoveryCleanup
<1>10. ASSUME NEW p \in Paths, OtherProcess(p) PROVE WithdrawalInv'
  BY <1>10, ConstantsAssumption DEF OtherProcess, TypeOK, Inodes
<1>11. CASE UNCHANGED vars
  BY <1>11 DEF vars
<1> QED BY <1>1, <1>2, <1>3, <1>4, <1>5, <1>6, <1>7, <1>8, <1>9, <1>10, <1>11 DEF Next

\* A step that marks the object discarded is the last removal of discard() or
\* of a rollback() without failure.
LEMMA DiscardedBy ==
  ASSUME TypeOK, [Next]_vars, ~discarded, discarded'
  PROVE  /\ Rename \/ Unlink
         /\ pc \in {"rename", "inspect"} /\ path = "temporary"
         /\ call # "publish" /\ ~failed
<1>1. CASE Rename
  BY <1>1 DEF Rename, Continue, LastRemoval, TypeOK
<1>2. CASE Unlink
  BY <1>2 DEF Unlink, Continue, LastRemoval, TypeOK
<1>3. CASE UnlinkFails
  BY <1>3 DEF UnlinkFails, Continue
<1>4. CASE PutBack
  BY <1>4 DEF PutBack, Continue
<1>5. discarded' = discarded \/ Rename \/ Unlink \/ UnlinkFails \/ PutBack
  BY DEF Next, vars, object, PublishBegin, Check, Link, Confirm, Evidence,
         DiscardBegin, RollbackBegin, Finalize, RecoveryRestore, RecoveryCleanup,
         OtherProcess
<1> QED BY <1>1, <1>2, <1>3, <1>4, <1>5

\* The last removal leaves our inode nowhere without a retained authority.
LEMMA CleanExitStep ==
  ASSUME TypeOK, LodgedInv, CallInv, WithdrawalInv, [Next]_vars, ~discarded, discarded'
  PROVE  /\ \A p \in Paths : entry'[p] # Own
         /\ Own \in Linked' => \E r \in recoveries' : r.inode = Own
<1>1. /\ Rename \/ Unlink
      /\ pc \in {"rename", "inspect"} /\ path = "temporary"
      /\ call # "publish" /\ ~failed
  BY DiscardedBy
<1>2. quarantine' = quarantine /\ recoveries' = recoveries
  BY <1>1 DEF Rename, Unlink
<1>3. entry["target"] # Own
  BY <1>1 DEF WithdrawalInv, CallInv
<1>4. entry' = entry /\ lodged' = Nothing /\ entry["temporary"] # Own
  <2>1. CASE Rename
    <3>1. entry[path] = Nothing
      BY <2>1 DEF Rename
    <3> QED BY <1>1, <2>1, <3>1 DEF Rename, LodgedInv, Own, Nothing
  <2>2. CASE Unlink
    BY <1>1, <2>2 DEF Unlink, WithdrawalInv
  <2> QED BY <1>1, <2>1, <2>2
<1>5. \A p \in Paths : entry'[p] # Own
  BY <1>3, <1>4 DEF Paths
<1>6. ASSUME Own \in Linked' PROVE \E r \in recoveries' : r.inode = Own
  BY <1>2, <1>4, <1>5, <1>6 DEF Linked, WithdrawalInv, Own, Nothing
<1> QED BY <1>5, <1>6

\* For any number of files, also with a replacement between the two looks
\* of publish(): when discard() or rollback() reports success, our inode is at
\* neither path, and a copy an earlier failure left behind has its authority.
THEOREM CleanExit == Spec => CleanExitIsEmpty
<1>1. Init => CallInv /\ WithdrawalInv
  BY ForeignInit, WithdrawalInit
<1>2. TypeOK /\ LodgedInv /\ CallInv /\ WithdrawalInv /\ [Next]_vars
      => CallInv' /\ WithdrawalInv'
  BY CallNext, WithdrawalNext
<1>3. TypeOK /\ LodgedInv /\ CallInv /\ WithdrawalInv /\ [Next]_vars
      => [~discarded /\ discarded' =>
            /\ \A p \in Paths : entry'[p] # Own
            /\ Own \in Linked' => \E r \in recoveries' : r.inode = Own]_vars
  BY CleanExitStep
<1> QED BY <1>1, <1>2, <1>3, TypeCorrect, PTL DEF Spec, CleanExitIsEmpty
=============================================================================
