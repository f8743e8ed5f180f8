--------------------- MODULE ConsumerTransactionProofs ---------------------
(***************************************************************************)
(* Proofs about ConsumerTransaction for plans of any length, any retry     *)
(* bound and any number of asynchronous interruptions.                     *)
(***************************************************************************)
EXTENDS ConsumerTransaction, TLAPS

\* One attempt more stays within the bound of the retry policy.
LEMMA LimitBounded ==
  ASSUME TypeOK, NEW e \in Effects
  PROVE  Limit(e) \in 1 .. MaxAttempts
BY ConstantsAssumption DEF TypeOK, Limit, FailureActions

\* The constructor starts with values of the right domains.
LEMMA TypeOKInit == Init => TypeOK
<1>1. Init => unlisted \in BOOLEAN
  BY Zenon DEF Init
<1> QED BY <1>1, ConstantsAssumption DEF Init, TypeOK, States, Methods

\* Every step, interruptions included, keeps the domains and the retry bound.
LEMMA TypeOKNext == TypeOK /\ [Next]_vars => TypeOK'
<1> SUFFICES ASSUME TypeOK, [Next]_vars PROVE TypeOK'
  OBVIOUS
<1> USE ConstantsAssumption DEF TypeOK, States, Methods, disk
<1>1. ASSUME NEW e \in Effects, PrepareOk(e) \/ PrepareFails(e) PROVE TypeOK'
  <2>1. /\ attempts' = [attempts EXCEPT ![e] = attempts[e] + 1]
        /\ attempts[e] < Limit(e)
    BY <1>1 DEF PrepareOk, PrepareFails, Spent
  <2>2. attempts' \in [Effects -> 0 .. MaxAttempts]
    BY <2>1, LimitBounded
  <2> QED BY <1>1, <2>2 DEF PrepareOk, PrepareFails
<1>2. ASSUME NEW e \in Effects, PrepareExhausted(e) PROVE TypeOK'
  BY <1>2 DEF PrepareExhausted
<1>3. ASSUME NEW e \in Effects, PublishOk(e) \/ PublishFails(e) PROVE TypeOK'
  BY <1>3 DEF PublishOk, PublishFails
<1>4. ASSUME NEW e \in Effects, UndoOk(e) PROVE TypeOK'
  BY <1>4 DEF UndoOk, Classify, SkippedWith, StillStaged, Retain
<1>5. ASSUME NEW e \in Effects, UndoFails(e) PROVE TypeOK'
  BY <1>5 DEF UndoFails, Classify, SkippedWith, StillStaged, Retain, MayRetain
<1>6. ASSUME NEW e \in Effects, ReprepareExhausted(e) PROVE TypeOK'
  BY <1>6 DEF ReprepareExhausted, StillStaged
<1>7. ASSUME NEW e \in Effects, DiscardOk(e) \/ DiscardFails(e) PROVE TypeOK'
  BY <1>7 DEF DiscardOk, DiscardFails, Retain, MayRetain
<1>8. ASSUME NEW e \in Effects, RollbackOk(e) \/ RollbackFails(e) PROVE TypeOK'
  BY <1>8 DEF RollbackOk, RollbackFails, Retain, MayRetain
<1>9. ASSUME NEW e \in Effects, FinalizeOk(e) \/ FinalizeFails(e) PROVE TypeOK'
  BY <1>9 DEF FinalizeOk, FinalizeFails, Retain, MayRetain
<1>10. CASE PrepareDone \/ AcceptDone \/ DiscardDone \/ RollbackClear \/ RollbackDone
               \/ SealUnlist \/ SealMark \/ SealDone
  BY <1>10 DEF PrepareDone, AcceptDone, DiscardDone, RollbackClear, RollbackDone,
       SealUnlist, SealMark, SealDone
<1>11. CASE AcceptBegin \/ RejectBegin \/ RollbackBegin \/ SealBegin
  BY <1>11 DEF AcceptBegin, RejectBegin, RollbackBegin, SealBegin
<1>12. CASE Interrupt
  BY <1>12 DEF Interrupt
<1>13. CASE UNCHANGED vars
  BY <1>13 DEF vars
<1> QED
  BY <1>1, <1>2, <1>3, <1>4, <1>5, <1>6, <1>7, <1>8, <1>9, <1>10, <1>11,
     <1>12, <1>13 DEF Next, Run, Call, AbortResolved

\* Type correctness of the transaction, for every plan.
THEOREM TypeCorrect == Spec => []TypeOK
BY TypeOKInit, TypeOKNext, PTL DEF Spec
-----------------------------------------------------------------------------
(***************************************************************************)
(* Phases: a method only runs in the states that its guard admits.         *)
(***************************************************************************)

\* The transaction starts in _prepare_all.
LEMMA PhaseInit == Init => PhaseInv
BY DEF Init, PhaseInv

\* Every step leaves a method in a state that its guard admits.
LEMMA PhaseNext == TypeOK /\ PhaseInv /\ [Next]_vars => PhaseInv'
<1> SUFFICES ASSUME TypeOK, PhaseInv, [Next]_vars PROVE PhaseInv'
  OBVIOUS
<1> USE DEF PhaseInv, TypeOK, Methods
<1>1. ASSUME NEW e \in Effects,
             \/ PrepareOk(e) \/ PrepareFails(e) \/ PrepareExhausted(e)
             \/ PublishOk(e) \/ PublishFails(e) \/ ReprepareExhausted(e)
      PROVE  PhaseInv'
  BY <1>1 DEF PrepareOk, PrepareFails, PrepareExhausted, PublishOk, PublishFails,
              ReprepareExhausted
<1>2. ASSUME NEW e \in Effects, UndoOk(e) \/ UndoFails(e) PROVE PhaseInv'
  BY <1>2 DEF UndoOk, UndoFails, Classify
<1>3. ASSUME NEW e \in Effects,
             \/ DiscardOk(e) \/ DiscardFails(e) \/ RollbackOk(e)
             \/ RollbackFails(e) \/ FinalizeOk(e) \/ FinalizeFails(e)
      PROVE  PhaseInv'
  BY <1>3 DEF DiscardOk, DiscardFails, RollbackOk, RollbackFails, FinalizeOk,
              FinalizeFails
<1>4. CASE PrepareDone \/ AcceptDone \/ DiscardDone \/ RollbackClear \/ RollbackDone
               \/ SealUnlist \/ SealMark \/ SealDone
  BY <1>4 DEF PrepareDone, AcceptDone, DiscardDone, RollbackClear, RollbackDone,
       SealUnlist, SealMark, SealDone
<1>5. CASE AcceptBegin \/ RejectBegin \/ RollbackBegin \/ SealBegin
  BY <1>5 DEF AcceptBegin, RejectBegin, RollbackBegin, SealBegin
<1>6. CASE Interrupt
  BY <1>6 DEF Interrupt
<1>7. CASE UNCHANGED vars
  BY <1>7 DEF vars
<1> QED
  BY <1>1, <1>2, <1>3, <1>4, <1>5, <1>6, <1>7 DEF Next, Run, Call, AbortResolved
-----------------------------------------------------------------------------
(***************************************************************************)
(* The seal is final, whatever is interrupted.                             *)
(***************************************************************************)

\* A step from a sealed state is a release, a repeated seal() or nothing.
LEMMA SealedStep ==
  ASSUME PhaseInv, state = "sealed", [Next]_vars
  PROVE  state' = "sealed" /\ visible' = visible /\ cursors' = cursors
<1> USE DEF PhaseInv, disk
<1>2. ASSUME NEW e \in Effects,
             \/ PrepareOk(e) \/ PrepareFails(e) \/ PrepareExhausted(e)
             \/ PublishOk(e) \/ PublishFails(e) \/ UndoOk(e) \/ UndoFails(e)
             \/ ReprepareExhausted(e) \/ DiscardOk(e) \/ DiscardFails(e)
             \/ RollbackOk(e) \/ RollbackFails(e)
      PROVE  FALSE
  BY <1>2 DEF PrepareOk, PrepareFails, PrepareExhausted, PublishOk, PublishFails,
              UndoOk, UndoFails, ReprepareExhausted, DiscardOk, DiscardFails,
              RollbackOk, RollbackFails
<1>3. ASSUME NEW e \in Effects, FinalizeOk(e) \/ FinalizeFails(e)
      PROVE  state' = "sealed" /\ visible' = visible /\ cursors' = cursors
  BY <1>3 DEF FinalizeOk, FinalizeFails
<1>4. ASSUME \/ PrepareDone \/ AcceptDone \/ DiscardDone \/ RollbackClear
             \/ RollbackDone \/ SealUnlist \/ SealMark
             \/ AcceptBegin \/ RejectBegin \/ RollbackBegin
      PROVE  FALSE
  BY <1>4 DEF PrepareDone, AcceptDone, DiscardDone, RollbackClear, RollbackDone,
              SealUnlist, SealMark, AcceptBegin, RejectBegin, RollbackBegin
<1>5. CASE SealBegin \/ SealDone \/ Interrupt
  BY <1>5 DEF SealBegin, SealDone, Interrupt
<1>6. CASE UNCHANGED vars
  BY <1>6 DEF vars
<1> QED
  BY <1>2, <1>3, <1>4, <1>5, <1>6 DEF Next, Run, Call, AbortResolved

\* Once sealed, no step withdraws an artifact, a cursor or the seal, however
\* often seal() is repeated and wherever it is interrupted.
THEOREM SealIsFinal == Spec => SealedIsFinal
<1>1. PhaseInv /\ [Next]_vars
        => [state = "sealed" =>
              state' = "sealed" /\ visible' = visible /\ cursors' = cursors]_vars
  BY SealedStep
<1> QED
  BY <1>1, TypeOKInit, TypeOKNext, PhaseInit, PhaseNext, PTL DEF Spec, SealedIsFinal
-----------------------------------------------------------------------------
(***************************************************************************)
(* Completeness and compensation.  Until an interruption cuts a method     *)
(* short, every artifact and temporary is accounted for.                   *)
(***************************************************************************)

\* A loop over a list of effects has one next effect.
LEMMA FirstIsUnique ==
  ASSUME NEW S \in SUBSET Effects, NEW d \in S, NEW e \in S,
         IsFirst(d, S), IsFirst(e, S)
  PROVE  d = e
BY ConstantsAssumption DEF IsFirst, Effects

\* Nothing is published or staged when _prepare_all starts.
LEMMA AccountingInit == Init => UninterruptedAccounting
BY DEF Init, UninterruptedAccounting, Accounting, Split, Unpublished

\* A step that is not an interruption keeps every artifact accounted for.
LEMMA AccountingNext ==
  TypeOK /\ PhaseInv /\ UninterruptedAccounting /\ [Next]_vars
    => UninterruptedAccounting'
<1> SUFFICES ASSUME TypeOK, PhaseInv, UninterruptedAccounting, [Next]_vars,
                    interrupts' = 0
             PROVE  Accounting'
  BY DEF UninterruptedAccounting
<1>1. CASE Interrupt
  BY <1>1 DEF Interrupt, TypeOK
<1>2. CASE UNCHANGED vars
  BY <1>2 DEF vars, UninterruptedAccounting, Accounting, Split, Unpublished,
              Publishing, Cleaning, IsFirst
<1>3. CASE Run \/ Call
  <2>0. interrupts' = interrupts
    BY <1>3 DEF Run, Call, PrepareOk, PrepareFails, PrepareExhausted, PublishOk,
       PublishFails, UndoOk, UndoFails, ReprepareExhausted, DiscardOk,
       DiscardFails, RollbackOk, RollbackFails, FinalizeOk, FinalizeFails,
       PrepareDone, AcceptDone, DiscardDone, RollbackClear, RollbackDone,
       SealUnlist, SealMark, SealDone,
       AcceptBegin, RejectBegin, RollbackBegin, SealBegin, AbortResolved, vars
  <2> interrupts = 0 /\ Accounting
    BY <2>0 DEF UninterruptedAccounting
  <2> USE DEF TypeOK, PhaseInv, Accounting, Split, disk
  <2>1. ASSUME NEW e \in Effects, PrepareOk(e) PROVE Accounting'
    <3>1. CASE pc = "prepare"
      BY <2>1, <3>1 DEF PrepareOk, IsFirst, Unpublished
    <3>2. CASE pc = "reprepare"
      BY <2>1, <3>2 DEF PrepareOk, IsFirst, Publishing
    <3> QED BY <2>1, <3>1, <3>2 DEF PrepareOk
  <2>2. ASSUME NEW e \in Effects, PrepareFails(e) PROVE Accounting'
    BY <2>2 DEF PrepareFails, IsFirst, Unpublished, Publishing
  <2>3. ASSUME NEW e \in Effects, PrepareExhausted(e) PROVE Accounting'
    BY <2>3 DEF PrepareExhausted, IsFirst, Unpublished, Cleaning
  <2>4. ASSUME NEW e \in Effects, PublishOk(e) PROVE Accounting'
    BY <2>4 DEF PublishOk, IsFirst, Publishing
  <2>5. ASSUME NEW e \in Effects, PublishFails(e) PROVE Accounting'
    <3>1. \A d \in pending : IsFirst(d, pending) => d = e
      BY <2>5, FirstIsUnique DEF PublishFails, IsFirst
    <3>2. \A d : IsFirst(d, pending)' <=> IsFirst(d, pending)
      BY <2>5 DEF PublishFails, IsFirst
    <3> QED BY <2>5, <3>1, <3>2 DEF PublishFails, Publishing
  <2>6. ASSUME NEW e \in Effects, UndoOk(e) PROVE Accounting'
    <3>1. accepted \subseteq visible /\ visible \subseteq accepted \cup {e}
      BY <2>6 DEF UndoOk, IsFirst
    <3>2. CASE MayRetry(e)
      <4>1. \A d \in pending : IsFirst(d, pending) => d = e
        BY <2>6, FirstIsUnique DEF UndoOk, IsFirst
      <4>2. \A d : IsFirst(d, pending)' <=> IsFirst(d, pending)
        BY <2>6, <3>2 DEF UndoOk, Classify, IsFirst
      <4>3. /\ pc' = "reprepare" /\ e \in pending /\ visible' = visible \ {e}
            /\ held' = held \ {e} /\ Publishing /\ held = accepted \cup pending
            /\ UNCHANGED <<accepted, pending, prepared, skipped, cursors, finalizing, state>>
        BY <2>6, <3>2 DEF UndoOk, Classify, IsFirst
      <4>4. Publishing' /\ visible' = accepted' /\ state = "staged"
        BY <2>6, <3>1, <4>3 DEF UndoOk, Publishing
      <4>5. \A d \in pending' : IsFirst(d, pending)' => held' = (accepted' \cup pending') \ {d}
        BY <4>1, <4>2, <4>3 DEF Publishing
      <4> QED BY <4>3, <4>4, <4>5
    <3>3. CASE ~MayRetry(e) /\ action[e] = "Skip"
      BY <2>6, <3>1, <3>3 DEF UndoOk, Classify, SkippedWith, IsFirst, Publishing
    <3>4. CASE ~MayRetry(e) /\ action[e] # "Skip"
      BY <2>6, <3>1, <3>4 DEF UndoOk, Classify, SkippedWith, StillStaged, IsFirst,
                              Publishing, Cleaning
    <3> QED BY <3>2, <3>3, <3>4
  <2>7. ASSUME NEW e \in Effects, UndoFails(e) PROVE Accounting'
    <3>1. accepted \subseteq visible /\ visible \subseteq accepted \cup {e}
      BY <2>7 DEF UndoFails, IsFirst
    <3> QED
      BY <2>7, <3>1 DEF UndoFails, Classify, StillStaged, IsFirst, Publishing, Cleaning
  <2>8. ASSUME NEW e \in Effects, ReprepareExhausted(e) PROVE Accounting'
    BY <2>8 DEF ReprepareExhausted, StillStaged, IsFirst, Publishing, Cleaning
  <2>9. ASSUME NEW e \in Effects, DiscardOk(e) \/ DiscardFails(e) PROVE Accounting'
    BY <2>9 DEF DiscardOk, DiscardFails, IsLast, Unpublished, Cleaning
  <2>10. ASSUME NEW e \in Effects, RollbackOk(e) \/ RollbackFails(e) PROVE Accounting'
    BY <2>10 DEF RollbackOk, RollbackFails, IsLast, Cleaning
  <2>11. ASSUME NEW e \in Effects, FinalizeOk(e) \/ FinalizeFails(e) PROVE Accounting'
    BY <2>11 DEF FinalizeOk, FinalizeFails, IsFirst
  <2>12. CASE PrepareDone
    BY <2>12 DEF PrepareDone, Unpublished
  <2>13. CASE AcceptDone
    BY <2>13 DEF AcceptDone, Publishing
  <2>14. CASE DiscardDone
    BY <2>14 DEF DiscardDone, Cleaning, Unpublished
  <2>15. CASE RollbackDone
    BY <2>15 DEF RollbackDone, Cleaning
  <2>16. CASE SealDone
    BY <2>16 DEF SealDone
  <2>17. CASE AcceptBegin
    <3>1. /\ pc' = "publish" /\ state' = "staged" /\ pending' = prepared /\ prepared' = {}
          /\ UNCHANGED <<accepted, skipped, cursors, finalizing, visible, held>>
          /\ Split(prepared, {}, skipped) /\ Unpublished /\ held = prepared
      BY <2>17 DEF AcceptBegin
    <3>2. Publishing' /\ visible' = accepted' /\ held' = accepted' \cup pending'
      BY <3>1 DEF Unpublished, Publishing
    <3> QED BY <3>1, <3>2
  <2>18. CASE RejectBegin
    BY <2>18 DEF RejectBegin, Unpublished, Cleaning
  <2>19. CASE RollbackBegin
    BY <2>19 DEF RollbackBegin, Cleaning
  <2>20. CASE SealBegin
    BY <2>20 DEF SealBegin
  <2>21. CASE AbortResolved
    BY <2>21 DEF AbortResolved, vars
  <2>22. CASE RollbackClear
    BY <2>22 DEF RollbackClear, Cleaning
  <2>23. CASE SealUnlist \/ SealMark
    BY <2>23 DEF SealUnlist, SealMark
  <2> QED
    BY <1>3, <2>1, <2>2, <2>3, <2>4, <2>5, <2>6, <2>7, <2>8, <2>9, <2>10, <2>11,
       <2>12, <2>13, <2>14, <2>15, <2>16, <2>17, <2>18, <2>19, <2>20, <2>21,
       <2>22, <2>23 DEF Run, Call
<1> QED BY <1>1, <1>2, <1>3 DEF Next

\* Until an interruption, every artifact and temporary of the transaction is
\* accounted for by the list from which it will be handled.
THEOREM AccountingCorrect == Spec => []UninterruptedAccounting
BY TypeOKInit, TypeOKNext, PhaseInit, PhaseNext, AccountingInit, AccountingNext,
   PTL DEF Spec

\* A transaction rejected or failed without having been interrupted leaves no
\* public artifact, no temporary and no cursor except what its report names.
THEOREM CompensationIsComplete == Spec => []ResolvedLeavesNothing
<1>1. UninterruptedAccounting => ResolvedLeavesNothing
  BY DEF UninterruptedAccounting, Accounting, ResolvedLeavesNothing
<1> QED BY <1>1, AccountingCorrect, PTL

\* A transaction accepted or sealed without having been interrupted accounts
\* for every effect of its plan and owns every resource it still holds.
THEOREM AcceptanceIsComplete == Spec => []AcceptedIsComplete
<1>1. UninterruptedAccounting => AcceptedIsComplete
  BY DEF UninterruptedAccounting, Accounting, AcceptedIsComplete, Split
<1> QED BY <1>1, AccountingCorrect, PTL
-----------------------------------------------------------------------------
(***************************************************************************)
(* Release owners, whatever is interrupted.                                *)
(***************************************************************************)

\* A cursor advances only with the publication that owns the resource, the
\* owners are in _finalize_pending before _accepted is cleared, and that list
\* is replaced only when every release of it has been tried.
ReleaseInv ==
  /\ state = "accepted" /\ pc \notin {"mark", "compensate"} => cursors \subseteq accepted
  /\ pc = "compensate" => cursors \subseteq accepted \/ accepted = {}
  /\ pc \in {"unlist", "mark"} => cursors \subseteq finalizing
  /\ pc = "mark" => accepted = {}
  /\ state = "sealed" => held \cap cursors \subseteq finalizing
  /\ pc = "finalize" => held \cap cursors \subseteq todo \cup kept

\* ReleaseInv holds until an interruption arrives after _accepted.clear().
ListedRelease == ~unlisted => ReleaseInv

\* Every step, interruptions included, keeps an owner for what is held.
LEMMA ReleaseNext ==
  TypeOK /\ PhaseInv /\ ListedRelease /\ [Next]_vars => ListedRelease'
<1> SUFFICES ASSUME TypeOK, PhaseInv, ListedRelease, [Next]_vars, ~unlisted'
             PROVE  ReleaseInv'
  BY DEF ListedRelease
<1>0. ~unlisted
  BY DEF Next, Run, Call, PrepareOk, PrepareFails, PrepareExhausted, PublishOk,
     PublishFails, UndoOk, UndoFails, ReprepareExhausted, DiscardOk, DiscardFails,
     RollbackOk, RollbackFails, FinalizeOk, FinalizeFails, PrepareDone, AcceptDone,
     DiscardDone, RollbackClear, RollbackDone, SealUnlist, SealMark, SealDone,
     AcceptBegin, RejectBegin, RollbackBegin, SealBegin, AbortResolved, Interrupt, vars
<1> ReleaseInv
  BY <1>0 DEF ListedRelease
<1> USE DEF PhaseInv, ReleaseInv, disk
<1>1. ASSUME NEW e \in Effects,
             \/ PrepareOk(e) \/ PrepareFails(e) \/ PrepareExhausted(e)
             \/ PublishOk(e) \/ PublishFails(e) \/ ReprepareExhausted(e)
      PROVE  ReleaseInv'
  BY <1>1 DEF PrepareOk, PrepareFails, PrepareExhausted, PublishOk, PublishFails,
              ReprepareExhausted
<1>2. ASSUME NEW e \in Effects, UndoOk(e) \/ UndoFails(e) PROVE ReleaseInv'
  BY <1>2 DEF UndoOk, UndoFails, Classify
<1>3. ASSUME NEW e \in Effects,
             DiscardOk(e) \/ DiscardFails(e) \/ RollbackOk(e) \/ RollbackFails(e)
      PROVE  ReleaseInv'
  BY <1>3 DEF DiscardOk, DiscardFails, RollbackOk, RollbackFails
<1>4. ASSUME NEW e \in Effects, FinalizeOk(e) \/ FinalizeFails(e) PROVE ReleaseInv'
  BY <1>4 DEF FinalizeOk, FinalizeFails
<1>5. CASE PrepareDone \/ AcceptDone \/ DiscardDone \/ RollbackClear \/ RollbackDone
  BY <1>5 DEF PrepareDone, AcceptDone, DiscardDone, RollbackClear, RollbackDone
<1>6. CASE SealBegin \/ SealUnlist \/ SealMark \/ SealDone
  BY <1>6 DEF SealBegin, SealUnlist, SealMark, SealDone
<1>7. CASE AcceptBegin \/ RejectBegin \/ RollbackBegin
  BY <1>7 DEF AcceptBegin, RejectBegin, RollbackBegin
<1>9. CASE Interrupt
  <2>1. ~(state = "accepted" /\ accepted = {})
    BY <1>9 DEF Interrupt
  <2> QED BY <1>9, <2>1 DEF Interrupt
<1>8. CASE UNCHANGED vars
  BY <1>8 DEF vars
<1> QED
  BY <1>1, <1>2, <1>3, <1>4, <1>5, <1>6, <1>7, <1>8, <1>9
     DEF Next, Run, Call, AbortResolved

\* A sealed transaction keeps a release owner for everything it published and
\* still holds, however often its methods have been interrupted, as long as no
\* interruption arrived between _accepted.clear() and the assignment of _state.
THEOREM ReleaseOwnersAreKept == Spec => []ReleaseOwnersSurvive
<1>1. Init => ListedRelease
  BY DEF Init, ListedRelease, ReleaseInv
<1>2. ListedRelease => ReleaseOwnersSurvive
  BY DEF ListedRelease, ReleaseInv, ReleaseOwnersSurvive
<1> QED
  BY <1>1, <1>2, TypeOKInit, TypeOKNext, PhaseInit, PhaseNext, ReleaseNext, PTL DEF Spec
-----------------------------------------------------------------------------
(***************************************************************************)
(* Dependency order.                                                       *)
(***************************************************************************)

\* accept() has published a prefix of what it had staged, and compensation has
\* still to withdraw a prefix of that.
OrderInv ==
  /\ pc # "lost"
  /\ pc \in {"publish", "undo", "reprepare"} =>
       \A a \in accepted : \A b \in pending : a < b
  /\ pc = "undo" => \E e \in pending : IsFirst(e, pending)
  /\ pc \in {"rollback", "compensate"} =>
       /\ todo \subseteq visible
       /\ \A e \in todo : \A d \in 1 .. (e - 1) : d \in todo \cup skipped

\* OrderInv holds until an interruption loses a local list.
UninterruptedOrder == interrupts = 0 => OrderInv

\* Below a published effect everything is published or skipped.
LEMMA BelowAccepted ==
  ASSUME TypeOK, OrderInv, Publishing, pc \in {"publish", "undo", "reprepare"},
         NEW e \in accepted, NEW d \in 1 .. (e - 1)
  PROVE  d \in accepted \cup skipped
<1>1. d \in Effects /\ d < e
  BY ConstantsAssumption DEF TypeOK, Effects
<1>2. d \notin pending
  BY <1>1, ConstantsAssumption DEF OrderInv, TypeOK, Effects
<1> QED BY <1>1, <1>2 DEF Publishing, Split

\* The same of the first effect that is still pending.
LEMMA BelowPending ==
  ASSUME TypeOK, Publishing, NEW e \in pending, IsFirst(e, pending), NEW d \in 1 .. (e - 1)
  PROVE  d \in accepted \cup skipped
<1>1. d \in Effects /\ d < e
  BY ConstantsAssumption DEF TypeOK, Effects
<1>2. d \notin pending
  BY <1>1, ConstantsAssumption DEF IsFirst, TypeOK, Effects
<1> QED BY <1>1, <1>2 DEF Publishing, Split

\* Publication goes up the plan and compensation goes down.
LEMMA OrderNext ==
  TypeOK /\ PhaseInv /\ UninterruptedAccounting /\ UninterruptedOrder /\ [Next]_vars
    => UninterruptedOrder'
<1> SUFFICES ASSUME TypeOK, PhaseInv, UninterruptedAccounting, UninterruptedOrder,
                    [Next]_vars, interrupts' = 0
             PROVE  OrderInv'
  BY DEF UninterruptedOrder
<1>1. CASE Interrupt
  BY <1>1 DEF Interrupt, TypeOK
<1>2. CASE UNCHANGED vars
  BY <1>2 DEF vars, UninterruptedOrder, OrderInv, IsFirst
<1>3. CASE Run \/ Call
  <2>0. interrupts' = interrupts
    BY <1>3 DEF Run, Call, PrepareOk, PrepareFails, PrepareExhausted, PublishOk,
       PublishFails, UndoOk, UndoFails, ReprepareExhausted, DiscardOk,
       DiscardFails, RollbackOk, RollbackFails, FinalizeOk, FinalizeFails,
       PrepareDone, AcceptDone, DiscardDone, RollbackClear, RollbackDone,
       SealUnlist, SealMark, SealDone,
       AcceptBegin, RejectBegin, RollbackBegin, SealBegin, AbortResolved, vars
  <2> interrupts = 0 /\ Accounting /\ OrderInv
    BY <2>0 DEF UninterruptedAccounting, UninterruptedOrder
  <2>1. ASSUME NEW e \in Effects, PrepareOk(e) \/ PrepareFails(e) PROVE OrderInv'
    BY <2>1 DEF PrepareOk, PrepareFails, OrderInv
  <2>2. ASSUME NEW e \in Effects, PrepareExhausted(e) PROVE OrderInv'
    BY <2>2 DEF PrepareExhausted, OrderInv
  <2>3. ASSUME NEW e \in Effects, PublishOk(e) PROVE OrderInv'
    <3>1. \A b \in pending \ {e} : e < b
      BY <2>3, ConstantsAssumption DEF PublishOk, IsFirst, TypeOK, Effects
    <3> QED BY <2>3, <3>1 DEF PublishOk, OrderInv
  <2>4. ASSUME NEW e \in Effects, PublishFails(e) PROVE OrderInv'
    BY <2>4 DEF PublishFails, OrderInv, IsFirst
  <2>5. ASSUME NEW e \in Effects, UndoOk(e) \/ UndoFails(e) PROVE OrderInv'
    <3>1. /\ pc = "undo" /\ Publishing /\ IsFirst(e, pending) /\ e \in pending
          /\ accepted \subseteq visible
      BY <2>5 DEF UndoOk, UndoFails, Accounting, IsFirst
    <3>2. accepted' = accepted /\ accepted \subseteq visible'
      BY <2>5, <3>1 DEF UndoOk, UndoFails, Publishing, Split
    <3>3. CASE pc' = "reprepare" /\ pending' = pending
      BY <3>1, <3>2, <3>3 DEF OrderInv
    <3>4. CASE pc' = "publish" /\ pending' = pending \ {e}
      BY <3>1, <3>2, <3>4 DEF OrderInv
    <3>5. CASE pc' = "rollback" /\ todo' = accepted /\ skipped \subseteq skipped'
      BY <3>1, <3>2, <3>5, BelowAccepted DEF OrderInv
    <3> QED BY <2>5, <3>3, <3>4, <3>5 DEF UndoOk, UndoFails, Classify, SkippedWith
  <2>6. ASSUME NEW e \in Effects, ReprepareExhausted(e) PROVE OrderInv'
    <3>1. Publishing /\ visible = accepted /\ pc = "reprepare"
      BY <2>6 DEF ReprepareExhausted, Accounting
    <3>2. /\ pc' = "rollback" /\ todo' = accepted
          /\ UNCHANGED <<visible, skipped>>
      BY <2>6 DEF ReprepareExhausted, disk
    <3> QED BY <3>1, <3>2, BelowAccepted DEF OrderInv
  <2>7. ASSUME NEW e \in Effects, DiscardOk(e) \/ DiscardFails(e) PROVE OrderInv'
    BY <2>7 DEF DiscardOk, DiscardFails, OrderInv
  <2>8. ASSUME NEW e \in Effects, RollbackOk(e) \/ RollbackFails(e) PROVE OrderInv'
    <3>1. /\ pc \in {"rollback", "compensate"} /\ todo' = todo \ {e}
          /\ skipped' = skipped /\ visible \ {e} \subseteq visible' /\ IsLast(e, todo)
          /\ pc' = pc
      BY <2>8 DEF RollbackOk, RollbackFails
    <3>2. \A a \in todo' : e \notin 1 .. (a - 1)
      BY <3>1, ConstantsAssumption DEF IsLast, TypeOK, Effects
    <3> QED BY <3>1, <3>2 DEF OrderInv
  <2>9. ASSUME NEW e \in Effects, FinalizeOk(e) \/ FinalizeFails(e) PROVE OrderInv'
    BY <2>9 DEF FinalizeOk, FinalizeFails, OrderInv
  <2>10. CASE PrepareDone \/ AcceptDone \/ DiscardDone \/ RollbackClear \/ RollbackDone
               \/ SealUnlist \/ SealMark \/ SealDone
    BY <2>10 DEF PrepareDone, AcceptDone, DiscardDone, RollbackClear, RollbackDone,
       SealUnlist, SealMark, SealDone, OrderInv
  <2>11. CASE AcceptBegin
    BY <2>11 DEF AcceptBegin, OrderInv, Accounting, Unpublished
  <2>12. CASE RollbackBegin
    <3>1. /\ todo' = accepted /\ visible' = accepted /\ skipped' = skipped
          /\ accepted \cup skipped = Effects /\ pc' = "compensate"
      BY <2>12 DEF RollbackBegin, Accounting, Split, disk
    <3>2. \A e \in accepted : \A d \in 1 .. (e - 1) : d \in Effects
      BY ConstantsAssumption DEF TypeOK, Effects
    <3> QED BY <3>1, <3>2 DEF OrderInv
  <2>13. CASE RejectBegin \/ SealBegin
    BY <2>13 DEF RejectBegin, SealBegin, OrderInv
  <2>14. CASE AbortResolved
    BY <2>14 DEF AbortResolved, vars, OrderInv
  <2> QED
    BY <1>3, <2>1, <2>2, <2>3, <2>4, <2>5, <2>6, <2>7, <2>8, <2>9, <2>10, <2>11,
       <2>12, <2>13, <2>14 DEF Run, Call
<1> QED BY <1>1, <1>2, <1>3 DEF Next

\* What every accounted state says about the artifacts below a public one.
LEMMA OrderImplies ==
  TypeOK /\ PhaseInv /\ UninterruptedAccounting /\ UninterruptedOrder => DependencyClosed
<1> SUFFICES ASSUME TypeOK, PhaseInv, Accounting, OrderInv,
                    NEW e \in visible \ dirty, NEW d \in 1 .. (e - 1)
             PROVE  d \in visible \cup skipped
  BY DEF DependencyClosed, UninterruptedAccounting, UninterruptedOrder
<1>0. d \in Effects
  BY ConstantsAssumption DEF TypeOK, Effects
<1>1. CASE pc \in {"publish", "reprepare"}
  BY <1>1, BelowAccepted DEF Accounting
<1>2. CASE pc = "undo"
  <2>1. PICK f \in pending : IsFirst(f, pending)
    BY <1>2 DEF OrderInv
  <2>2. /\ Publishing /\ accepted \subseteq visible /\ visible \subseteq accepted \cup {f}
    BY <1>2, <2>1 DEF Accounting
  <2> QED BY <1>2, <2>1, <2>2, BelowAccepted, BelowPending
<1>3. CASE pc \in {"rollback", "compensate"}
  BY <1>3 DEF Accounting, Cleaning, OrderInv
<1>4. CASE pc \in {"prepare", "reject"}
  BY <1>4 DEF Accounting, Unpublished
<1>5. CASE pc = "fail"
  BY <1>5 DEF Accounting
<1>6. CASE pc \in {"unlist", "mark", "finalize"} \/ (pc = "idle" /\ state = "sealed")
  BY <1>0, <1>6 DEF Accounting, Split, PhaseInv
<1>7. CASE pc = "idle" /\ state # "sealed"
  <2>1. state \in {"staged", "accepted", "rejected", "failed"}
    BY <1>7 DEF PhaseInv, TypeOK, States
  <2> QED BY <1>0, <1>7, <2>1 DEF Accounting, Split, Unpublished
<1>8. pc # "lost"
  BY DEF OrderInv
<1> QED BY <1>1, <1>2, <1>3, <1>4, <1>5, <1>6, <1>7, <1>8 DEF TypeOK, Methods

\* At every moment of an uninterrupted transaction, whatever a public artifact
\* may depend on is public or reported skipped, for plans of any length.
THEOREM DependenciesStayClosed == Spec => []DependencyClosed
<1>1. Init => UninterruptedOrder
  BY DEF Init, UninterruptedOrder, OrderInv
<1> QED
  BY <1>1, TypeOKInit, TypeOKNext, PhaseInit, PhaseNext, AccountingInit, AccountingNext,
     OrderNext, OrderImplies, PTL DEF Spec
-----------------------------------------------------------------------------
(***************************************************************************)
(* The transaction implements its contract.                                *)
(***************************************************************************)

\* What the outcomes of the contract rest on beyond Accounting: the constructor
\* and compensation publish nothing, a sealed transaction holds only what it
\* published, and every quarantine but that of a failing publication has its
\* authority retained or is named by the diagnostics of a failing method.
OutcomeInv ==
  /\ pc \in {"prepare", "publish", "undo", "reprepare"} => dirty = {}
  /\ pc = "idle" /\ state = "staged" => dirty = {}
  /\ state = "accepted" /\ pc # "compensate" => dirty = {}
  /\ state = "sealed" => dirty = {}
  /\ state = "preparing" => visible = {}
  /\ pc = "compensate" => visible \subseteq cursors
  /\ state = "sealed" => held \subseteq cursors
  /\ pc # "undo" => quarantined \subseteq recoveries \cup dirty
  /\ pc = "undo" => \A e \in pending :
                      IsFirst(e, pending) => quarantined \subseteq recoveries \cup {e}

\* OutcomeInv holds until an interruption loses a local list.
UninterruptedOutcome == interrupts = 0 => OutcomeInv

\* Every step that is not an interruption keeps the outcomes explained.
LEMMA OutcomeNext ==
  TypeOK /\ PhaseInv /\ UninterruptedAccounting /\ UninterruptedOutcome /\ [Next]_vars
    => UninterruptedOutcome'
<1> SUFFICES ASSUME TypeOK, PhaseInv, UninterruptedAccounting, UninterruptedOutcome,
                    [Next]_vars, interrupts' = 0
             PROVE  OutcomeInv'
  BY DEF UninterruptedOutcome
<1>1. CASE Interrupt
  BY <1>1 DEF Interrupt, TypeOK
<1>2. CASE UNCHANGED vars
  BY <1>2 DEF vars, UninterruptedOutcome, OutcomeInv, IsFirst
<1>3. CASE Run \/ Call
  <2>0. interrupts' = interrupts
    BY <1>3 DEF Run, Call, PrepareOk, PrepareFails, PrepareExhausted, PublishOk,
       PublishFails, UndoOk, UndoFails, ReprepareExhausted, DiscardOk,
       DiscardFails, RollbackOk, RollbackFails, FinalizeOk, FinalizeFails,
       PrepareDone, AcceptDone, DiscardDone, RollbackClear, RollbackDone,
       SealUnlist, SealMark, SealDone,
       AcceptBegin, RejectBegin, RollbackBegin, SealBegin, AbortResolved, vars
  <2> interrupts = 0 /\ Accounting /\ OutcomeInv
    BY <2>0 DEF UninterruptedAccounting, UninterruptedOutcome
  <2> USE DEF PhaseInv, OutcomeInv, disk
  <2>1. ASSUME NEW e \in Effects,
               PrepareOk(e) \/ PrepareFails(e) \/ PrepareExhausted(e) \/ ReprepareExhausted(e)
        PROVE  OutcomeInv'
    BY <2>1 DEF PrepareOk, PrepareFails, PrepareExhausted, ReprepareExhausted
  <2>2. ASSUME NEW e \in Effects, PublishOk(e) PROVE OutcomeInv'
    BY <2>2 DEF PublishOk
  <2>3. ASSUME NEW e \in Effects, PublishFails(e) PROVE OutcomeInv'
    <3>1. \A d \in pending : IsFirst(d, pending) => d = e
      BY <2>3, FirstIsUnique DEF PublishFails, IsFirst, TypeOK
    <3>2. \A d : IsFirst(d, pending)' <=> IsFirst(d, pending)
      BY <2>3 DEF PublishFails, IsFirst
    <3> QED BY <2>3, <3>1, <3>2 DEF PublishFails
  <2>4. ASSUME NEW e \in Effects, UndoOk(e) \/ UndoFails(e) PROVE OutcomeInv'
    <3>1. quarantined \subseteq recoveries \cup {e}
      BY <2>4 DEF UndoOk, UndoFails, IsFirst
    <3>2. /\ quarantined' \subseteq recoveries' \cup dirty'
          /\ pc' \in {"reprepare", "publish"} => dirty' = {}
      BY <2>4, <3>1 DEF UndoOk, UndoFails, Classify, Retain, MayRetain
    <3>3. pc' \in {"reprepare", "publish", "rollback"} /\ state' = "staged"
      BY <2>4 DEF UndoOk, UndoFails, Classify
    <3> QED BY <3>2, <3>3
  <2>5. ASSUME NEW e \in Effects, DiscardOk(e) \/ DiscardFails(e) PROVE OutcomeInv'
    BY <2>5 DEF DiscardOk, DiscardFails, Retain, MayRetain
  <2>6. ASSUME NEW e \in Effects, RollbackOk(e) \/ RollbackFails(e) PROVE OutcomeInv'
    BY <2>6 DEF RollbackOk, RollbackFails, Retain, MayRetain
  <2>7. ASSUME NEW e \in Effects, FinalizeOk(e) \/ FinalizeFails(e) PROVE OutcomeInv'
    BY <2>7 DEF FinalizeOk, FinalizeFails, Retain, MayRetain
  <2>8. CASE PrepareDone \/ AcceptDone \/ DiscardDone \/ RollbackClear \/ RollbackDone
               \/ SealUnlist \/ SealDone
    BY <2>8 DEF PrepareDone, AcceptDone, DiscardDone, RollbackClear, RollbackDone,
                SealUnlist, SealDone
  <2>12. CASE SealMark
    <3>1. held = cursors
      BY <2>12 DEF SealMark, Accounting
    <3> QED BY <2>12, <3>1 DEF SealMark
  <2>9. CASE AcceptBegin \/ RejectBegin
    BY <2>9 DEF AcceptBegin, RejectBegin
  <2>10. CASE RollbackBegin \/ SealBegin
    BY <2>10 DEF RollbackBegin, SealBegin, Accounting
  <2>11. CASE AbortResolved
    BY <2>11 DEF AbortResolved, vars, IsFirst
  <2> QED
    BY <1>3, <2>1, <2>2, <2>3, <2>4, <2>5, <2>6, <2>7, <2>8, <2>9, <2>10, <2>11,
       <2>12 DEF Run, Call
<1> QED BY <1>1, <1>2, <1>3 DEF Next

\* What a caller sees does not change inside the constructor or accept().
LEMMA InsideMethod ==
  ASSUME state' = state, state \in {"preparing", "staged", "rejected"},
         recoveries' = recoveries
  PROVE  Outcome' = Outcome
BY DEF Outcome

\* The fields of what a caller sees.
LEMMA SeenFields ==
  ASSUME NEW s, NEW p, NEW u, NEW l, NEW r
  PROVE  /\ Contract!Seen(s, p, u, l, r).state = s
         /\ Contract!Seen(s, p, u, l, r).public = p
         /\ Contract!Seen(s, p, u, l, r).unremoved = u
         /\ Contract!Seen(s, p, u, l, r).unreleased = l
         /\ Contract!Seen(s, p, u, l, r).recovered = r
BY DEF Contract!Seen

\* A failure may have any residue, with the authorities retained so far.
LEMMA MayFail ==
  ASSUME NEW t, NEW l, NEW r, t.unreleased = l, t.recovered = r
  PROVE  \A p \in BOOLEAN, u \in BOOLEAN :
           Contract!Seen("failed", p, u, l, r) \in Contract!Failures(t)
<1>1. r \in Contract!Recovering(t)
  BY DEF Contract!Recovering
<1> QED BY <1>1 DEF Contract!Failures

\* The constructor may stage everything, or fail with or without a residue.
LEMMA MayConstruct ==
  ASSUME NEW t, NEW f, NEW r, t = Contract!Seen("preparing", f, f, f, r)
  PROVE  /\ Contract!Seen("staged", f, f, f, r) \in Contract!ConstructOutcomes(t)
         /\ \A u \in BOOLEAN :
              Contract!Seen("failed", FALSE, u, f, r) \in Contract!ConstructOutcomes(t)
<1>1. t.public = f /\ t.unreleased = f /\ t.recovered = r /\ t.unremoved = f
  BY SeenFields
<1>2. ASSUME NEW u \in BOOLEAN
      PROVE  Contract!Seen("failed", FALSE, u, f, r) \in Contract!ConstructOutcomes(t)
  <2>1. Contract!Seen("failed", FALSE, u, f, r) \in Contract!Failures(t)
    BY <1>1, MayFail
  <2>2. ~Contract!Seen("failed", FALSE, u, f, r).public
    BY DEF Contract!Seen
  <2> QED BY <2>1, <2>2 DEF Contract!ConstructOutcomes
<1>3. Contract!Seen("staged", f, f, f, r) \in Contract!ConstructOutcomes(t)
  BY <1>1 DEF Contract!ConstructOutcomes
<1> QED BY <1>2, <1>3

\* accept() may publish, or fail and name what it could not remove.
LEMMA MayAccept ==
  ASSUME NEW t, NEW f, NEW r, t = Contract!Seen("staged", f, f, f, r)
  PROVE  /\ \A p \in BOOLEAN :
              Contract!Seen("accepted", p, f, f, r) \in Contract!AcceptOutcomes(t)
         /\ \A p \in BOOLEAN, u \in BOOLEAN : (p => u) =>
              Contract!Seen("failed", p, u, f, r) \in Contract!AcceptOutcomes(t)
<1>1. t.unreleased = f /\ t.recovered = r /\ t.unremoved = f
  BY SeenFields
<1>2. r \in Contract!Recovering(t)
  BY <1>1 DEF Contract!Recovering
<1>3. ASSUME NEW p \in BOOLEAN
      PROVE  Contract!Seen("accepted", p, f, f, r) \in Contract!AcceptOutcomes(t)
  BY <1>1, <1>2 DEF Contract!AcceptOutcomes
<1>4. ASSUME NEW p \in BOOLEAN, NEW u \in BOOLEAN, p => u
      PROVE  Contract!Seen("failed", p, u, f, r) \in Contract!AcceptOutcomes(t)
  <2>1. Contract!Seen("failed", p, u, f, r) \in Contract!Failures(t)
    BY <1>1, MayFail
  <2>2. /\ Contract!Seen("failed", p, u, f, r).public = p
        /\ Contract!Seen("failed", p, u, f, r).unremoved = u
    BY SeenFields
  <2> QED BY <1>4, <2>1, <2>2 DEF Contract!AcceptOutcomes
<1> QED BY <1>3, <1>4

\* abort() may withdraw everything, or fail and name what it could not remove.
LEMMA MayAbort ==
  ASSUME NEW t, NEW f, NEW r, NEW p \in BOOLEAN, NEW s \in {"staged", "accepted"},
         t = Contract!Seen(s, p, f, f, r)
  PROVE  /\ Contract!Seen("rejected", FALSE, f, f, r) \in Contract!AbortOutcomes(t)
         /\ \A q \in BOOLEAN : (q => p) =>
              Contract!Seen("failed", q, TRUE, f, r) \in Contract!AbortOutcomes(t)
<1>1. /\ t.state = s /\ t.public = p
      /\ t.unreleased = f /\ t.recovered = r /\ t.unremoved = f
  BY SeenFields
<1>2. ASSUME NEW q \in BOOLEAN, q => p
      PROVE  Contract!Seen("failed", q, TRUE, f, r) \in Contract!AbortOutcomes(t)
  <2>1. Contract!Seen("failed", q, TRUE, f, r) \in Contract!Failures(t)
    BY <1>1, MayFail
  <2>2. /\ Contract!Seen("failed", q, TRUE, f, r).public = q
        /\ Contract!Seen("failed", q, TRUE, f, r).unremoved
    BY DEF Contract!Seen
  <2> QED BY <1>1, <1>2, <2>1, <2>2 DEF Contract!AbortOutcomes
<1>3. Contract!Seen("rejected", FALSE, f, f, r) \in Contract!AbortOutcomes(t)
  BY <1>1 DEF Contract!AbortOutcomes
<1> QED BY <1>2, <1>3

\* seal() may release everything, or keep releases of what is public.
LEMMA MaySeal ==
  ASSUME NEW t, NEW f, NEW r, NEW p, NEW s, NEW l, t = Contract!Seen(s, p, f, l, r)
  PROVE  \A u \in {FALSE, p} :
           Contract!Seen("sealed", p, f, u, r) \in Contract!SealOutcomes(t)
<1>1. t.public = p /\ t.recovered = r /\ t.unremoved = f
  BY SeenFields
<1> QED BY <1>1 DEF Contract!SealOutcomes

\* A method that takes over its first quarantine authority shows it at once.
LEMMA RetainStep ==
  ASSUME state' = state, state \in {"preparing", "staged", "accepted"},
         cursors' = cursors, recoveries \subseteq recoveries'
  PROVE  Outcome' = Outcome \/ Contract!Next
<1>1. CASE recoveries' = {} <=> recoveries = {}
  BY <1>1 DEF Outcome
<1>2. CASE recoveries' # {} /\ recoveries = {}
  <2>1. /\ Outcome.state = state
        /\ Outcome' = Contract!Seen(Outcome.state, Outcome.public, Outcome.unremoved,
                                    Outcome.unreleased, TRUE)
    BY <1>2 DEF Outcome, Contract!Seen
  <2>2. Contract!Retain
    BY <2>1 DEF Contract!Retain
  <2> QED BY <2>2 DEF Contract!Next
<1> QED BY <1>1, <1>2

\* The constructor returns.
LEMMA PrepareDoneStep ==
  ASSUME PhaseInv, PrepareDone
  PROVE  Contract!Next
<1>1. Outcome = Contract!Seen("preparing", FALSE, FALSE, FALSE, recoveries # {})
  BY DEF PrepareDone, PhaseInv, Outcome, Contract!Seen
<1>2. Outcome' = Contract!Seen("staged", FALSE, FALSE, FALSE, recoveries # {})
  BY DEF PrepareDone, Outcome, Contract!Seen
<1>3. Outcome' \in Contract!ConstructOutcomes(Outcome)
  BY <1>1, <1>2, MayConstruct
<1>4. Outcome.state = "preparing"
  BY DEF PrepareDone, PhaseInv, Outcome
<1> QED BY <1>3, <1>4 DEF Contract!Next, Contract!Construct

\* accept() returns.
LEMMA AcceptDoneStep ==
  ASSUME PhaseInv, AcceptDone
  PROVE  Contract!Next
<1>1. Outcome = Contract!Seen("staged", FALSE, FALSE, FALSE, recoveries # {})
  BY DEF AcceptDone, PhaseInv, Outcome, Contract!Seen
<1>2. Outcome' = Contract!Seen("accepted", cursors' # {}, FALSE, FALSE, recoveries # {})
  BY DEF AcceptDone, Outcome, Contract!Seen
<1>3. Outcome' \in Contract!AcceptOutcomes(Outcome)
  BY <1>1, <1>2, MayAccept
<1>4. Outcome.state = "staged"
  BY DEF AcceptDone, PhaseInv, Outcome
<1> QED BY <1>3, <1>4 DEF Contract!Next, Contract!Accept

\* The constructor or accept() has failed, or reject() returns.
LEMMA DiscardDoneStep ==
  ASSUME TypeOK, PhaseInv, Accounting, OutcomeInv, DiscardDone
  PROVE  Contract!Next
<1>0. recoveries' = recoveries /\ visible' = visible /\ dirty' = dirty
  BY DEF DiscardDone, disk
<1>1. CASE pc = "reject"
  <2>1. Outcome = Contract!Seen("staged", FALSE, FALSE, FALSE, recoveries # {})
    BY <1>1 DEF PhaseInv, Outcome, Contract!Seen
  <2>2. CASE dirty = {}
    <3>1. Outcome' = Contract!Seen("rejected", FALSE, FALSE, FALSE, recoveries # {})
      BY <1>0, <1>1, <2>2 DEF DiscardDone, Outcome, Contract!Seen
    <3> QED BY <2>1, <3>1, MayAbort DEF Contract!Next, Contract!Abort
  <2>3. CASE dirty # {}
    <3>1. visible = {} /\ state' = "failed"
      BY <1>1, <2>3 DEF DiscardDone, Accounting, Unpublished
    <3>2. Outcome' = Contract!Seen("failed", FALSE, TRUE, FALSE, recoveries # {})
      BY <1>0, <2>3, <3>1 DEF Outcome, Contract!Seen
    <3> QED BY <2>1, <3>2, MayAbort DEF Contract!Next, Contract!Abort
  <2> QED BY <2>2, <2>3
<1>2. CASE pc = "fail" /\ state = "preparing"
  <2>1. Outcome = Contract!Seen("preparing", FALSE, FALSE, FALSE, recoveries # {})
    BY <1>2 DEF Outcome, Contract!Seen
  <2>2. visible = {} /\ state' = "failed"
    BY <1>2 DEF DiscardDone, OutcomeInv
  <2>3. Outcome' = Contract!Seen("failed", FALSE, dirty # {}, FALSE, recoveries # {})
    BY <1>0, <2>2 DEF Outcome, Contract!Seen
  <2>4. Outcome' \in Contract!ConstructOutcomes(Outcome)
    BY <2>1, <2>3, MayConstruct
  <2>5. Outcome.state = "preparing"
    BY <1>2 DEF Outcome
  <2> QED BY <2>4, <2>5 DEF Contract!Next, Contract!Construct
<1>3. CASE pc = "fail" /\ state = "staged"
  <2>1. Outcome = Contract!Seen("staged", FALSE, FALSE, FALSE, recoveries # {})
    BY <1>3 DEF Outcome, Contract!Seen
  <2>2. visible \subseteq dirty /\ state' = "failed"
    BY <1>3 DEF DiscardDone, Accounting
  <2>3. ASSUME visible = {} PROVE Outcome' \in Contract!AcceptOutcomes(Outcome)
    <3>1. Outcome' = Contract!Seen("failed", FALSE, dirty # {}, FALSE, recoveries # {})
      BY <1>0, <2>2, <2>3 DEF Outcome, Contract!Seen
    <3> QED BY <2>1, <3>1, MayAccept
  <2>4. ASSUME visible # {} PROVE Outcome' \in Contract!AcceptOutcomes(Outcome)
    <3>1. dirty # {}
      BY <2>2, <2>4
    <3>2. Outcome' = Contract!Seen("failed", TRUE, TRUE, FALSE, recoveries # {})
      BY <1>0, <2>2, <2>4, <3>1 DEF Outcome, Contract!Seen
    <3> QED BY <2>1, <3>2, MayAccept
  <2>5. Outcome' \in Contract!AcceptOutcomes(Outcome)
    BY <2>3, <2>4
  <2>6. Outcome.state = "staged"
    BY <1>3 DEF Outcome
  <2> QED BY <2>5, <2>6 DEF Contract!Next, Contract!Accept
<1> QED BY <1>1, <1>2, <1>3 DEF DiscardDone, PhaseInv

\* rollback_accepted() returns, or a failing accept() goes on.
LEMMA RollbackDoneStep ==
  ASSUME TypeOK, PhaseInv, Accounting, OutcomeInv, RollbackDone
  PROVE  Outcome' = Outcome \/ Contract!Next
<1>0. recoveries' = recoveries /\ visible' = visible /\ dirty' = dirty
  BY DEF RollbackDone, disk
<1>1. CASE pc = "rollback"
  BY <1>0, <1>1, InsideMethod DEF RollbackDone, PhaseInv
<1>2. CASE pc = "compensate"
  <2>1. Outcome = Contract!Seen("accepted", cursors # {}, FALSE, FALSE, recoveries # {})
    BY <1>2 DEF PhaseInv, Outcome, Contract!Seen
  <2>2. CASE dirty = {}
    <3>1. Outcome' = Contract!Seen("rejected", FALSE, FALSE, FALSE, recoveries # {})
      BY <1>0, <1>2, <2>2 DEF RollbackDone, Outcome, Contract!Seen
    <3> QED BY <2>1, <3>1, MayAbort DEF Contract!Next, Contract!Abort
  <2>3. CASE dirty # {}
    <3>1. visible \subseteq cursors /\ state' = "failed"
      BY <1>2, <2>3 DEF RollbackDone, OutcomeInv
    <3>2. Outcome' = Contract!Seen("failed", visible # {}, TRUE, FALSE, recoveries # {})
      BY <1>0, <2>3, <3>1 DEF Outcome, Contract!Seen
    <3>3. visible # {} => cursors # {}
      BY <3>1
    <3> QED BY <2>1, <3>2, <3>3, MayAbort DEF Contract!Next, Contract!Abort
  <2> QED BY <2>2, <2>3
<1> QED BY <1>1, <1>2 DEF RollbackDone

\* The seal takes effect: from here on the releases are owed.
LEMMA SealMarkStep ==
  ASSUME TypeOK, PhaseInv, Accounting, OutcomeInv, SealMark
  PROVE  Contract!Next
<1>0. recoveries' = recoveries /\ cursors' = cursors /\ state = "accepted"
  BY DEF SealMark, disk, PhaseInv
<1>1. Outcome = Contract!Seen("accepted", cursors # {}, FALSE, FALSE, recoveries # {})
  BY <1>0 DEF Outcome, Contract!Seen
<1>2. finalizing' = cursors /\ state' = "sealed"
  BY DEF SealMark, Accounting
<1>3. Outcome' = Contract!Seen("sealed", cursors # {}, FALSE, cursors # {}, recoveries # {})
  BY <1>0, <1>2 DEF Outcome, Contract!Seen
<1>4. Outcome' \in Contract!SealOutcomes(Outcome)
  BY <1>1, <1>3, MaySeal
<1>5. Outcome.state = "accepted"
  BY <1>0 DEF Outcome
<1> QED BY <1>4, <1>5 DEF Contract!Next, Contract!Seal

\* seal() returns with the releases that failed.
LEMMA SealDoneStep ==
  ASSUME TypeOK, PhaseInv, Accounting, OutcomeInv, SealDone
  PROVE  Contract!Next
<1>0. recoveries' = recoveries /\ cursors' = cursors /\ state = "sealed" /\ state' = "sealed"
  BY DEF SealDone, disk, PhaseInv
<1>1. Outcome = Contract!Seen("sealed", cursors # {}, FALSE, finalizing # {}, recoveries # {})
  BY <1>0 DEF Outcome, Contract!Seen
<1>2. kept \subseteq cursors /\ finalizing' = kept
  BY <1>0 DEF SealDone, Accounting, OutcomeInv
<1>3. CASE kept = {}
  <2>1. Outcome' = Contract!Seen("sealed", cursors # {}, FALSE, FALSE, recoveries # {})
    BY <1>0, <1>2, <1>3 DEF Outcome, Contract!Seen
  <2>2. Outcome' \in Contract!SealOutcomes(Outcome)
    BY <1>1, <2>1, MaySeal
  <2>3. Outcome.state = "sealed"
    BY <1>0 DEF Outcome
  <2> QED BY <2>2, <2>3 DEF Contract!Next, Contract!Seal
<1>4. CASE kept # {}
  <2>1. cursors # {}
    BY <1>2, <1>4
  <2>2. Outcome' = Contract!Seen("sealed", cursors # {}, FALSE, cursors # {}, recoveries # {})
    BY <1>0, <1>2, <1>4, <2>1 DEF Outcome, Contract!Seen
  <2>3. Outcome' \in Contract!SealOutcomes(Outcome)
    BY <1>1, <2>2, MaySeal
  <2>4. Outcome.state = "sealed"
    BY <1>0 DEF Outcome
  <2> QED BY <2>3, <2>4 DEF Contract!Next, Contract!Seal
<1> QED BY <1>3, <1>4

\* Every step of an uninterrupted transaction is a step of the contract or is
\* invisible to the caller.
LEMMA ContractStep ==
  ASSUME TypeOK, PhaseInv, Accounting, OutcomeInv, interrupts = 0, interrupts' = 0,
         [Next]_vars
  PROVE  Outcome' = Outcome \/ Contract!Next
<1> USE DEF PhaseInv, disk
<1>1. ASSUME NEW e \in Effects,
             PrepareOk(e) \/ PrepareFails(e) \/ PrepareExhausted(e)
      PROVE  Outcome' = Outcome
  BY <1>1, InsideMethod DEF PrepareOk, PrepareFails, PrepareExhausted
<1>2. ASSUME NEW e \in Effects,
             PublishOk(e) \/ PublishFails(e) \/ ReprepareExhausted(e)
      PROVE  Outcome' = Outcome
  BY <1>2, InsideMethod DEF PublishOk, PublishFails, ReprepareExhausted
<1>3. ASSUME NEW e \in Effects, UndoOk(e) \/ UndoFails(e)
      PROVE  Outcome' = Outcome \/ Contract!Next
  BY <1>3, RetainStep DEF UndoOk, UndoFails, Retain, MayRetain
<1>4. ASSUME NEW e \in Effects, DiscardOk(e) \/ DiscardFails(e)
      PROVE  Outcome' = Outcome \/ Contract!Next
  BY <1>4, RetainStep DEF DiscardOk, DiscardFails, Retain, MayRetain
<1>5. ASSUME NEW e \in Effects, RollbackOk(e) \/ RollbackFails(e)
      PROVE  Outcome' = Outcome \/ Contract!Next
  BY <1>5, RetainStep DEF RollbackOk, RollbackFails, Retain, MayRetain
<1>6. ASSUME NEW e \in Effects, FinalizeOk(e) \/ FinalizeFails(e)
      PROVE  Outcome' = Outcome
  <2>1. recoveries' = recoveries
    BY <1>6 DEF FinalizeOk, FinalizeFails, Retain, MayRetain, OutcomeInv
  <2>2. state = "sealed" /\ state' = "sealed" /\ cursors' = cursors /\ finalizing' = finalizing
    BY <1>6 DEF FinalizeOk, FinalizeFails
  <2> QED BY <2>1, <2>2 DEF Outcome
<1>7. CASE AcceptBegin \/ RejectBegin
  BY <1>7, InsideMethod DEF AcceptBegin, RejectBegin
<1>8. CASE RollbackBegin \/ RollbackClear \/ SealBegin \/ SealUnlist
  BY <1>8 DEF RollbackBegin, RollbackClear, SealBegin, SealUnlist, Outcome
<1>9. CASE UNCHANGED vars
  BY <1>9 DEF vars, Outcome
<1>10. ~Interrupt
  BY DEF Interrupt, TypeOK
<1> QED
  BY <1>1, <1>2, <1>3, <1>4, <1>5, <1>6, <1>7, <1>8, <1>9, <1>10, PrepareDoneStep,
     AcceptDoneStep, DiscardDoneStep, RollbackDoneStep, SealMarkStep, SealDoneStep
     DEF Next, Run, Call, AbortResolved

\* No step takes an interruption back.
LEMMA InterruptsGrow ==
  ASSUME TypeOK, [Next]_vars, interrupts' = 0
  PROVE  interrupts = 0
<1>1. CASE Interrupt
  BY <1>1 DEF Interrupt, TypeOK
<1>2. interrupts' = interrupts \/ Interrupt
  BY DEF Next, Run, Call, PrepareOk, PrepareFails, PrepareExhausted, PublishOk,
     PublishFails, UndoOk, UndoFails, ReprepareExhausted, DiscardOk, DiscardFails,
     RollbackOk, RollbackFails, FinalizeOk, FinalizeFails, PrepareDone, AcceptDone,
     DiscardDone, RollbackClear, RollbackDone,
       SealUnlist, SealMark, SealDone, AcceptBegin, RejectBegin, RollbackBegin,
     SealBegin, AbortResolved, vars
<1> QED BY <1>1, <1>2

\* For plans of any length: seen from its caller, every method of an
\* uninterrupted transaction is one atomic step with an outcome that
\* PublicationContract allows.
THEOREM TransactionImplementsContract == Spec => ImplementsContract
<1> DEFINE Inv == TypeOK /\ PhaseInv /\ UninterruptedAccounting /\ UninterruptedOutcome
<1>1. Init => Inv
  <2>1. Init => UninterruptedOutcome
    BY DEF Init, UninterruptedOutcome, OutcomeInv
  <2> QED BY <2>1, TypeOKInit, PhaseInit, AccountingInit
<1>2. Inv /\ [Next]_vars => Inv'
  BY TypeOKNext, PhaseNext, AccountingNext, OutcomeNext
<1>3. Init => Contract!Init
  BY DEF Init, Outcome, Contract!Init, Contract!Blank, Contract!Seen
<1>4. Inv /\ [Next]_vars => [interrupts' = 0 => Contract!Next]_Outcome
  BY ContractStep, InterruptsGrow DEF UninterruptedAccounting, UninterruptedOutcome
<1> HIDE DEF Inv
<1> QED BY <1>1, <1>2, <1>3, <1>4, PTL DEF Spec, ImplementsContract
=============================================================================
