------------------------ MODULE CollectiveStepProofs ------------------------
(***************************************************************************)
(* Proofs about CollectiveStep for any number of ranks, any sequence of    *)
(* native phases, any rejections and any number of rank-local failures.    *)
(***************************************************************************)
EXTENDS CollectiveStep, FiniteSetTheorems, TLAPS

\* The shape of the state.
Outcomes == {Ok, Fail} \cup {Reject(p) : p \in Payloads}

Types ==
  /\ pc \in [Ranks -> {"idle", "control", "snapshot", "snapped", "enter", "operate", "errors",
                       "rejects", "decode", "decoded", "status", "unwind", "return",
                       "attempt", "stage", "staged", "publish", "published",
                       "finalize", "restore", "leave"}]
  /\ op \in [Ranks -> {None, "begin", "commit", "finalize", "rollback"}]
  /\ phase \in [Ranks -> Nat \ {0}]
  /\ out \in [Ranks -> Outcomes] /\ said \in [Ranks -> Outcomes]
  /\ val \in [Ranks -> Nat \cup {Work, Torn}] /\ txn \in [Ranks -> Nat \cup {Torn, None}]
  /\ committed \in [Ranks -> BOOLEAN] /\ swapped \subseteq Ranks /\ alone \subseteq Ranks
  /\ accepted \in [Ranks -> Nat] /\ tries \in [Ranks -> Nat] /\ calls \in [Ranks -> Nat]

\* The stretch of code between two collectives that a rank is in.  A rank that
\* leaves the native step with phases left is on its way out of one.
Stretch(r) ==
  IF pc[r] = "control" THEN IF op[r] = "begin" THEN "done" ELSE "vote"
  ELSE IF pc[r] \in {"unwind", "return", "attempt"}
         THEN IF phase[r] > Len(Phases) THEN "work" ELSE "unwind"
  ELSE CASE pc[r] \in {"restore", "leave"} -> "exit"
         [] pc[r] = "idle" -> "done"
         [] pc[r] \in {"snapshot", "snapped"} -> "snap"
         [] pc[r] \in {"enter", "operate", "errors", "status"} -> "work"
         [] pc[r] \in {"decode", "decoded"} -> "decode"
         [] pc[r] \in {"stage", "staged"} -> "stage"
         [] pc[r] \in {"publish", "published"} -> "publish"
         [] OTHER -> pc[r]

\* One of two ranks has raised outside a phase, and the other has not.
Apart(r, s) == ~(r \in alone <=> s \in alone)

\* Two ranks are in the same stretch and in step with each other, or one of
\* them has already left a step that the other is still leaving, or has raised
\* ahead of the collective that the other waits for.
Pair(r, s) ==
  /\ \/ Stretch(r) = Stretch(s) \/ Apart(r, s)
     \/ Stretch(r) = "done" /\ Stretch(s) \in {"exit", "finalize"}
     \/ Stretch(s) = "done" /\ Stretch(r) \in {"exit", "finalize"}
  /\ r \in alone /\ s \notin alone => Stretch(s) = "work"
  /\ Stretch(r) = Stretch(s) \/ Apart(r, s) =>
       accepted[r] = accepted[s] /\ tries[r] = tries[s] /\ calls[r] = calls[s]
  /\ Stretch(r) \in {"work", "rejects", "decode", "unwind"} => phase[r] = phase[s]
  /\ Stretch(r) = "vote" => op[r] = op[s]
  /\ Stretch(r) \in {"vote", "exit"} /\ Stretch(s) = Stretch(r) => out[r] = out[s]
  /\ Stretch(r) = "finalize" /\ Stretch(s) = "done" =>
       accepted[s] = accepted[r] + 1 /\ tries[s] = 0 /\ calls[s] = calls[r]
  /\ Stretch(r) = "exit" /\ Stretch(s) = "done" =>
       /\ accepted[s] = accepted[r]
       /\ IF Retries(r) THEN tries[s] = tries[r] + 1 /\ calls[s] = calls[r]
                        ELSE tries[s] = 0 /\ calls[s] = calls[r] + 1

\* A rejection in flight: the rank has reported nothing but this rejection.
Faithful(r) == out[r].kind = "reject" => said[r] \in {Ok, out[r]}

\* What a rank knows about itself at each operation.
Solo(r) ==
  /\ r \notin swapped => IF txn[r] = None THEN val[r] = accepted[r] ELSE txn[r] = accepted[r]
  /\ r \in alone => Stretch(r) = "unwind"
  /\ txn[r] = None => val[r] # Work
  /\ Stretch(r) = "vote" => op[r] \in {"commit", "finalize", "rollback"}
  /\ Stretch(r) = "done" /\ pc[r] = "control" => out[r] = Ok /\ said[r] = Ok
  /\ Stretch(r) = "snap" => txn[r] = None /\ said[r] = Ok /\ out[r] \in {Ok, Fail}
  /\ Stretch(r) \in {"work", "rejects", "decode", "unwind", "stage", "publish", "finalize"}
       => txn[r] # None
  /\ pc[r] \in {"enter", "operate"} =>
       /\ out[r] = Ok /\ said[r] = Ok
       /\ phase[r] \in 1 .. Len(Phases) + 1
  /\ pc[r] \in {"errors", "status", "rejects", "decode", "decoded"} =>
       phase[r] \in 1 .. Len(Phases)
  /\ pc[r] \in {"errors", "status", "rejects"} => val[r] = Work /\ said[r] = out[r]
  /\ pc[r] = "errors" => Phases[phase[r]] = "phase"
  /\ pc[r] = "status" => Phases[phase[r]] = "status"
  /\ pc[r] = "rejects" => out[r].kind # "fail"
  /\ pc[r] \in {"decode", "decoded", "unwind"} => out[r].kind # "ok" /\ Faithful(r)
  /\ pc[r] \in {"return", "attempt"} =>
       /\ Faithful(r) /\ (out[r].kind = "reject" => val[r] = txn[r])
       /\ out[r].kind = "ok" => val[r] = Work
  /\ Stretch(r) \in {"stage", "publish"} => out[r].kind # "reject"
  /\ Stretch(r) \in {"stage", "publish", "finalize"} => val[r] = Work
  /\ Stretch(r) = "vote" /\ op[r] \in {"commit", "finalize"} =>
       out[r] = Ok /\ val[r] = Work /\ txn[r] # None
  /\ Stretch(r) = "vote" /\ op[r] = "rollback" =>
       /\ out[r].kind # "ok"
       /\ out[r].kind = "reject" =>
            /\ said[r].kind # "fail" /\ val[r] = txn[r]
            /\ said[r].kind = "reject" => said[r].payload.control = out[r].payload.control
  /\ pc[r] = "restore" => txn[r] # None

\* Every rank is consistent with itself and with every other one.
IndInv == Types /\ \A r \in Ranks : Solo(r) /\ \A s \in Ranks : Pair(r, s)
-----------------------------------------------------------------------------
(***************************************************************************)
(* Outcomes and stretches                                                  *)
(***************************************************************************)

\* The kinds of outcomes.
LEMMA OutcomeFacts ==
  /\ Ok \in Outcomes /\ Fail \in Outcomes /\ \A p \in Payloads : Reject(p) \in Outcomes
  /\ Ok.kind = "ok" /\ Fail.kind = "fail"
  /\ \A p : Reject(p).kind = "reject" /\ Reject(p).payload = p
  /\ \A o \in Outcomes :
       /\ o.kind \in {"ok", "fail", "reject"}
       /\ o.kind = "ok" <=> o = Ok
       /\ o.kind = "fail" <=> o = Fail
       /\ o.kind = "reject" => o.payload \in Payloads /\ o = Reject(o.payload)
<1>1. Ok.kind = "ok" /\ Fail.kind = "fail"
  BY DEF Ok, Fail
<1>2. \A p : Reject(p).kind = "reject" /\ Reject(p).payload = p
  BY DEF Reject
<1> QED BY <1>1, <1>2 DEF Outcomes

\* The markers of a native state are no steps.
LEMMA SpecialValues ==
  Work \notin Nat /\ Torn \notin Nat /\ None \notin Nat /\ Work # Torn /\ Torn # None /\ Work # None
<1>1. {Work, Torn, None} \cap Nat = {} /\ Cardinality({Work, Torn, None}) = 3
  BY CollectiveStepAssumption
<1>2. \A x, y : Cardinality({x, y}) # 3
  <2> SUFFICES ASSUME NEW x, NEW y PROVE Cardinality({x, y}) # 3
    OBVIOUS
  <2>1. IsFiniteSet({x}) /\ Cardinality({x}) = 1
    BY FS_Singleton
  <2>2. {x} \cup {y} = {x, y}
    OBVIOUS
  <2>3. Cardinality({x, y}) \in {1, 2}
    BY <2>1, <2>2, FS_AddElement
  <2> QED BY <2>3
<1>3. Work # Torn /\ Torn # None /\ Work # None
  <2>1. Work = Torn => {Work, Torn, None} = {Torn, None}
    OBVIOUS
  <2>2. Torn = None => {Work, Torn, None} = {Work, Torn}
    OBVIOUS
  <2>3. Work = None => {Work, Torn, None} = {Work, Torn}
    OBVIOUS
  <2> QED BY <1>1, <1>2, <2>1, <2>2, <2>3
<1> QED BY <1>1, <1>3

\* Which stretch a rank is in.
LEMMA StretchFacts ==
  ASSUME Types, NEW r \in Ranks
  PROVE  /\ pc[r] = "control" => Stretch(r) = (IF op[r] = "begin" THEN "done" ELSE "vote")
         /\ pc[r] \in {"unwind", "return", "attempt"} =>
              Stretch(r) = (IF phase[r] > Len(Phases) THEN "work" ELSE "unwind")
         /\ pc[r] \in {"restore", "leave"} => Stretch(r) = "exit"
         /\ pc[r] = "idle" => Stretch(r) = "done"
         /\ pc[r] \in {"snapshot", "snapped"} => Stretch(r) = "snap"
         /\ pc[r] \in {"enter", "operate", "errors", "status"} => Stretch(r) = "work"
         /\ pc[r] \in {"decode", "decoded"} => Stretch(r) = "decode"
         /\ pc[r] \in {"stage", "staged"} => Stretch(r) = "stage"
         /\ pc[r] \in {"publish", "published"} => Stretch(r) = "publish"
         /\ pc[r] \in {"rejects", "finalize"} => Stretch(r) = pc[r]
BY DEF Stretch

\* And what a stretch says about the operation.
LEMMA StretchInverse ==
  ASSUME Types, NEW r \in Ranks
  PROVE  /\ Stretch(r) = "vote" => pc[r] = "control" /\ op[r] # "begin"
         /\ Stretch(r) = "done" => pc[r] = "idle" \/ (pc[r] = "control" /\ op[r] = "begin")
         /\ Stretch(r) = "exit" => pc[r] \in {"restore", "leave"}
         /\ Stretch(r) = "finalize" => pc[r] = "finalize"
         /\ Stretch(r) = "snap" => pc[r] \in {"snapshot", "snapped"}
         /\ Stretch(r) = "work" => pc[r] \in {"enter", "operate", "errors", "status",
                                             "unwind", "return", "attempt"}
         /\ Stretch(r) = "work" /\ pc[r] \in {"unwind", "return", "attempt"} =>
              phase[r] > Len(Phases)
         /\ Stretch(r) = "rejects" => pc[r] = "rejects"
         /\ Stretch(r) = "decode" => pc[r] \in {"decode", "decoded"}
         /\ Stretch(r) = "unwind" => /\ pc[r] \in {"unwind", "return", "attempt"}
                                     /\ ~(phase[r] > Len(Phases))
         /\ Stretch(r) = "stage" => pc[r] \in {"stage", "staged"}
         /\ Stretch(r) = "publish" => pc[r] \in {"publish", "published"}
<1>1. pc[r] \in {"idle", "control", "snapshot", "snapped", "enter", "operate", "errors",
                 "rejects", "decode", "decoded", "status", "unwind", "return",
                 "attempt", "stage", "staged", "publish", "published",
                 "finalize", "restore", "leave"}
  BY DEF Types
<1> QED BY <1>1 DEF Stretch
-----------------------------------------------------------------------------
(***************************************************************************)
(* Steps of one rank                                                       *)
(***************************************************************************)

\* A step leaves rank s alone.
Same(s) ==
  /\ pc'[s] = pc[s] /\ op'[s] = op[s] /\ phase'[s] = phase[s]
  /\ out'[s] = out[s] /\ said'[s] = said[s]
  /\ val'[s] = val[s] /\ txn'[s] = txn[s]
  /\ s \in alone' <=> s \in alone
  /\ s \in swapped' <=> s \in swapped
  /\ accepted'[s] = accepted[s] /\ tries'[s] = tries[s] /\ calls'[s] = calls[s]

\* What a rank that is left alone knows stays true, also about another one.
LEMMA SameFacts ==
  ASSUME NEW s \in Ranks, NEW q \in Ranks, Same(s), Same(q)
  PROVE  /\ Stretch(s)' = Stretch(s) /\ Retries(s)' = Retries(s)
         /\ Solo(s) => Solo(s)'
         /\ Pair(s, q) => Pair(s, q)'
<1>1. Stretch(s)' = Stretch(s) /\ Stretch(q)' = Stretch(q)
  BY DEF Same, Stretch
<1>2. Retries(s)' = Retries(s)
  BY DEF Same, Retries
<1>3. Faithful(s)' = Faithful(s)
  BY DEF Same, Faithful
<1>4. Solo(s) => Solo(s)'
  BY <1>1, <1>3 DEF Same, Solo
<1>5. Pair(s, q) => Pair(s, q)'
  BY <1>1, <1>2 DEF Same, Pair, Apart
<1> QED BY <1>1, <1>2, <1>4, <1>5

\* A rank is in step with itself.
LEMMA PairReflexive ==
  ASSUME NEW r \in Ranks
  PROVE  Pair(r, r)
BY DEF Pair, Apart

\* A step of rank r alone keeps the invariant when r stays consistent with
\* itself and with every other rank.
LEMMA LocalStep ==
  ASSUME IndInv, NEW r \in Ranks, Types', \A s \in Ranks \ {r} : Same(s), Solo(r)',
         \A s \in Ranks \ {r} : Pair(r, s)' /\ Pair(s, r)'
  PROVE  IndInv'
<1>1. \A s \in Ranks : Solo(s)'
  BY SameFacts DEF IndInv
<1>2. \A s, q \in Ranks : Pair(s, q)'
  <2>1. Pair(r, r)'
    BY DEF Pair, Apart
  <2>2. \A s, q \in Ranks \ {r} : Pair(s, q)'
    BY SameFacts DEF IndInv
  <2> QED BY <2>1, <2>2
<1> QED BY <1>1, <1>2 DEF IndInv

\* It does so when it stays in its stretch and keeps what its peers rely on.
LEMMA QuietStep ==
  ASSUME IndInv, NEW r \in Ranks, Types', \A s \in Ranks \ {r} : Same(s), Solo(r)',
         Stretch(r)' = Stretch(r),
         accepted'[r] = accepted[r], tries'[r] = tries[r], calls'[r] = calls[r],
         phase'[r] = phase[r], r \in alone' <=> r \in alone,
         Stretch(r) = "vote" => op'[r] = op[r],
         Stretch(r) \in {"vote", "exit"} => out'[r] = out[r]
  PROVE  IndInv'
<1>1. ASSUME NEW s \in Ranks \ {r} PROVE Pair(r, s)' /\ Pair(s, r)'
  <2>1. Same(s) /\ Stretch(s)' = Stretch(s) /\ Retries(s)' = Retries(s)
    BY SameFacts
  <2>2. Pair(r, s) /\ Pair(s, r)
    BY DEF IndInv
  <2>3. Stretch(r) = "exit" => Retries(r)' = Retries(r)
    BY DEF Retries
  <2>4. /\ Apart(r, s)' = Apart(r, s) /\ Apart(s, r)' = Apart(s, r)
        /\ r \in alone' <=> r \in alone
        /\ s \in alone' <=> s \in alone
    BY <2>1 DEF Apart, Same
  <2>5. Pair(r, s)'
    BY <2>1, <2>2, <2>3, <2>4 DEF Pair, Same
  <2>6. Stretch(s) = "vote" => Stretch(r) = "vote"
    BY <2>2 DEF IndInv, Pair, Apart, Solo
  <2>7. Pair(s, r)'
    BY <2>1, <2>2, <2>3, <2>4, <2>6 DEF Pair, Same
  <2> QED BY <2>5, <2>7
<1> QED BY <1>1, LocalStep

\* It also does so when it raises outside a phase: its peers are all at the same
\* point, or have raised there as well.
LEMMA AloneStep ==
  ASSUME IndInv, NEW r \in Ranks, Types', \A s \in Ranks \ {r} : Same(s), Solo(r)',
         Stretch(r) = "work", Stretch(r)' = "unwind", r \in alone',
         accepted'[r] = accepted[r], tries'[r] = tries[r], calls'[r] = calls[r],
         phase'[r] = phase[r]
  PROVE  IndInv'
<1>0. r \notin alone
  BY DEF IndInv, Solo
<1>1. ASSUME NEW s \in Ranks \ {r} PROVE Pair(r, s)' /\ Pair(s, r)'
  <2>1. Same(s) /\ Stretch(s)' = Stretch(s)
    BY SameFacts
  <2>2. Pair(r, s) /\ Pair(s, r) /\ Solo(s)
    BY DEF IndInv
  <2>3. CASE s \in alone
    <3>1. /\ Stretch(s)' = "unwind" /\ s \in alone' /\ phase'[r] = phase'[s]
          /\ accepted'[r] = accepted'[s] /\ tries'[r] = tries'[s] /\ calls'[r] = calls'[s]
      BY <1>0, <2>1, <2>2, <2>3 DEF Pair, Apart, Same, Solo
    <3> QED BY <3>1 DEF Pair, Apart
  <2>4. CASE s \notin alone
    <3>1. /\ Stretch(s)' = "work" /\ s \notin alone' /\ phase'[r] = phase'[s]
          /\ accepted'[r] = accepted'[s] /\ tries'[r] = tries'[s] /\ calls'[r] = calls'[s]
      BY <1>0, <2>1, <2>2, <2>4 DEF Pair, Apart, Same
    <3> QED BY <3>1 DEF Pair, Apart
  <2> QED BY <2>3, <2>4
<1> QED BY <1>1, LocalStep

\* The two ways in which a rank leaves the Program with an exception of its own.
LEMMA LeavesStep ==
  ASSUME IndInv, NEW r \in Ranks, Types', \A s \in Ranks \ {r} : Same(s),
         pc[r] \in {"enter", "operate"}, GoesAlone(r),
         UNCHANGED <<op, phase, txn, swapped, accepted, tries, calls>>,
         out'[r].kind # "ok", said'[r] = out'[r],
         \/ pc'[r] = "return" /\ out'[r].kind = "fail" /\ val'[r] = val[r]
         \/ pc'[r] = "unwind" /\ val'[r] = Work
  PROVE  IndInv'
<1>0. Types /\ Solo(r) /\ Stretch(r) = "work" /\ r \notin alone /\ txn[r] # None
  BY DEF IndInv, Solo, Stretch
<1>1. Stretch(r)' = (IF phase[r] > Len(Phases) THEN "work" ELSE "unwind")
  BY DEF Stretch
<1>2. Len(Phases) \in Nat /\ phase[r] \in Nat
  BY <1>0, CollectiveStepAssumption DEF Types
<1>3. CASE phase[r] > Len(Phases)
  <2>1. alone' = alone /\ Stretch(r)' = "work"
    BY <1>1, <1>2, <1>3 DEF GoesAlone
  <2>2. Solo(r)'
    BY <1>0, <2>1 DEF Solo, Faithful
  <2> QED BY <1>0, <2>1, <2>2, QuietStep
<1>4. CASE ~(phase[r] > Len(Phases))
  <2>1. r \in alone' /\ Stretch(r)' = "unwind"
    BY <1>1, <1>2, <1>4 DEF GoesAlone
  <2>2. Solo(r)'
    BY <1>0, <2>1 DEF Solo, Faithful
  <2> QED BY <1>0, <2>1, <2>2, AloneStep
<1> QED BY <1>3, <1>4

\* A call begins.
LEMMA CallStep ==
  ASSUME IndInv, NEW r \in Ranks, Call(r)
  PROVE  IndInv'
<1> USE DEF native, To
<1>0. Types /\ Solo(r) /\ pc[r] = "idle"
  BY DEF IndInv, Call
<1>1. Types'
  BY <1>0, OutcomeFacts DEF Types, Call
<1>2. \A s \in Ranks \ {r} : Same(s)
  BY <1>0 DEF Types, Call, Same
<1>3. /\ pc'[r] = "control" /\ op'[r] = "begin" /\ out'[r] = Ok /\ said'[r] = Ok
      /\ UNCHANGED <<phase, val, txn, accepted, tries, calls, swapped, alone>>
  BY <1>0 DEF Types, Call
<1>4. Stretch(r) = "done" /\ Stretch(r)' = "done"
  BY <1>0, <1>3 DEF Stretch
<1>5. Solo(r)'
  BY <1>0, <1>3, <1>4 DEF Solo
<1> QED BY <1>1, <1>2, <1>3, <1>4, <1>5, QuietStep

\* A snapshot is prepared or does not fit.
LEMMA SnapshotStep ==
  ASSUME IndInv, NEW r \in Ranks, Snapshot(r)
  PROVE  IndInv'
<1> USE DEF native, To
<1>0. Types /\ Solo(r) /\ pc[r] = "snapshot"
  BY DEF IndInv, Snapshot
<1>1. PICK o \in {Ok, Fail} : out' = [out EXCEPT ![r] = o]
  BY DEF Snapshot
<1>2. Types'
  BY <1>0, <1>1, OutcomeFacts DEF Types, Snapshot
<1>3. \A s \in Ranks \ {r} : Same(s)
  BY <1>0, <1>1 DEF Types, Snapshot, Same
<1>4. /\ pc'[r] = "snapped" /\ out'[r] \in {Ok, Fail}
      /\ UNCHANGED <<op, phase, val, txn, accepted, tries, calls, said, swapped, alone>>
  BY <1>0, <1>1 DEF Types, Snapshot
<1>5. Stretch(r) = "snap" /\ Stretch(r)' = "snap"
  BY <1>0, <1>4 DEF Stretch
<1>6. Solo(r)'
  BY <1>0, <1>4, <1>5 DEF Solo
<1> QED BY <1>2, <1>3, <1>4, <1>5, <1>6, QuietStep

\* A rank enters the native call, or raises before it runs the Program.
LEMMA EnterStep ==
  ASSUME IndInv, NEW r \in Ranks, Enter(r)
  PROVE  IndInv'
<1> USE DEF native, To
<1>0. Types /\ Solo(r) /\ pc[r] = "enter" /\ Stretch(r) = "work" /\ r \notin alone
  BY DEF IndInv, Enter, Stretch, Solo
<1>1. PICK fails \in BOOLEAN :
        /\ out' = [out EXCEPT ![r] = IF fails THEN Fail ELSE @]
        /\ said' = [said EXCEPT ![r] = IF fails THEN Fail ELSE @]
        /\ pc' = [pc EXCEPT ![r] = IF fails THEN "return" ELSE "operate"]
        /\ IF fails THEN GoesAlone(r) ELSE UNCHANGED alone
  BY DEF Enter
<1>2. UNCHANGED <<op, phase, val, txn, committed, swapped, accepted, tries, calls>>
  BY DEF Enter
<1>3. alone' \in {alone, alone \cup {r}}
  BY <1>1 DEF GoesAlone
<1>4. Types'
  BY <1>0, <1>1, <1>2, <1>3, OutcomeFacts DEF Types
<1>5. \A s \in Ranks \ {r} : Same(s)
  BY <1>0, <1>1, <1>2, <1>3 DEF Types, Same
<1>6. CASE ~fails
  <2>1. pc'[r] = "operate" /\ out'[r] = out[r] /\ said'[r] = said[r] /\ alone' = alone
    BY <1>0, <1>1, <1>6 DEF Types
  <2>2. Stretch(r)' = "work"
    BY <2>1 DEF Stretch
  <2>3. Solo(r)'
    BY <1>0, <1>2, <2>1, <2>2 DEF Solo
  <2> QED BY <1>0, <1>2, <1>4, <1>5, <2>1, <2>2, <2>3, QuietStep
<1>7. CASE fails
  <2>1. pc'[r] = "return" /\ out'[r] = Fail /\ said'[r] = Fail /\ GoesAlone(r)
    BY <1>0, <1>1, <1>7 DEF Types
  <2> QED BY <1>0, <1>2, <1>4, <1>5, <2>1, OutcomeFacts, LeavesStep
<1> QED BY <1>6, <1>7

\* The Program raises outside a phase.
LEMMA RaiseStep ==
  ASSUME IndInv, NEW r \in Ranks, Raise(r)
  PROVE  IndInv'
<1> USE DEF native, To
<1>0. Types /\ Solo(r) /\ pc[r] = "operate" /\ Stretch(r) = "work" /\ r \notin alone
  BY DEF IndInv, Raise, Stretch, Solo
<1>1. PICK o \in {Fail} \cup {Reject(p) : p \in Payloads} :
        out' = [out EXCEPT ![r] = o] /\ said' = [said EXCEPT ![r] = o]
  BY DEF Raise
<1>2. o \in Outcomes /\ o.kind # "ok"
  BY OutcomeFacts
<1>3. /\ UNCHANGED <<op, phase, txn, committed, swapped, accepted, tries, calls>>
      /\ val' = [val EXCEPT ![r] = Work] /\ pc' = [pc EXCEPT ![r] = "unwind"]
      /\ GoesAlone(r) /\ alone' \in {alone, alone \cup {r}}
  BY DEF Raise, GoesAlone
<1>4. Types'
  BY <1>0, <1>1, <1>2, <1>3 DEF Types
<1>5. \A s \in Ranks \ {r} : Same(s)
  BY <1>0, <1>1, <1>3 DEF Types, Same
<1>6. pc'[r] = "unwind" /\ out'[r] = o /\ said'[r] = o
  BY <1>0, <1>1, <1>3 DEF Types
<1>7. val'[r] = Work
  BY <1>0, <1>3 DEF Types
<1> QED BY <1>0, <1>2, <1>3, <1>4, <1>5, <1>6, <1>7, LeavesStep

\* A native operation succeeds, fails or rejects.
LEMMA OperateStep ==
  ASSUME IndInv, NEW r \in Ranks, Operate(r)
  PROVE  IndInv'
<1> USE DEF native, To
<1>0. Types /\ Solo(r) /\ pc[r] = "operate" /\ phase[r] <= Len(Phases)
  BY DEF IndInv, Operate
<1>1. PICK o \in Outcomes :
        /\ out' = [out EXCEPT ![r] = o]
        /\ said' = [said EXCEPT ![r] = IF o = Ok THEN @ ELSE o]
  BY DEF Operate, Outcomes
<1>2. Types'
  BY <1>0, <1>1 DEF Types, Operate
<1>3. \A s \in Ranks \ {r} : Same(s)
  BY <1>0, <1>1 DEF Types, Operate, Same
<1>4. /\ pc'[r] = (IF Phases[phase[r]] = "phase" THEN "errors" ELSE "status")
      /\ out'[r] = o /\ said'[r] = o /\ val'[r] = Work
      /\ UNCHANGED <<op, phase, txn, accepted, tries, calls, swapped, alone>>
  BY <1>0, <1>1 DEF Types, Operate, Solo
<1>5. Stretch(r) = "work" /\ Stretch(r)' = "work"
  BY <1>0, <1>4 DEF Stretch
<1>6. phase[r] \in 1 .. Len(Phases) /\ Phases[phase[r]] \in {"phase", "status"}
  BY <1>0, CollectiveStepAssumption DEF Solo
<1>7. Solo(r)'
  BY <1>0, <1>4, <1>5, <1>6 DEF Solo
<1> QED BY <1>2, <1>3, <1>4, <1>5, <1>7, QuietStep

\* The native step returns after its last phase.
LEMMA StepReturnsStep ==
  ASSUME IndInv, NEW r \in Ranks, StepReturns(r)
  PROVE  IndInv'
<1> USE DEF To
<1>0. Types /\ Solo(r) /\ pc[r] = "operate" /\ phase[r] > Len(Phases)
  BY DEF IndInv, StepReturns
<1>1. Types'
  BY <1>0 DEF Types, StepReturns
<1>2. \A s \in Ranks \ {r} : Same(s)
  BY <1>0 DEF Types, StepReturns, Same
<1>3. /\ pc'[r] = "return" /\ val'[r] = Work
      /\ UNCHANGED <<op, phase, out, txn, accepted, tries, calls, said, swapped, alone>>
  BY <1>0 DEF Types, StepReturns
<1>4. Stretch(r) = "work" /\ Stretch(r)' = "work"
  BY <1>0, <1>3 DEF Stretch
<1>5. Solo(r)'
  BY <1>0, <1>3, <1>4, OutcomeFacts DEF Solo, Faithful
<1> QED BY <1>1, <1>2, <1>3, <1>4, <1>5, QuietStep

\* A rank decodes the rejection of its peers.
LEMMA DecodeStep ==
  ASSUME IndInv, NEW r \in Ranks, Decode(r)
  PROVE  IndInv'
<1> USE DEF native, To
<1>0. Types /\ Solo(r) /\ pc[r] = "decode"
  BY DEF IndInv, Decode
<1>1. PICK fails \in BOOLEAN :
        /\ out' = [out EXCEPT ![r] = IF fails THEN Fail ELSE @]
        /\ said' = [said EXCEPT ![r] = IF fails THEN Fail ELSE @]
  BY DEF Decode
<1>2. Types'
  BY <1>0, <1>1, OutcomeFacts DEF Types, Decode
<1>3. \A s \in Ranks \ {r} : Same(s)
  BY <1>0, <1>1 DEF Types, Decode, Same
<1>4. /\ pc'[r] = "decoded"
      /\ (out'[r] = Fail /\ said'[r] = Fail) \/ (out'[r] = out[r] /\ said'[r] = said[r])
      /\ UNCHANGED <<op, phase, val, txn, accepted, tries, calls, swapped, alone>>
  BY <1>0, <1>1 DEF Types, Decode
<1>5. Stretch(r) = "decode" /\ Stretch(r)' = "decode"
  BY <1>0, <1>4 DEF Stretch
<1>6. Solo(r)'
  BY <1>0, <1>4, <1>5, OutcomeFacts DEF Solo, Faithful
<1> QED BY <1>2, <1>3, <1>4, <1>5, <1>6, QuietStep

\* System::step restores its own snapshot, or tears the state.
LEMMA UnwindStep ==
  ASSUME IndInv, NEW r \in Ranks, Unwind(r)
  PROVE  IndInv'
<1> USE DEF native, To
<1>0. Types /\ Solo(r) /\ pc[r] = "unwind"
  BY DEF IndInv, Unwind
<1>1. PICK fails \in BOOLEAN :
        /\ val' = [val EXCEPT ![r] = IF fails THEN Torn ELSE txn[r]]
        /\ out' = [out EXCEPT ![r] = IF fails THEN Fail ELSE @]
        /\ said' = [said EXCEPT ![r] = IF fails THEN Fail ELSE @]
  BY DEF Unwind
<1>2. Stretch(r) \in {"work", "unwind"} /\ txn[r] \in Nat \cup {Torn}
  BY <1>0 DEF Stretch, Solo, Types
<1>3. Types'
  BY <1>0, <1>1, <1>2, OutcomeFacts DEF Types, Unwind
<1>4. \A s \in Ranks \ {r} : Same(s)
  BY <1>0, <1>1 DEF Types, Unwind, Same
<1>5. /\ pc'[r] = "return"
      /\ \/ out'[r] = Fail /\ said'[r] = Fail /\ val'[r] = Torn
         \/ out'[r] = out[r] /\ said'[r] = said[r] /\ val'[r] = txn[r]
      /\ UNCHANGED <<op, phase, txn, accepted, tries, calls, swapped, alone>>
  BY <1>0, <1>1 DEF Types, Unwind
<1>6. Stretch(r)' = Stretch(r)
  BY <1>0, <1>5 DEF Stretch
<1>7. Solo(r)'
  BY <1>0, <1>2, <1>5, <1>6, OutcomeFacts DEF Solo, Faithful
<1> QED BY <1>2, <1>3, <1>4, <1>5, <1>6, <1>7, QuietStep

\* The call returns to Python, where the rank may still raise.
LEMMA ReturnStep ==
  ASSUME IndInv, NEW r \in Ranks, Return(r)
  PROVE  IndInv'
<1> USE DEF native, To
<1>0. Types /\ Solo(r) /\ pc[r] = "return"
  BY DEF IndInv, Return
<1>1. PICK fails \in BOOLEAN :
        /\ out' = [out EXCEPT ![r] = IF fails THEN Fail ELSE @]
        /\ said' = [said EXCEPT ![r] = IF fails THEN Fail ELSE @]
  BY DEF Return
<1>2. Types'
  BY <1>0, <1>1, OutcomeFacts DEF Types, Return
<1>3. \A s \in Ranks \ {r} : Same(s)
  BY <1>0, <1>1 DEF Types, Return, Same
<1>4. /\ pc'[r] = "attempt"
      /\ (out'[r] = Fail /\ said'[r] = Fail) \/ (out'[r] = out[r] /\ said'[r] = said[r])
      /\ UNCHANGED <<op, phase, val, txn, accepted, tries, calls, swapped, alone>>
  BY <1>0, <1>1 DEF Types, Return
<1>5. Stretch(r)' = Stretch(r) /\ Stretch(r) \in {"work", "unwind"}
  BY <1>0, <1>4 DEF Stretch
<1>6. Solo(r)'
  BY <1>0, <1>4, <1>5, OutcomeFacts DEF Solo, Faithful
<1> QED BY <1>2, <1>3, <1>4, <1>5, <1>6, QuietStep

\* A rank stages or publishes its effects, or fails to.
LEMMA EffectStep ==
  ASSUME IndInv, NEW r \in Ranks, Effect(r)
  PROVE  IndInv'
<1> USE DEF native, To
<1>0. Types /\ Solo(r) /\ pc[r] \in {"stage", "publish"}
  BY DEF IndInv, Effect
<1>1. PICK fails \in BOOLEAN : out' = [out EXCEPT ![r] = IF fails THEN Fail ELSE @]
  BY DEF Effect
<1>2. Types'
  BY <1>0, <1>1, OutcomeFacts DEF Types, Effect
<1>3. \A s \in Ranks \ {r} : Same(s)
  BY <1>0, <1>1 DEF Types, Effect, Same
<1>4. /\ pc'[r] = IF pc[r] = "stage" THEN "staged" ELSE "published"
      /\ out'[r] \in {Fail, out[r]}
      /\ UNCHANGED <<op, phase, val, txn, accepted, tries, calls, said, swapped, alone>>
  BY <1>0, <1>1 DEF Types, Effect
<1>5. Stretch(r)' = Stretch(r) /\ Stretch(r) = pc[r]
  BY <1>0, <1>4 DEF Stretch
<1>6. Solo(r)'
  BY <1>0, <1>4, <1>5, OutcomeFacts DEF Solo
<1> QED BY <1>0, <1>2, <1>3, <1>4, <1>5, <1>6, QuietStep

\* A rank restores its snapshot, or keeps its transaction.
LEMMA RestoreStep ==
  ASSUME IndInv, NEW r \in Ranks, Restore(r)
  PROVE  IndInv'
<1> USE DEF native, To
<1>0. Types /\ Solo(r) /\ pc[r] = "restore"
  BY DEF IndInv, Restore
<1>1. PICK fails \in BOOLEAN, exact \in BOOLEAN :
        /\ exact \/ fails \/ r \in swapped
        /\ val' = [val EXCEPT ![r] = IF fails \/ ~exact THEN Torn ELSE txn[r]]
        /\ swapped' = IF fails THEN swapped \cup {r} ELSE swapped
        /\ txn' = [txn EXCEPT ![r] = IF fails THEN @ ELSE None]
        /\ committed' = [committed EXCEPT ![r] = fails /\ @]
  BY DEF Restore
<1>2. txn[r] \in Nat \cup {Torn} /\ (r \notin swapped => txn[r] = accepted[r])
  BY <1>0 DEF Solo, Types
<1>3. Types'
  BY <1>0, <1>1, <1>2 DEF Types, Restore
<1>4. \A s \in Ranks \ {r} : Same(s)
  BY <1>0, <1>1 DEF Types, Restore, Same
<1>5. /\ pc'[r] = "leave"
      /\ \/ val'[r] = Torn /\ txn'[r] = txn[r] /\ r \in swapped'
         \/ val'[r] \in {txn[r], Torn} /\ txn'[r] = None /\ r \in swapped /\ r \in swapped'
         \/ val'[r] = txn[r] /\ txn'[r] = None /\ r \notin swapped
      /\ UNCHANGED <<op, phase, out, accepted, tries, calls, said, alone>>
  BY <1>0, <1>1 DEF Types, Restore
<1>6. Stretch(r) = "exit" /\ Stretch(r)' = "exit"
  BY <1>0, <1>5 DEF Stretch
<1>7. Work \notin Nat /\ Work # Torn
  BY SpecialValues
<1>8. Solo(r)'
  BY <1>0, <1>2, <1>5, <1>6, <1>7 DEF Solo
<1> QED BY <1>3, <1>4, <1>5, <1>6, <1>8, QuietStep

\* A rank finalizes its transaction: it is one step ahead of those that have
\* not yet.
LEMMA FinalizeStep ==
  ASSUME IndInv, NEW r \in Ranks, Finalize(r)
  PROVE  IndInv'
<1> USE DEF To
<1>0. Types /\ Solo(r) /\ pc[r] = "finalize" /\ accepted[r] \in Nat
  BY DEF IndInv, Finalize, Types
<1>1. Types'
  BY <1>0 DEF Types, Finalize
<1>2. \A s \in Ranks \ {r} : Same(s)
  BY <1>0 DEF Types, Finalize, Same
<1>3. /\ pc'[r] = "idle" /\ accepted'[r] = accepted[r] + 1 
      /\ val'[r] = (IF txn[r] = Torn THEN Torn ELSE accepted[r] + 1)
      /\ txn'[r] = None /\ tries'[r] = 0
      /\ UNCHANGED <<op, phase, out, calls, said, swapped, alone>>
  BY <1>0 DEF Types, Finalize
<1>4. Stretch(r) = "finalize" /\ Stretch(r)' = "done"
  BY <1>0, <1>3 DEF Stretch
<1>5. Solo(r)'
  <2>1. r \notin swapped => txn[r] \in Nat
    BY <1>0, <1>4 DEF Solo
  <2>2. Work \notin Nat /\ Torn \notin Nat /\ Work # Torn
    BY SpecialValues
  <2>3. r \notin alone
    BY <1>0, <1>4 DEF Solo
  <2> QED BY <1>0, <1>3, <1>4, <2>1, <2>2, <2>3 DEF Solo
<1>6. ASSUME NEW s \in Ranks \ {r} PROVE Pair(r, s)' /\ Pair(s, r)'
  <2>1. Same(s) /\ Stretch(s)' = Stretch(s)
    BY <1>2, SameFacts
  <2>2. Pair(r, s) /\ Pair(s, r)
    BY DEF IndInv
  <2>5. ~Apart(r, s) /\ ~Apart(s, r) /\ r \notin alone' /\ s \notin alone'
        /\ ~Apart(r, s)' /\ ~Apart(s, r)'
    BY <1>0, <1>3, <1>4, <2>1, <2>2 DEF Pair, Solo, Apart, Same
  <2>3. CASE Stretch(s) = "finalize"
    <3>1. accepted'[r] = accepted'[s] + 1 /\ tries'[r] = 0 /\ calls'[r] = calls'[s]
      BY <1>3, <1>4, <2>1, <2>2, <2>5, <2>3 DEF Pair, Same
    <3> QED BY <1>4, <2>1, <2>5, <2>3, <3>1 DEF Pair
  <2>4. CASE Stretch(s) = "done"
    <3>1. accepted'[r] = accepted'[s] /\ tries'[r] = tries'[s] /\ calls'[r] = calls'[s]
      BY <1>3, <1>4, <2>1, <2>2, <2>5, <2>4 DEF Pair, Same
    <3> QED BY <1>4, <2>1, <2>5, <2>4, <3>1 DEF Pair
  <2> QED BY <1>4, <2>2, <2>5, <2>3, <2>4 DEF Pair
<1> QED BY <1>1, <1>2, <1>5, <1>6, LocalStep

\* A rank leaves the envelope: it decides as its peers decide.
LEMMA LeaveStep ==
  ASSUME IndInv, NEW r \in Ranks, Leave(r)
  PROVE  IndInv'
<1> USE DEF To, native
<1>0. Types /\ Solo(r) /\ pc[r] = "leave" /\ tries[r] \in Nat /\ calls[r] \in Nat
  BY DEF IndInv, Leave, Types
<1>1. Types'
  <2>0. UNCHANGED <<phase, val, txn, committed, swapped, accepted, alone>>
    BY DEF Leave
  <2>9. out' \in [Ranks -> Outcomes] /\ said' \in [Ranks -> Outcomes]
    BY <1>0, OutcomeFacts DEF Types, Leave
  <2>1. CASE Retries(r)
    <3>1. /\ tries' = [tries EXCEPT ![r] = @ + 1] /\ op' = [op EXCEPT ![r] = "begin"]
          /\ pc' = [pc EXCEPT ![r] = "control"] /\ UNCHANGED calls
      BY <2>1 DEF Leave
    <3> QED BY <1>0, <2>0, <2>9, <3>1 DEF Types
  <2>2. CASE ~Retries(r)
    <3>1. /\ tries' = [tries EXCEPT ![r] = 0] /\ calls' = [calls EXCEPT ![r] = @ + 1]
          /\ pc' = [pc EXCEPT ![r] = "idle"] /\ UNCHANGED op
      BY <2>2 DEF Leave
    <3> QED BY <1>0, <2>0, <2>9, <3>1 DEF Types
  <2> QED BY <2>1, <2>2
<1>2. \A s \in Ranks \ {r} : Same(s)
  <2>1. CASE Retries(r)
    BY <1>0, <2>1 DEF Types, Leave, Same
  <2>2. CASE ~Retries(r)
    BY <1>0, <2>2 DEF Types, Leave, Same
  <2> QED BY <2>1, <2>2
<1>3. /\ out'[r] = Ok /\ said'[r] = Ok /\ UNCHANGED <<phase, val, txn, accepted, swapped, alone>>
      /\ IF Retries(r)
           THEN /\ pc'[r] = "control" /\ op'[r] = "begin"
                /\ tries'[r] = tries[r] + 1 /\ calls'[r] = calls[r]
           ELSE pc'[r] = "idle" /\ tries'[r] = 0 /\ calls'[r] = calls[r] + 1
  BY <1>0 DEF Types, Leave
<1>4. Stretch(r) = "exit" /\ Stretch(r)' = "done"
  BY <1>0, <1>3 DEF Stretch
<1>5. Solo(r)'
  BY <1>0, <1>3, <1>4 DEF Solo
<1>6. ASSUME NEW s \in Ranks \ {r} PROVE Pair(r, s)' /\ Pair(s, r)'
  <2>1. Same(s) /\ Stretch(s)' = Stretch(s) /\ Retries(s)' = Retries(s)
    BY <1>2, SameFacts
  <2>2. Pair(r, s) /\ Pair(s, r)
    BY DEF IndInv
  <2>5. ~Apart(r, s) /\ ~Apart(s, r) /\ r \notin alone' /\ s \notin alone'
        /\ ~Apart(r, s)' /\ ~Apart(s, r)'
    BY <1>0, <1>3, <1>4, <2>1, <2>2 DEF Pair, Solo, Apart, Same
  <2>3. CASE Stretch(s) = "exit"
    <3>1. /\ accepted[r] = accepted[s] /\ tries[r] = tries[s] /\ calls[r] = calls[s]
          /\ out[r] = out[s]
      BY <1>4, <2>2, <2>5, <2>3 DEF Pair
    <3>2. Retries(s) = Retries(r)
      BY <3>1 DEF Retries
    <3>3. /\ accepted'[r] = accepted'[s]
          /\ IF Retries(s)' THEN tries'[r] = tries'[s] + 1 /\ calls'[r] = calls'[s]
                            ELSE tries'[r] = 0 /\ calls'[r] = calls'[s] + 1
      BY <1>3, <2>1, <3>1, <3>2 DEF Same
    <3> QED BY <1>4, <2>1, <2>5, <2>3, <3>3 DEF Pair
  <2>4. CASE Stretch(s) = "done"
    <3>1. accepted'[r] = accepted'[s] /\ tries'[r] = tries'[s] /\ calls'[r] = calls'[s]
      BY <1>3, <1>4, <2>1, <2>2, <2>5, <2>4 DEF Pair, Same
    <3> QED BY <1>4, <2>1, <2>5, <2>4, <3>1 DEF Pair
  <2> QED BY <1>4, <2>2, <2>5, <2>3, <2>4 DEF Pair
<1> QED BY <1>1, <1>2, <1>5, <1>6, LocalStep
-----------------------------------------------------------------------------
(***************************************************************************)
(* Collectives                                                             *)
(***************************************************************************)

\* All ranks that are in one collective are in the same stretch and agree on
\* everything that a stretch has in common.
LEMMA Meeting ==
  ASSUME IndInv, NEW p, All(p), NEW r \in Ranks, NEW s \in Ranks,
         p \in {"control", "snapped", "errors", "rejects", "decoded", "status", "attempt",
                "staged", "published"}
  PROVE  /\ pc[r] = p /\ Solo(r) /\ Types /\ Stretch(r) = Stretch(s)
         /\ accepted[r] = accepted[s] /\ tries[r] = tries[s] /\ calls[r] = calls[s]
         /\ Stretch(r) \in {"work", "rejects", "decode", "unwind"} => phase[r] = phase[s]
         /\ p = "control" => op[r] = op[s] /\ out[r] = out[s]
<1>1. Types /\ Solo(r) /\ Solo(s) /\ Pair(r, s) /\ pc[r] = p /\ pc[s] = p
  BY DEF IndInv, All
<1>2. Stretch(r) = Stretch(s)
  <2>1. Apart(r, s) => Pair(s, r)
    BY DEF IndInv
  <2>2. Apart(r, s) => phase[r] = phase[s]
    BY <1>1, <2>1 DEF Pair, Apart, Solo
  <2>3. CASE Apart(r, s)
    <3>1. p = "attempt"
      BY <1>1, <2>3, StretchInverse DEF Apart, Solo
    <3> QED BY <1>1, <2>2, <2>3, <3>1 DEF Stretch
  <2>4. CASE ~Apart(r, s)
    BY <1>1, <2>4 DEF Pair, Stretch
  <2> QED BY <2>3, <2>4
<1>3. p = "control" => op[r] = op[s] /\ out[r] = out[s]
  <2>1. CASE p = "control" /\ op[r] = "begin"
    BY <1>1, <1>2, <2>1 DEF Stretch, Solo
  <2>2. CASE p = "control" /\ op[r] # "begin"
    BY <1>1, <1>2, <2>2 DEF Stretch, Pair
  <2> QED BY <2>1, <2>2
<1> QED BY <1>1, <1>2, <1>3 DEF Pair

\* Where ranks meet on the lane, or after the verdict, none has gone ahead.
LEMMA NoneAlone ==
  ASSUME IndInv, NEW p, All(p),
         p \in {"control", "snapped", "errors", "rejects", "decoded", "status", "staged",
                "published"}
  PROVE  alone = {}
<1>1. \A r \in Ranks : pc[r] = p /\ Solo(r) /\ alone \subseteq Ranks
  BY DEF IndInv, Types, All
<1>2. \A r \in Ranks : Stretch(r) # "unwind"
  BY <1>1 DEF Stretch
<1> QED BY <1>1, <1>2 DEF Solo, IndInv, Types

\* After a collective the invariant holds when every rank is consistent with
\* itself, all ranks are in one stretch and the step changed no counter.
LEMMA CollectiveDone ==
  ASSUME IndInv, NEW p, All(p),
         p \in {"control", "snapped", "errors", "rejects", "decoded", "status", "attempt",
                "staged", "published"},
         Types', UNCHANGED <<accepted, tries, calls>>, alone' = {},
         \A r \in Ranks : Solo(r)',
         \A r, s \in Ranks :
           /\ Stretch(r)' = Stretch(s)'
           /\ Stretch(r)' \in {"work", "rejects", "decode", "unwind"} => phase'[r] = phase'[s]
           /\ Stretch(r)' \in {"vote", "exit"} => op'[r] = op'[s] /\ out'[r] = out'[s]
  PROVE  IndInv'
<1>1. ASSUME NEW r \in Ranks, NEW s \in Ranks PROVE Pair(r, s)'
  <2>1. accepted[r] = accepted[s] /\ tries[r] = tries[s] /\ calls[r] = calls[s]
    BY Meeting
  <2> QED BY <2>1 DEF Pair, Apart
<1> QED BY <1>1 DEF IndInv

\* The control vote of the native transaction.
LEMMA ControlStep ==
  ASSUME IndInv, Control
  PROVE  IndInv'
<1>9. alone = {} /\ alone' = {} /\ swapped' = swapped
  BY NoneAlone DEF Control
<1> USE <1>9
<1>0. All("control") /\ Types
  BY DEF Control, IndInv
<1>1. \A r, s \in Ranks : pc[r] = "control" /\ Solo(r) /\ op[r] = op[s] /\ out[r] = out[s]
  BY <1>0, Meeting
<1>2. \A r \in Ranks : op[r] \in {"begin", "commit", "finalize", "rollback"}
  BY <1>0, <1>1 DEF Solo, Stretch
<1>3. UNCHANGED <<phase, val, txn, accepted, tries, calls, said>>
  BY DEF Control
<1>4. CASE ~Agreed
  <2>1. \A r \in Ranks :
          /\ pc'[r] = IF op[r] = "rollback" THEN "leave" ELSE "control"
          /\ op'[r] = "rollback"
          /\ out'[r] = IF op[r] = "rollback" THEN out[r] ELSE Fail
    BY <1>4 DEF Control
  <2>2. Types'
    BY <1>0, <1>4, <2>1, OutcomeFacts DEF Types, Control
  <2>3. \A r \in Ranks : Stretch(r)' = IF op[r] = "rollback" THEN "exit" ELSE "vote"
    BY <2>1 DEF Stretch
  <2>4. \A r \in Ranks : Solo(r)'
    BY <1>1, <1>3, <2>1, <2>3, OutcomeFacts DEF Solo
  <2>5. \A r, s \in Ranks :
          Stretch(r)' = Stretch(s)' /\ op'[r] = op'[s] /\ out'[r] = out'[s]
          /\ Stretch(r)' \notin {"work", "rejects", "decode", "unwind"}
    BY <1>1, <2>1, <2>3
  <2> QED BY <1>0, <1>3, <2>2, <2>4, <2>5, CollectiveDone
<1>5. CASE Agreed
  <2>1. \A r \in Ranks :
          /\ op[r] = "begin" => pc'[r] = "snapshot" /\ txn[r] = None
          /\ op[r] = "commit" => pc'[r] = "publish"
          /\ op[r] = "finalize" => pc'[r] = "finalize"
          /\ op[r] = "rollback" => pc'[r] = "restore" /\ txn[r] # None
          /\ op'[r] = op[r] /\ out'[r] = out[r]
    BY <1>5 DEF Control, Agreed, Admits
  <2>2. Types'
    <3>1. \A r \in Ranks : (committed[r] \/ (Agreed /\ op[r] = "commit")) \in BOOLEAN
      OBVIOUS
    <3>2. committed' \in [Ranks -> BOOLEAN]
      BY <3>1 DEF Control
    <3>3. pc' \in [Ranks -> {"snapshot", "publish", "finalize", "restore"}]
      BY <1>2, <2>1 DEF Control
    <3>4. op' = op /\ out' = out
      BY <1>0, <1>5 DEF Control, Types
    <3> QED BY <1>0, <1>3, <3>2, <3>3, <3>4 DEF Types
  <2>3. \A r \in Ranks :
          /\ op[r] = "begin" => Stretch(r)' = "snap"
          /\ op[r] = "commit" => Stretch(r)' = "publish"
          /\ op[r] = "finalize" => Stretch(r)' = "finalize"
          /\ op[r] = "rollback" => Stretch(r)' = "exit"
    BY <2>1 DEF Stretch
  <2>4. \A r \in Ranks : Solo(r)'
    <3> SUFFICES ASSUME NEW r \in Ranks PROVE Solo(r)'
      OBVIOUS
    <3>1. Solo(r) /\ Stretch(r) = (IF op[r] = "begin" THEN "done" ELSE "vote")
      BY <1>1 DEF Stretch
    <3>2. CASE op[r] = "begin"
      BY <1>1, <1>3, <2>1, <2>3, <3>1, <3>2 DEF Solo
    <3>3. CASE op[r] \in {"commit", "finalize"}
      BY <1>1, <1>3, <2>1, <2>3, <3>1, <3>3, OutcomeFacts DEF Solo
    <3>4. CASE op[r] = "rollback"
      BY <1>1, <1>3, <2>1, <2>3, <3>1, <3>4 DEF Solo
    <3> QED BY <1>2, <3>2, <3>3, <3>4
  <2>5. \A r, s \in Ranks :
          Stretch(r)' = Stretch(s)' /\ op'[r] = op'[s] /\ out'[r] = out'[s]
          /\ Stretch(r)' \notin {"work", "rejects", "decode", "unwind"}
    BY <1>1, <1>2, <2>1, <2>3
  <2> QED BY <1>0, <1>3, <2>2, <2>4, <2>5, CollectiveDone
<1> QED BY <1>4, <1>5

\* The consensus on the snapshots.
LEMMA SnappedStep ==
  ASSUME IndInv, Snapped
  PROVE  IndInv'
<1>9. alone = {} /\ alone' = {} /\ swapped' = swapped
  BY NoneAlone DEF Snapped, native
<1> USE <1>9
<1>0. All("snapped") /\ Types /\ UNCHANGED <<accepted, tries, calls, said>>
  BY DEF Snapped, IndInv
<1>1. \A r \in Ranks :
        /\ pc[r] = "snapped" /\ Solo(r) /\ Stretch(r) = "snap" /\ out[r] \in {Ok, Fail}
        /\ txn[r] = None /\ said[r] = Ok /\ accepted[r] \in Nat
        /\ val[r] \in Nat \cup {Torn} /\ (r \notin swapped => val[r] = accepted[r])
  <2>1. \A r \in Ranks : pc[r] = "snapped" /\ Solo(r)
    BY <1>0, Meeting
  <2>2. \A r \in Ranks : Stretch(r) = "snap"
    BY <2>1 DEF Stretch
  <2>3. \A r \in Ranks : accepted[r] \in Nat /\ val[r] \in Nat \cup {Work, Torn}
    BY <1>0 DEF Types
  <2> QED BY <2>1, <2>2, <2>3 DEF Solo
<1>2. CASE Some("fail") # {}
  <2>1. \A r \in Ranks : pc'[r] = "control" /\ op'[r] = "rollback" /\ out'[r] = Fail
    BY <1>2 DEF Snapped, Votes, AllTo, AllOut
  <2>2. UNCHANGED <<val, txn, committed, phase>>
    BY <1>2 DEF Snapped, native
  <2>3. Types'
    BY <1>0, <1>2, <2>2, OutcomeFacts DEF Types, Snapped, Votes, AllTo, AllOut
  <2>4. \A r \in Ranks : Stretch(r)' = "vote"
    BY <2>1 DEF Stretch
  <2>5. \A r \in Ranks : Solo(r)'
    BY <1>0, <1>1, <2>1, <2>2, <2>4, OutcomeFacts DEF Solo
  <2> QED BY <1>0, <2>1, <2>3, <2>4, <2>5, CollectiveDone
<1>3. CASE Some("fail") = {}
  <2>1. \A r \in Ranks : out[r] = Ok
    BY <1>1, <1>3, OutcomeFacts DEF Some
  <2>2. /\ \A r \in Ranks : pc'[r] = "enter" /\ phase'[r] = 1 /\ txn'[r] = val[r]
        /\ UNCHANGED <<val, op, out>>
    BY <1>1, <1>3 DEF Snapped, AllTo
  <2>3. Types'
    <3>1. txn' \in [Ranks -> Nat \cup {Torn, None}]
      BY <1>0, <1>1, <1>3 DEF Snapped, Types
    <3>2. /\ pc' = [r \in Ranks |-> "enter"] /\ committed' = [r \in Ranks |-> FALSE]
          /\ phase' = [r \in Ranks |-> 1]
      BY <1>3 DEF Snapped, AllTo
    <3>3. committed' \in [Ranks -> BOOLEAN] /\ phase' \in [Ranks -> Nat \ {0}]
      BY <3>2
    <3> QED BY <1>0, <2>2, <3>1, <3>2, <3>3 DEF Types
  <2>4. \A r \in Ranks : Stretch(r)' = "work"
    BY <2>2 DEF Stretch
  <2>5. Len(Phases) \in Nat /\ None \notin Nat /\ None # Torn
    BY CollectiveStepAssumption, SpecialValues
  <2>6. \A r \in Ranks : txn'[r] # None /\ 1 \in 1 .. Len(Phases) + 1
    BY <1>1, <2>2, <2>5
  <2>7. \A r \in Ranks : Solo(r)'
    BY <1>0, <1>1, <2>1, <2>2, <2>4, <2>6 DEF Solo
  <2> QED BY <1>0, <2>2, <2>3, <2>4, <2>7, CollectiveDone
<1> QED BY <1>2, <1>3

\* All ranks raise an ordinary failure out of a phase.
LEMMA ThrowsStep ==
  ASSUME IndInv, NEW p \in {"errors", "rejects", "status"}, All(p), Throws,
         UNCHANGED <<op, native, accepted, tries, calls, said, alone>>
  PROVE  IndInv'
<1>9. alone = {} /\ alone' = {} /\ swapped' = swapped
  BY NoneAlone DEF native
<1> USE <1>9
<1> USE DEF native
<1>0. Types
  BY DEF IndInv
<1>1. \A r, s \in Ranks :
        /\ pc[r] = p /\ Solo(r) /\ phase[r] = phase[s] /\ phase[r] \in 1 .. Len(Phases)
        /\ txn[r] # None
  BY Meeting DEF Solo, Stretch
<1>2. \A r \in Ranks : pc'[r] = "unwind" /\ out'[r] = Fail /\ phase'[r] = phase[r]
  BY DEF Throws, AllOut, AllTo
<1>3. Types'
  BY <1>0, OutcomeFacts DEF Types, Throws, AllOut, AllTo
<1>4. \A r \in Ranks : Stretch(r)' = "unwind"
  BY <1>1, <1>2, CollectiveStepAssumption DEF Stretch
<1>5. \A r \in Ranks : Solo(r)'
  BY <1>1, <1>2, <1>4, OutcomeFacts DEF Solo, Faithful
<1>6. \A r, s \in Ranks : phase'[r] = phase'[s]
  BY <1>1, <1>2
<1> QED BY <1>3, <1>4, <1>5, <1>6, CollectiveDone

\* All ranks go on with the next phase.
LEMMA NextPhaseStep ==
  ASSUME IndInv, NEW p \in {"rejects", "status"}, All(p), NextPhase,
         \A r \in Ranks : out[r] = Ok,
         UNCHANGED <<op, out, native, accepted, tries, calls, said, alone>>
  PROVE  IndInv'
<1>9. alone = {} /\ alone' = {} /\ swapped' = swapped
  BY NoneAlone DEF native
<1> USE <1>9
<1> USE DEF native
<1>0. Types
  BY DEF IndInv
<1>1. \A r, s \in Ranks :
        /\ pc[r] = p /\ Solo(r) /\ phase[r] = phase[s] /\ phase[r] \in 1 .. Len(Phases)
        /\ txn[r] # None /\ val[r] = Work /\ said[r] = Ok
  BY Meeting DEF Solo, Stretch
<1>2. \A r \in Ranks : pc'[r] = "operate" /\ phase'[r] = phase[r] + 1
  BY DEF NextPhase, AllTo
<1>3. \A r \in Ranks : phase[r] + 1 \in 1 .. Len(Phases) + 1
  BY <1>1, CollectiveStepAssumption
<1>4. Types'
  BY <1>0 DEF Types, NextPhase, AllTo
<1>5. \A r \in Ranks : Stretch(r)' = "work"
  BY <1>2 DEF Stretch
<1>6. \A r \in Ranks : Solo(r)'
  BY <1>1, <1>2, <1>3, <1>5, OutcomeFacts DEF Solo
<1>7. \A r, s \in Ranks : phase'[r] = phase'[s]
  BY <1>1, <1>2
<1> QED BY <1>4, <1>5, <1>6, <1>7, CollectiveDone

\* collectively_rethrow_exception.
LEMMA ErrorsStep ==
  ASSUME IndInv, Errors
  PROVE  IndInv'
<1>9. alone = {} /\ alone' = {} /\ swapped' = swapped
  BY NoneAlone DEF Errors, native
<1> USE <1>9
<1>0. All("errors") /\ Types /\ UNCHANGED <<op, native, accepted, tries, calls, said, alone>>
  BY DEF Errors, IndInv
<1>1. CASE Some("fail") # {}
  BY <1>0, <1>1, ThrowsStep DEF Errors
<1>2. CASE Some("fail") = {}
  <2>1. \A r, s \in Ranks : pc[r] = "errors" /\ Solo(r) /\ phase[r] = phase[s]
    BY <1>0, Meeting DEF Stretch
  <2>2. \A r \in Ranks : Stretch(r) = "work" /\ out[r].kind # "fail"
    BY <1>2, <2>1 DEF Stretch, Some
  <2>3. pc' = [r \in Ranks |-> "rejects"] /\ UNCHANGED <<out, phase, op, val, txn, committed>>
    BY <1>0, <1>2 DEF Errors, AllTo, native
  <2>4. Types'
    BY <1>0, <2>3 DEF Types
  <2>5. \A r \in Ranks : pc'[r] = "rejects" /\ Stretch(r)' = "rejects"
    BY <2>3 DEF Stretch
  <2>6. \A r \in Ranks : Solo(r)'
    BY <1>0, <2>1, <2>2, <2>3, <2>5 DEF Solo
  <2> QED BY <1>0, <2>1, <2>3, <2>4, <2>5, <2>6, CollectiveDone
<1> QED BY <1>1, <1>2

\* What finitely many ranks report is finite.
LEMMA ReportsFinite ==
  ASSUME NEW f, NEW S \in SUBSET Ranks
  PROVE  IsFiniteSet({f[r] : r \in S})
<1> DEFINE T == {f[r] : r \in S}
           g == [r \in S |-> f[r]]
<1>1. IsFiniteSet(S)
  <2>1. IsFiniteSet(Ranks)
    BY FS_Interval, CollectiveStepAssumption DEF Ranks
  <2> QED BY <2>1, FS_Subset
<1>2. g \in [S -> T] /\ \A t \in T : \E r \in S : g[r] = t
  OBVIOUS
<1>3. g \in Surjection(S, T)
  BY <1>2 DEF Surjection
<1> QED BY <1>1, <1>3, FS_Surjection

\* A selected rejection is that of every rank that rejected.
LEMMA SelectedFacts ==
  ASSUME Types, Selected # Fail
  PROVE  /\ Selected \in Outcomes /\ Selected.kind = "reject"
         /\ \A r \in Some("reject") : out[r] = Selected
<1> DEFINE payloads == {out[r].payload : r \in Some("reject")}
           p == CHOOSE q \in payloads : TRUE
<1>1. Cardinality(payloads) = 1 /\ Selected = Reject(p)
  BY DEF Selected
<1>2. IsFiniteSet(payloads)
  <2> DEFINE f == [r \in Ranks |-> out[r].payload]
  <2>1. Some("reject") \in SUBSET Ranks
    BY DEF Some
  <2>2. IsFiniteSet({f[r] : r \in Some("reject")})
    BY <2>1, ReportsFinite
  <2>3. payloads = {f[r] : r \in Some("reject")}
    BY <2>1
  <2> QED BY <2>2, <2>3
<1>3. PICK x : payloads = {x}
  BY <1>1, <1>2, FS_Singleton
<1>4. p = x /\ p \in payloads
  BY <1>3
<1>5. \A r \in Some("reject") : out[r] \in Outcomes /\ out[r].kind = "reject" /\ r \in Ranks
  BY DEF Some, Types
<1>6. \A r \in Some("reject") : out[r].payload = p
  BY <1>3, <1>4
<1>7. p \in Payloads
  BY <1>4, <1>5, OutcomeFacts
<1> HIDE DEF p, payloads
<1>8. \A r \in Some("reject") : out[r] = Reject(p)
  BY <1>5, <1>6, OutcomeFacts
<1> QED BY <1>1, <1>7, <1>8, OutcomeFacts

\* rethrow of the rejections of a region.
LEMMA RejectsStep ==
  ASSUME IndInv, Rejects
  PROVE  IndInv'
<1>9. alone = {} /\ alone' = {} /\ swapped' = swapped
  BY NoneAlone DEF Rejects, native
<1> USE <1>9
<1>0. All("rejects") /\ Types /\ UNCHANGED <<op, native, accepted, tries, calls, said, alone>>
  BY DEF Rejects, IndInv
<1>1. \A r, s \in Ranks :
        /\ pc[r] = "rejects" /\ Solo(r) /\ Stretch(r) = "rejects" /\ phase[r] = phase[s]
        /\ out[r] \in Outcomes
  BY <1>0, Meeting DEF Stretch, Types
<1>2. \A r \in Ranks : out[r].kind # "fail" /\ said[r] = out[r]
  BY <1>1 DEF Solo
<1>3. CASE Some("reject") = {}
  <2>1. \A r \in Ranks : out[r] = Ok
    BY <1>1, <1>2, <1>3, OutcomeFacts DEF Some
  <2>2. NextPhase /\ UNCHANGED out
    BY <1>3 DEF Rejects
  <2> QED BY <1>0, <2>1, <2>2, NextPhaseStep
<1>4. CASE Some("reject") # {} /\ Selected = Fail
  BY <1>0, <1>4, ThrowsStep DEF Rejects
<1>5. CASE Some("reject") # {} /\ Selected # Fail
  <2>1. /\ Selected \in Outcomes /\ Selected.kind = "reject"
        /\ \A r \in Some("reject") : out[r] = Selected
    BY <1>0, <1>5, SelectedFacts
  <2>2. /\ out' = [r \in Ranks |-> Selected] /\ pc' = [r \in Ranks |-> "decode"]
        /\ UNCHANGED <<phase, op, val, txn, committed>>
    BY <1>0, <1>5 DEF Rejects, AllOut, AllTo, native
  <2>3. Types'
    BY <1>0, <2>1, <2>2 DEF Types
  <2>4. \A r \in Ranks : pc'[r] = "decode" /\ Stretch(r)' = "decode" /\ out'[r] = Selected
    BY <2>2 DEF Stretch
  <2>5. \A r \in Ranks : said[r] \in {Ok, Selected}
    BY <1>1, <1>2, <2>1, OutcomeFacts DEF Some
  <2>6. \A r \in Ranks : Solo(r)'
    BY <1>0, <1>1, <2>1, <2>2, <2>4, <2>5 DEF Solo, Faithful
  <2> QED BY <1>0, <1>1, <2>2, <2>3, <2>4, <2>6, CollectiveDone
<1> QED BY <1>3, <1>4, <1>5

\* The consensus on the decoded rejections.
LEMMA DecodedStep ==
  ASSUME IndInv, Decoded
  PROVE  IndInv'
<1>9. alone = {} /\ alone' = {} /\ swapped' = swapped
  BY NoneAlone DEF Decoded, native
<1> USE <1>9
<1>0. /\ All("decoded") /\ Types
      /\ UNCHANGED <<op, phase, val, txn, committed, accepted, tries, calls, said>>
  BY DEF Decoded, IndInv, native
<1>1. \A r, s \in Ranks :
        pc[r] = "decoded" /\ Solo(r) /\ Stretch(r) = "decode" /\ phase[r] = phase[s]
  BY <1>0, Meeting DEF Stretch
<1>2. \A r \in Ranks : out'[r] \in {out[r], Fail} /\ pc'[r] = "unwind"
  BY DEF Decoded, AllTo
<1>3. Types'
  <2>1. out' \in [Ranks -> Outcomes]
    BY <1>0, OutcomeFacts DEF Decoded, Types
  <2> QED BY <1>0, <2>1 DEF Types, Decoded, AllTo
<1>4. \A r \in Ranks : Stretch(r)' = "unwind"
  <2>1. \A r \in Ranks : phase[r] \in 1 .. Len(Phases)
    BY <1>1 DEF Solo
  <2> QED BY <1>0, <1>2, <2>1, CollectiveStepAssumption DEF Stretch
<1>5. \A r \in Ranks : Solo(r)'
  BY <1>0, <1>1, <1>2, <1>4, OutcomeFacts DEF Solo, Faithful
<1> QED BY <1>0, <1>1, <1>3, <1>4, <1>5, CollectiveDone

\* consume_native_evaluation_status.
LEMMA StatusStep ==
  ASSUME IndInv, Status
  PROVE  IndInv'
<1>9. alone = {} /\ alone' = {} /\ swapped' = swapped
  BY NoneAlone DEF Status, native
<1> USE <1>9
<1>0. All("status") /\ Types /\ UNCHANGED <<op, native, accepted, tries, calls, said, alone>>
  BY DEF Status, IndInv
<1>1. \A r, s \in Ranks :
        /\ pc[r] = "status" /\ Solo(r) /\ Stretch(r) = "work" /\ phase[r] = phase[s]
        /\ out[r] \in Outcomes /\ said[r] = out[r]
  <2>1. \A r, s \in Ranks : pc[r] = "status" /\ Solo(r) /\ phase[r] = phase[s]
    BY <1>0, Meeting DEF Stretch
  <2>2. \A r \in Ranks : Stretch(r) = "work"
    BY <2>1 DEF Stretch
  <2>3. \A r \in Ranks : out[r] \in Outcomes
    BY <1>0 DEF Types
  <2>4. \A r \in Ranks : said[r] = out[r]
    BY <2>1 DEF Solo
  <2> QED BY <2>1, <2>2, <2>3, <2>4
<1>2. CASE \E r, s \in Ranks : out[r].kind # out[s].kind
  <2>1. Some("ok") # Ranks
    BY <1>2 DEF Some
  <2>2. Throws
    BY <1>2, <2>1 DEF Status
  <2> QED BY <1>0, <2>2, ThrowsStep
<1>3. CASE Some("ok") = Ranks
  <2>1. \A r \in Ranks : out[r] = Ok
    BY <1>1, <1>3, OutcomeFacts DEF Some
  <2>2. NextPhase /\ UNCHANGED out
    BY <1>3, <2>1 DEF Status
  <2> QED BY <1>0, <2>1, <2>2, NextPhaseStep
<1>4. CASE Some("ok") # Ranks /\ ~\E r, s \in Ranks : out[r].kind # out[s].kind
  <2>1. \A r \in Ranks : out[r].kind # "ok"
    BY <1>4 DEF Some
  <2>2. pc' = [r \in Ranks |-> "unwind"] /\ UNCHANGED <<out, phase, op, val, txn, committed>>
    BY <1>0, <1>4 DEF Status, AllTo, native
  <2>3. Types'
    BY <1>0, <2>2 DEF Types
  <2>4. \A r \in Ranks : pc'[r] = "unwind" /\ Stretch(r)' = "unwind"
    <3>1. \A r \in Ranks : phase[r] \in 1 .. Len(Phases)
      BY <1>1 DEF Solo
    <3> QED BY <2>2, <3>1, CollectiveStepAssumption DEF Stretch
  <2>5. \A r \in Ranks : Solo(r)'
    BY <1>0, <1>1, <2>1, <2>2, <2>4 DEF Solo, Faithful
  <2> QED BY <1>0, <1>1, <2>2, <2>3, <2>4, <2>5, CollectiveDone
<1> QED BY <1>2, <1>3, <1>4

\* _collective_attempt_error.
LEMMA AttemptStep ==
  ASSUME IndInv, Attempt
  PROVE  IndInv'
<1>9. alone' = {} /\ swapped' = swapped
  BY DEF Attempt, native
<1> USE <1>9
<1>0. /\ All("attempt") /\ Types
      /\ UNCHANGED <<phase, val, txn, committed, accepted, tries, calls, said>>
  BY DEF Attempt, IndInv, native
<1>1. \A r \in Ranks : pc[r] = "attempt" /\ Solo(r) /\ out[r] \in Outcomes
  BY <1>0, Meeting DEF Types
<1>2. \A r \in Ranks : Stretch(r) \in {"work", "unwind"}
  BY <1>1 DEF Stretch
<1>3. 0 \in Ranks
  BY CollectiveStepAssumption DEF Ranks
<1>4. Verdict \in Outcomes
  BY <1>1, <1>3, OutcomeFacts DEF Verdict
<1>5. out' = [r \in Ranks |-> Verdict]
  BY DEF Attempt, AllOut
<1>6. CASE Verdict = Ok
  <2>1. \A r \in Ranks : out[r].kind = "ok"
    BY <1>1, <1>3, <1>6, OutcomeFacts DEF Verdict, Some
  <2>2. pc' = [r \in Ranks |-> "stage"] /\ UNCHANGED op
    BY <1>6 DEF Attempt, AllTo
  <2>3. Types'
    BY <1>0, <1>4, <1>5, <2>2 DEF Types
  <2>4. \A r \in Ranks : pc'[r] = "stage" /\ Stretch(r)' = "stage" /\ out'[r] = Ok
    BY <1>5, <1>6, <2>2 DEF Stretch
  <2>5. \A r \in Ranks : Solo(r)'
    BY <1>0, <1>1, <1>2, <2>1, <2>4, OutcomeFacts DEF Solo
  <2> QED BY <1>0, <2>3, <2>4, <2>5, CollectiveDone
<1>7. CASE Verdict # Ok
  <2>1. pc' = [r \in Ranks |-> "control"] /\ op' = [r \in Ranks |-> "rollback"]
    BY <1>7 DEF Attempt, Votes, AllTo
  <2>2. Types'
    BY <1>0, <1>4, <1>5, <2>1 DEF Types
  <2>3. \A r \in Ranks : /\ pc'[r] = "control" /\ op'[r] = "rollback" /\ Stretch(r)' = "vote"
                         /\ out'[r] = Verdict
    BY <1>5, <2>1 DEF Stretch
  <2>4. Verdict.kind = "reject" =>
          \A r \in Ranks : /\ out[r].kind = "reject"
                           /\ out[r].payload.control = Verdict.payload.control
    <3>1. Verdict.kind = "reject" =>
            Some("reject") = Ranks /\ Cardinality(Controls) = 1 /\ Verdict = out[0]
      BY OutcomeFacts DEF Verdict
    <3>2. IsFiniteSet(Controls)
      <4> DEFINE f == [r \in Ranks |-> out[r].payload.control]
      <4>1. Some("reject") \in SUBSET Ranks
        BY DEF Some
      <4>2. IsFiniteSet({f[r] : r \in Some("reject")})
        BY <4>1, ReportsFinite
      <4>3. Controls = {f[r] : r \in Some("reject")}
        BY <4>1 DEF Controls
      <4> QED BY <4>2, <4>3
    <3>3. Cardinality(Controls) = 1 => \E x : Controls = {x}
      BY <3>2, FS_Singleton
    <3> QED BY <1>3, <3>1, <3>3 DEF Controls, Some
  <2>5. Verdict.kind # "ok"
    BY <1>4, <1>7, OutcomeFacts
  <2>6. \A r \in Ranks : Solo(r)'
    <3> SUFFICES ASSUME NEW r \in Ranks PROVE Solo(r)'
      OBVIOUS
    <3>1. Verdict.kind = "reject" =>
            /\ said[r].kind # "fail" /\ val[r] = txn[r]
            /\ said[r].kind = "reject" => said[r].payload.control = Verdict.payload.control
      BY <1>1, <2>4, OutcomeFacts DEF Solo, Faithful
    <3>2. /\ r \notin swapped =>
               IF txn[r] = None THEN val[r] = accepted[r] ELSE txn[r] = accepted[r]
          /\ txn[r] = None => val[r] # Work
      BY <1>1 DEF Solo
    <3> QED BY <1>0, <2>3, <2>5, <3>1, <3>2 DEF Solo
  <2> QED BY <1>0, <2>2, <2>3, <2>6, CollectiveDone
<1> QED BY <1>6, <1>7

\* The gathered outcomes of the effects.
LEMMA EffectGatherStep ==
  ASSUME IndInv, EffectGather
  PROVE  IndInv'
<1>9. alone = {} /\ alone' = {} /\ swapped' = swapped
  BY NoneAlone DEF EffectGather, native
<1> USE <1>9
<1>0. /\ Types /\ UNCHANGED <<phase, val, txn, committed, accepted, tries, calls, said>>
  BY DEF EffectGather, IndInv, native
<1>1. PICK p \in {"staged", "published"} : All(p)
  BY DEF EffectGather
<1>2. \A r \in Ranks : pc[r] = p /\ Solo(r) /\ out[r] \in Outcomes
  BY <1>0, <1>1, Meeting DEF Types
<1>3. \A r \in Ranks : Stretch(r) \in {"stage", "publish"}
  BY <1>2 DEF Stretch
<1>4. PICK o \in {"rollback", "commit", "finalize"} :
        /\ pc' = [r \in Ranks |-> "control"] /\ op' = [r \in Ranks |-> o]
        /\ o = "rollback" => out' = [r \in Ranks |-> Fail]
        /\ o # "rollback" => UNCHANGED out /\ Some("fail") = {}
  BY DEF EffectGather, Votes, AllTo, AllOut
<1>5. Types'
  <2>1. out' \in [Ranks -> Outcomes]
    BY <1>0, <1>4, OutcomeFacts DEF Types
  <2> QED BY <1>0, <1>4, <2>1 DEF Types
<1>6. \A r \in Ranks : /\ pc'[r] = "control" /\ op'[r] = o /\ Stretch(r)' = "vote"
                       /\ o = "rollback" => out'[r] = Fail
                       /\ o # "rollback" => out'[r] = Ok
  <2>1. o # "rollback" => \A r \in Ranks : out[r] = Ok
    BY <1>2, <1>3, <1>4, OutcomeFacts DEF Some, Solo
  <2> QED BY <1>4, <2>1 DEF Stretch
<1>7. \A r \in Ranks : Solo(r)'
  BY <1>0, <1>2, <1>3, <1>6, OutcomeFacts DEF Solo
<1>8. \A r, s \in Ranks : op'[r] = op'[s] /\ out'[r] = out'[s]
  BY <1>6
<1> QED BY <1>0, <1>1, <1>5, <1>6, <1>7, <1>8, CollectiveDone
-----------------------------------------------------------------------------
(***************************************************************************)
(* All steps                                                               *)
(***************************************************************************)

\* All ranks are idle on the first state.
LEMMA IndInit == Init => IndInv
<1> SUFFICES ASSUME Init PROVE IndInv
  OBVIOUS
<1>1. Types
  BY OutcomeFacts DEF Init, Types
<1>2. \A r \in Ranks : Stretch(r) = "done" /\ pc[r] = "idle"
  BY DEF Init, Stretch
<1>3. \A r \in Ranks : Solo(r)
  BY <1>2, SpecialValues DEF Init, Solo
<1>4. \A r, s \in Ranks : Pair(r, s)
  BY <1>2 DEF Init, Pair, Apart
<1> QED BY <1>1, <1>3, <1>4 DEF IndInv

\* The invariant is inductive.
LEMMA IndStep ==
  ASSUME IndInv, [Next]_vars
  PROVE  IndInv'
<1>1. CASE Collective
  BY <1>1, ControlStep, SnappedStep, ErrorsStep, RejectsStep, DecodedStep, StatusStep,
     AttemptStep, EffectGatherStep DEF Collective
<1>2. ASSUME NEW r \in Ranks, Local(r) PROVE IndInv'
  BY <1>2, CallStep, SnapshotStep, EnterStep, RaiseStep, OperateStep, StepReturnsStep,
     DecodeStep, UnwindStep, ReturnStep, EffectStep, FinalizeStep, RestoreStep, LeaveStep DEF Local
<1>3. CASE UNCHANGED vars
  <2> USE <1>3 DEF vars, native
  <2>1. Types'
    BY DEF IndInv, Types
  <2>2. \A r \in Ranks : Same(r)
    BY DEF Same
  <2> QED BY <2>1, <2>2, SameFacts DEF IndInv
<1> QED BY <1>1, <1>2, <1>3 DEF Next

-----------------------------------------------------------------------------
(***************************************************************************)
(* The fence                                                               *)
(***************************************************************************)

\* A rank whose restoration raised keeps its transaction and gets no further
\* than the votes that the depth refuses, while there is a rank whose
\* restoration did not raise and which has closed its own.
Fence(r, s) ==
  /\ (r \in swapped \/ pc[r] = "restore") /\ s \notin swapped =>
       pc[s] = "restore" \/ txn[s] = None
  /\ r \in swapped /\ s \notin swapped =>
       /\ txn[r] # None
       /\ pc[r] \in {"idle", "leave"} \/ (pc[r] = "control" /\ op[r] \in {"begin", "rollback"})

FenceInv == \A r, s \in Ranks : Fence(r, s)

\* No restoration has raised yet.
LEMMA FenceInit == Init => FenceInv
BY DEF Init, FenceInv, Fence

\* A step of a rank that touches neither its transaction nor its snapshot.
LEMMA FenceQuiet ==
  ASSUME FenceInv, NEW q \in Ranks, \A s \in Ranks \ {q} : pc'[s] = pc[s] /\ op'[s] = op[s],
         UNCHANGED <<txn, swapped>>, pc[q] # "restore", pc'[q] # "restore",
         \/ pc[q] \notin {"idle", "leave", "control"}
         \/ pc'[q] = "idle"
         \/ pc'[q] = "control" /\ op'[q] = "begin"
  PROVE  FenceInv'
<1> SUFFICES ASSUME NEW r \in Ranks, NEW s \in Ranks PROVE Fence(r, s)'
  BY DEF FenceInv
<1>1. Fence(r, s)
  BY DEF FenceInv
<1> QED BY <1>1 DEF Fence

\* A restoration: the rank closes its transaction, or its snapshot is swapped.
LEMMA FenceRestore ==
  ASSUME IndInv, FenceInv, NEW q \in Ranks, Restore(q)
  PROVE  FenceInv'
<1>1. PICK fails \in BOOLEAN :
        /\ swapped' = IF fails THEN swapped \cup {q} ELSE swapped
        /\ txn' = [txn EXCEPT ![q] = IF fails THEN @ ELSE None]
  BY DEF Restore
<1>2. /\ pc[q] = "restore" /\ pc'[q] = "leave" /\ txn[q] # None
      /\ \A s \in Ranks \ {q} : pc'[s] = pc[s] /\ op'[s] = op[s] /\ txn'[s] = txn[s]
      /\ op'[q] = op[q] /\ txn'[q] = IF fails THEN txn[q] ELSE None
  BY <1>1 DEF IndInv, Types, Solo, Restore, To
<1> SUFFICES ASSUME NEW r \in Ranks, NEW s \in Ranks PROVE Fence(r, s)'
  BY DEF FenceInv
<1>3. Fence(r, s) /\ Fence(q, s) /\ Fence(r, q) /\ Fence(s, q)
  BY DEF FenceInv
<1>4. CASE fails
  BY <1>1, <1>2, <1>3, <1>4 DEF Fence
<1>5. CASE ~fails
  BY <1>1, <1>2, <1>3, <1>5 DEF Fence
<1> QED BY <1>4, <1>5

\* A rank closes the transaction of a step that all ranks accept.
LEMMA FenceFinalize ==
  ASSUME IndInv, FenceInv, NEW q \in Ranks, Finalize(q)
  PROVE  FenceInv'
<1>1. /\ pc[q] = "finalize" /\ pc'[q] = "idle" /\ txn'[q] = None /\ swapped' = swapped
      /\ \A s \in Ranks \ {q} : pc'[s] = pc[s] /\ op'[s] = op[s] /\ txn'[s] = txn[s]
  BY DEF IndInv, Types, Finalize, To
<1> SUFFICES ASSUME NEW r \in Ranks, NEW s \in Ranks PROVE Fence(r, s)'
  BY DEF FenceInv
<1>2. Fence(r, s) /\ Fence(q, s)
  BY DEF FenceInv
<1> QED BY <1>1, <1>2 DEF Fence

\* Past the votes of the transaction either no snapshot is swapped or all are.
LEMMA FenceCollective ==
  ASSUME FenceInv, NEW p, All(p), p \notin {"idle", "leave", "control"},
         swapped' = swapped, \A r \in Ranks : pc'[r] # "restore"
  PROVE  FenceInv'
<1> SUFFICES ASSUME NEW r \in Ranks, NEW s \in Ranks PROVE Fence(r, s)'
  BY DEF FenceInv
<1>1. Fence(r, s) /\ pc[r] = p
  BY DEF FenceInv, All
<1> QED BY <1>1 DEF Fence

\* The votes: an operation is admitted at the same depth on every rank.
LEMMA FenceControl ==
  ASSUME IndInv, FenceInv, Control
  PROVE  FenceInv'
<1>1. /\ All("control") /\ swapped' = swapped /\ txn' = txn
      /\ \A r, s \in Ranks : op[r] = op[s]
  BY Meeting DEF Control
<1> SUFFICES ASSUME NEW r \in Ranks, NEW s \in Ranks PROVE Fence(r, s)'
  BY DEF FenceInv
<1>2. Fence(r, s) /\ Fence(s, r) /\ pc[r] = "control" /\ pc[s] = "control" /\ op[r] = op[s]
  BY <1>1 DEF FenceInv, All
<1>3. op[r] \in {"begin", "commit", "finalize", "rollback"}
  BY <1>2 DEF IndInv, Solo, Stretch
<1>4. CASE ~Agreed
  <2>1. /\ pc'[r] = (IF op[r] = "rollback" THEN "leave" ELSE "control") /\ op'[r] = "rollback"
        /\ pc'[s] # "restore"
    BY <1>2, <1>4 DEF Control
  <2> QED BY <1>1, <1>2, <2>1 DEF Fence
<1>5. CASE Agreed
  <2>1. (txn[r] = None <=> txn[s] = None) /\ (op[r] = "rollback" => txn[s] # None)
    BY <1>2, <1>5 DEF Agreed, Admits
  <2>2. (r \in swapped <=> s \in swapped)
    BY <1>2, <2>1 DEF Fence
  <2>3. (pc'[r] = "restore" <=> op[r] = "rollback") /\ (pc'[s] = "restore" <=> op[s] = "rollback")
    BY <1>2, <1>3, <1>5 DEF Control
  <2> QED BY <1>1, <1>2, <2>2, <2>3 DEF Fence
<1> QED BY <1>4, <1>5

\* The fence stands.
LEMMA FenceStep ==
  ASSUME IndInv, FenceInv, [Next]_vars
  PROVE  FenceInv'
<1> USE DEF native
<1>1. CASE Collective
  <2>1. CASE Control
    BY <2>1, FenceControl
  <2>2. CASE Snapped
    BY <2>2, FenceCollective DEF Snapped, Votes, AllTo
  <2>3. CASE Errors
    BY <2>3, FenceCollective DEF Errors, Throws, AllTo
  <2>4. CASE Rejects
    <3>1. \A r \in Ranks : pc'[r] \in {"operate", "unwind", "decode"}
      BY <2>4 DEF Rejects, NextPhase, Throws, AllTo
    <3> QED BY <2>4, <3>1, FenceCollective DEF Rejects
  <2>5. CASE Decoded
    BY <2>5, FenceCollective DEF Decoded, AllTo
  <2>6. CASE Status
    <3>1. \A r \in Ranks : pc'[r] \in {"operate", "unwind"}
      BY <2>6 DEF Status, NextPhase, Throws, AllTo
    <3> QED BY <2>6, <3>1, FenceCollective DEF Status
  <2>7. CASE Attempt
    BY <2>7, FenceCollective DEF Attempt, Votes, AllTo
  <2>8. CASE EffectGather
    BY <2>8, FenceCollective DEF EffectGather, Votes, AllTo
  <2> QED BY <1>1, <2>1, <2>2, <2>3, <2>4, <2>5, <2>6, <2>7, <2>8 DEF Collective
<1>2. ASSUME NEW q \in Ranks, Local(q) PROVE FenceInv'
  <2>0. DOMAIN op = Ranks /\ DOMAIN pc = Ranks
    BY DEF IndInv, Types
  <2>1. CASE Call(q) \/ Leave(q)
    <3>1. /\ pc[q] # "restore" /\ UNCHANGED <<txn, swapped>>
          /\ pc'[q] = "idle" \/ (pc'[q] = "control" /\ op'[q] = "begin")
          /\ \A s \in Ranks \ {q} : pc'[s] = pc[s] /\ op'[s] = op[s]
      BY <2>0, <2>1 DEF Call, Leave, To
    <3> QED BY <3>1, FenceQuiet
  <2>2. CASE Snapshot(q) \/ Enter(q) \/ Raise(q) \/ Operate(q) \/ StepReturns(q) \/ Decode(q)
             \/ Unwind(q) \/ Return(q) \/ Effect(q)
    <3>1. /\ pc[q] \in {"snapshot", "enter", "operate", "decode", "unwind", "return", "stage",
                         "publish"}
          /\ UNCHANGED <<txn, swapped, op>>
      BY <2>2 DEF Snapshot, Enter, Raise, Operate, StepReturns, Decode, Unwind, Return, Effect
    <3>2. PICK x \in {"snapped", "return", "operate", "unwind", "errors", "status", "decoded",
                      "attempt", "staged", "published"} : pc' = [pc EXCEPT ![q] = x]
      BY <2>2 DEF Snapshot, Enter, Raise, Operate, StepReturns, Decode, Unwind, Return, Effect, To
    <3>3. pc'[q] = x /\ \A s \in Ranks \ {q} : pc'[s] = pc[s] /\ op'[s] = op[s]
      BY <2>0, <3>1, <3>2
    <3> QED BY <3>1, <3>3, FenceQuiet
  <2>3. CASE Finalize(q) \/ Restore(q)
    BY <2>3, FenceFinalize, FenceRestore
  <2> QED BY <1>2, <2>1, <2>2, <2>3 DEF Local
<1>3. CASE UNCHANGED vars
  BY <1>3 DEF vars, FenceInv, Fence
<1> QED BY <1>1, <1>2, <1>3 DEF Next
-----------------------------------------------------------------------------
(***************************************************************************)
(* The theorems                                                            *)
(***************************************************************************)

\* Only a raise in System::step outside a phase sends a rank to another
\* collective than its peers.  Whatever number of ranks there is, those that have
\* not raised so meet in the same vote for the same operation, in the same
\* attempt of the same step and with the same outcome, and so do those that have.
THEOREM RanksMeet == Spec => []CollectivesMatch
<1>1. IndInv => CollectivesMatch
  <2> SUFFICES ASSUME IndInv, \A r \in Ranks : Waits(r), NEW r \in Ranks, NEW s \in Ranks,
                      r \in alone <=> s \in alone
               PROVE  /\ pc[r] = pc[s]
                      /\ pc[r] = "control" =>
                           /\ op[r] = op[s] /\ out[r] = out[s]
                           /\ accepted[r] = accepted[s] /\ tries[r] = tries[s]
                           /\ calls[r] = calls[s]
    BY DEF CollectivesMatch
  <2>1. Types /\ Solo(r) /\ Solo(s) /\ Pair(r, s) /\ Waits(r) /\ Waits(s)
    BY DEF IndInv
  <2>2. Stretch(r) = Stretch(s)
    BY <2>1, StretchInverse DEF Pair, Apart, Waits
  <2>3. pc[r] = pc[s]
    <3>1. CASE Stretch(r) = "work"
      <4>1. /\ pc[r] \in {"errors", "status", "attempt"}
            /\ pc[s] \in {"errors", "status", "attempt"}
            /\ phase[r] = phase[s]
        BY <2>1, <2>2, <3>1, StretchInverse DEF Waits, Pair
      <4>2. \A q \in {r, s} :
              /\ pc[q] = "attempt" => phase[q] > Len(Phases)
              /\ pc[q] \in {"errors", "status"} => phase[q] \in 1 .. Len(Phases)
        BY <2>1, <2>2, <3>1, StretchInverse DEF Solo
      <4>3. Len(Phases) \in Nat /\ phase[r] \in Nat
        BY <2>1, CollectiveStepAssumption DEF Types
      <4>4. pc[r] = "attempt" <=> pc[s] = "attempt"
        BY <4>1, <4>2, <4>3
      <4>5. \A q \in {r, s} : /\ pc[q] = "errors" => Phases[phase[q]] = "phase"
                              /\ pc[q] = "status" => Phases[phase[q]] = "status"
        BY <2>1 DEF Solo
      <4> QED BY <4>1, <4>4, <4>5
    <3>2. CASE Stretch(r) # "work"
      BY <2>1, <2>2, <3>2, StretchFacts DEF Waits
    <3> QED BY <3>1, <3>2
  <2>4. pc[r] = "control" => op[r] = op[s] /\ out[r] = out[s]
    <3>1. CASE pc[r] = "control" /\ op[r] = "begin"
      BY <2>1, <2>2, <2>3, <3>1, StretchFacts DEF Solo
    <3>2. CASE pc[r] = "control" /\ op[r] # "begin"
      BY <2>1, <2>2, <2>3, <3>2, StretchFacts DEF Pair
    <3> QED BY <3>1, <3>2
  <2> QED BY <2>1, <2>2, <2>3, <2>4 DEF Pair
<1> QED BY <1>1, IndInit, IndStep, PTL DEF Spec

\* What a controller retries was a rejection on every rank, for one reason, and
\* has left every rank in the state in which its transaction began.
THEOREM RetriesAreClean == Spec => []RetryIsClean
<1>1. IndInv => RetryIsClean
  <2> SUFFICES ASSUME IndInv, NEW r \in Ranks, pc[r] = "control", out[r].kind = "reject",
                      NEW s \in Ranks
               PROVE  /\ said[s].kind # "fail"
                      /\ said[s].kind = "reject" =>
                           said[s].payload.control = out[r].payload.control
                      /\ val[s] = txn[s]
    BY DEF RetryIsClean
  <2>1. Types /\ Solo(r) /\ Solo(s) /\ Pair(r, s) /\ Pair(s, r)
    BY DEF IndInv
  <2>2. Stretch(r) = "vote" /\ op[r] = "rollback"
    BY <2>1, StretchFacts, OutcomeFacts DEF Solo
  <2>3. Stretch(s) = "vote" /\ op[s] = "rollback" /\ out[s] = out[r]
    BY <2>1, <2>2 DEF Pair, Apart, Solo
  <2> QED BY <2>1, <2>3 DEF Solo
<1> QED BY <1>1, IndInit, IndStep, PTL DEF Spec

\* A rank whose restoration raised keeps every other rank from accepting a step,
\* unless the restoration raised on every rank.
THEOREM TornStaysFenced == Spec => []TornIsFenced
<1>1. IndInv /\ FenceInv => TornIsFenced
  <2> SUFFICES ASSUME IndInv, FenceInv, NEW r \in Ranks, pc[r] = "finalize", NEW s \in Ranks
               PROVE  \/ /\ pc[s] = "finalize" /\ val[s] = Work
                         /\ accepted[s] = accepted[r]
                         /\ txn[s] = accepted[s] \/ swapped = Ranks
                      \/ accepted[s] = accepted[r] + 1
    BY DEF TornIsFenced
  <2>1. Types /\ Solo(r) /\ Solo(s) /\ Pair(r, s) /\ Pair(s, r) /\ Stretch(r) = "finalize"
    BY StretchFacts DEF IndInv
  <2>2. ~Apart(r, s)
    BY <2>1 DEF Pair, Apart, Solo
  <2>3. CASE Stretch(s) = "finalize"
    <3>1. pc[s] = "finalize" /\ val[s] = Work /\ accepted[s] = accepted[r] /\ txn[s] # None
      BY <2>1, <2>3, StretchInverse DEF Solo, Pair
    <3>2. s \notin swapped => txn[s] = accepted[s]
      BY <2>1, <3>1 DEF Solo
    <3>3. s \in swapped => swapped = Ranks
      BY <2>1, <3>1 DEF FenceInv, Fence, Types
    <3> QED BY <3>1, <3>2, <3>3
  <2>4. CASE Stretch(s) = "done"
    BY <2>1, <2>4 DEF Pair
  <2> QED BY <2>1, <2>2, <2>3, <2>4 DEF Pair
<1> QED BY <1>1, IndInit, IndStep, FenceInit, FenceStep, PTL DEF Spec
=============================================================================
