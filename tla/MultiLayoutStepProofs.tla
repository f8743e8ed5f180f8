----------------------- MODULE MultiLayoutStepProofs ------------------------
(***************************************************************************)
(* Proofs about MultiLayoutStep: for any number of layouts, mappings,      *)
(* Programs, substeps, steps, retries and failing native operations.       *)
(***************************************************************************)
EXTENDS MultiLayoutStep, FiniteSetTheorems, TLAPS

State == [step : Nat, mapped : SUBSET (Nat \X Nat), regions : Nat]
Session == [active : Nat \cup {None}, captured : Nat, applied : BOOLEAN,
            last : Nat, copy : State \cup {None}]

\* The statements of a running attempt, and those of its passes.
Passing == {"pass", "after", "regions", "ports"}
Working == Passing \cup {"script", "advanced", "effect", "publish"}
Outside == {"construct", "idle", "refused"}
Undoing == {"undo", "unwind", "restore", "rollback"}
Places == Outside \cup Working \cup Undoing \cup {"begin", "attempt", "reject", "again"}

Len1(l) == Len(Ports(l))
Port(l, i) == Ports(l)[i]
Peers(r) == {Route[r].source, Route[r].target}

TypeInv ==
  /\ plan \in Plans /\ pc \in Places
  /\ steps \in Nat /\ generation \in Nat /\ attempt \in Nat
  /\ raised \in {"none", "reject", "fail"}
  /\ val \in [Layouts -> State \cup {Torn}] /\ txn \in [Layouts -> State \cup {None}]
  /\ port \in [Layouts -> Routes \cup {None}]
  /\ waiting \in [Layouts -> Routes \cup {None, Over}]
  /\ session \in [Routes -> Session] /\ counts \in [Mappings -> Nat]
  /\ active \in Nat \cup {None} /\ saved \in [Mappings -> Nat] \cup {None}
  /\ receipts \in [Routes -> Nat] /\ fires \in Nat
  /\ captured \subseteq Routes /\ after \subseteq After /\ progress \in BOOLEAN

\* The schedule lists an event after the events it needs, and all events once it is
\* complete; the steps it lists are ordered by the after-source-step mappings.
Feeds(a, b) == \E r \in After : Route[r].source = a /\ Route[r].target = b
Earliest(S) == \E b \in S : \A a \in S : ~Feeds(a, b)
Stepped == {l \in Layouts : <<"step", l>> \in Emitted}
Upto(n) == UNION {schedule[m] : m \in 1 .. (n - 1)}
SchedInv ==
  /\ schedule \in Seq(SUBSET Events)
  /\ \A n \in 1 .. Len(schedule) : \A e \in schedule[n] :
       Needs(e) \subseteq Upto(n) /\ e \notin Upto(n)
  /\ \A S \in SUBSET Stepped : S # {} => Earliest(S)
  /\ pc \notin {"construct", "refused"} /\ plan.physical => Events \subseteq Emitted
  /\ pc = "refused" => Events # Emitted /\ Ready = {}

\* A layout against the accepted step: restored, torn with its snapshot kept, inside
\* a transaction, or just inside one.
Clean(l) == val[l] = Base(steps) /\ txn[l] = None /\ port[l] = None
Broken(l) == val[l] = Torn /\ txn[l] = Base(steps) /\ l \in swapped
Rests(l) == Clean(l) \/ Broken(l)
Open(l) == txn[l] = Base(steps)
Fresh(l) == Open(l) /\ val[l] = Base(steps) /\ port[l] = None
Alive(l) == Open(l) /\ val[l] # Torn /\ val[l].step = steps

UpClosed == \A l \in todo : \A k \in Layouts : l < k => k \in todo

LayoutInv ==
  /\ pc \in Outside => \A l \in Layouts : Rests(l)
  /\ pc = "begin" => /\ todo \subseteq Layouts /\ UpClosed
                     /\ \A l \in Layouts : IF l \in todo THEN Rests(l) ELSE Fresh(l)
  /\ pc = "attempt" => \A l \in Layouts : Fresh(l)
  /\ pc \in Working => \A l \in Layouts : Alive(l)
  /\ pc = "reject" => \A l \in Layouts : Open(l)
  /\ pc = "again" => /\ todo \subseteq Layouts /\ UpClosed
                     /\ \A l \in Layouts : IF l \in todo THEN Clean(l) ELSE Fresh(l)
  /\ pc \in {"undo", "unwind", "restore"} =>
       /\ todo \subseteq Layouts
       /\ \A l \in Layouts : IF l \in todo THEN Open(l) ELSE Rests(l)
  /\ pc = "restore" /\ raised # "fail" => \A l \in Layouts \ todo : Clean(l)
  /\ pc = "rollback" =>
       /\ todo \subseteq Layouts
       /\ \A l \in Layouts : Rests(l) \/ (l \in todo /\ Open(l))

\* All sessions are in the transaction of the executor, and unused before step().
Unused(r) == session[r].captured = 0 /\ ~session[r].applied
SessionInv ==
  /\ \A r \in Routes : session[r].active = active
  /\ pc \in Outside \cup {"begin", "undo"} => active = None
  /\ pc \notin Outside \cup {"begin", "undo", "rollback"} => active # None
  /\ pc = "attempt" \/ active = None => \A r \in Routes : Unused(r)
  /\ pc = "script" => attempt # 0

\* The evaluations of the accepted steps, the counters, and the copy of them that a
\* rollback puts back.
Total(m) == fires * Evaluations(m, TRUE) + (steps - fires) * Evaluations(m, FALSE)
CountInv ==
  /\ pc \notin {"effect", "publish", "rollback"} => \A m \in Mappings : counts[m] = Total(m)
  /\ pc \in {"effect", "publish"} =>
       \A m \in Mappings : counts[m] = Total(m) + Evaluations(m, CadenceDue)
  /\ pc \in Outside => saved = None
  /\ pc \notin Outside \cup {"rollback"} => saved # None
  /\ saved # None => \A m \in Mappings : saved[m] = Total(m)
  /\ pc = "rollback" /\ saved = None => \A m \in Mappings : counts[m] = Total(m)

\* What a session copied is the source at the declared point.
CopyOK(r) ==
  /\ r \in Accepted => session[r].copy = Base(steps)
  /\ r \in After => Complete(session[r].copy, Route[r].source)
  /\ r \in Stage => Port(Route[r].source, session[r].copy.regions) = <<r, receipts[r]>>
CopyInv == \A r \in Routes : session[r].captured # 0 \/ session[r].applied => CopyOK(r)

\* No target has run past a mapping it needs.
NeedInv ==
  \A l \in Layouts : \A x \in Meetings(CadenceDue) :
    x[1] \in Into(l) /\ RanPast(x, l) => x \in val[l].mapped

\* The operations done are those no operation left comes before, and their effects.
ScriptInv ==
  pc = "script" =>
    /\ todo \subseteq Script
    /\ \A a \in Script, b \in todo : Earlier(b, a) => a \in todo
    /\ \A op \in Script : op[2] = "apply" =>
         receipts[op[3]] = IF op \in todo THEN 0 ELSE 1
    /\ \A op \in Script : op[2] = "apply" /\ op \notin todo =>
         <<op[3], 1>> \in val[Route[op[3]].target].mapped
    /\ \A op \in Script : op[2] = "step" =>
         val[op[3]].regions = IF op \in todo THEN 0 ELSE 1
    /\ (\A op \in Script \ todo : op[2] = "capture") =>
         \A l \in Layouts : val[l] = Base(steps)
    /\ Stage # {} => /\ \A l \in Layouts : val[l].regions = 0
                     /\ \A r \in Stage \cup After : receipts[r] = 0
    /\ \A l \in Layouts : waiting[l] = None /\ port[l] = None
    /\ after = After /\ progress

\* A meeting that has a receipt, and a Program whose first k ports are behind it.
Met(x) == x[2] <= receipts[x[1]]
Passed(l, k) ==
  \A i \in 1 .. k : /\ Met(Port(l, i))
                    /\ Port(l, i)[1] \in Into(l) => Port(l, i) \in val[l].mapped

\* Where a Program stands: runnable, suspended at a port, or complete.
Stands(l) ==
  LET n == val[l].regions IN
    \/ waiting[l] = None /\ port[l] = None /\ n <= Len1(l) /\ Passed(l, n)
    \/ /\ n \in 1 .. Len1(l) /\ waiting[l] = Port(l, n)[1] /\ port[l] = Port(l, n)[1]
       /\ Port(l, n)[2] = receipts[Port(l, n)[1]] + 1 /\ Passed(l, n - 1)
    \/ waiting[l] = Over /\ port[l] = None /\ n = Len1(l) + 1 /\ Passed(l, Len1(l))

Done == {x \in Regions : x[2] <= val[x[1]].regions}
Least(S) == \E b \in S : \A a \in S : ~Follows(a, b)

PassInv ==
  pc \in Passing =>
    /\ Stage # {}
    /\ \A l \in Layouts : Stands(l)
    /\ \A r \in Stage : \A k \in 1 .. receipts[r] : \A l \in Peers(r) :
         \E i \in 1 .. Len1(l) : Port(l, i) = <<r, k>> /\ i <= val[l].regions
    /\ \A r \in Accepted : receipts[r] = 1 /\ <<r, 1>> \in val[Route[r].target].mapped
    /\ \A r \in After \ after : /\ receipts[r] = 1 /\ <<r, 1>> \in val[Route[r].target].mapped
                                /\ waiting[Route[r].source] = Over
    /\ \A r \in after : receipts[r] = 0 /\ val[Route[r].target].regions = 0
    /\ \A a \in Regions, b \in Done : Follows(a, b) => a \in Done
    /\ \A S \in SUBSET Done : S # {} => Least(S)

\* What the loops of a pass have left, exactly while the pass has done nothing.
Completed == {r \in after : waiting[Route[r].source] = Over}
Runnable == {l \in Layouts \ Blocked : waiting[l] = None}
Matched == {r \in Stage : waiting[Route[r].source] = r /\ waiting[Route[r].target] = r}
LoopInv ==
  /\ pc = "after" => todo \subseteq Completed /\ (progress \/ todo = Completed)
  /\ pc = "regions" => todo \subseteq Runnable
                         /\ (progress \/ (todo = Runnable /\ Completed = {}))
  /\ pc = "ports" => todo \subseteq Matched
                       /\ (progress \/ (todo = Matched /\ Completed = {} /\ Runnable = {}))
  /\ pc = "pass" /\ ~progress => Completed = {} /\ Runnable = {} /\ Matched = {}

\* What a completed attempt has established.
EndInv ==
  /\ pc = "advanced" => Executable /\ Counted = Meetings(CadenceDue)
  /\ pc \in {"advanced", "effect", "publish"} => \A l \in Layouts : port[l] = None

IndInv ==
  /\ TypeInv /\ SchedInv /\ LayoutInv /\ SessionInv /\ CountInv /\ CopyInv
  /\ NeedInv /\ ScriptInv /\ PassInv /\ LoopInv /\ EndInv

-----------------------------------------------------------------------------
(* What the plan of an instance guarantees.                                *)

PlanOK ==
  /\ Routes \subseteq Nat \ {0}
  /\ \A r \in Routes : Route[r].source \in Layouts /\ Route[r].target \in Layouts
  /\ \A r \in Routes : r \in Stage \/ r \in Accepted \/ r \in After
  /\ Stage \subseteq Routes /\ Accepted \subseteq Routes /\ After \subseteq Routes
  /\ \A r \in Stage : r \notin Accepted /\ r \notin After
  /\ \A r \in Accepted : r \notin After
  /\ \A l \in Layouts : Into(l) \subseteq Routes
  /\ \A l \in Layouts : Len1(l) \in Nat
  /\ \A l \in Layouts : \A i \in 1 .. Len1(l) :
       /\ Port(l, i)[1] \in Stage /\ l \in Peers(Port(l, i)[1])
       /\ Port(l, i)[2] \in Nat \ {0} /\ Port(l, i) = <<Port(l, i)[1], Port(l, i)[2]>>
       /\ Port(l, i)[2] > 1 =>
            \E j \in 1 .. (i - 1) : Port(l, j) = <<Port(l, i)[1], Port(l, i)[2] - 1>>
  /\ \A l \in Layouts : \A i, j \in 1 .. Len1(l) : Port(l, i) = Port(l, j) => i = j
  /\ After # {} => plan.physical
  /\ \A due \in BOOLEAN : \A x \in Meetings(due) :
       /\ x[1] \in Routes /\ x[2] \in Nat /\ x = <<x[1], x[2]>>
       /\ x[1] \notin Stage => x[2] = 1
  /\ \A x : x \in Meetings(CadenceDue) <=>
       \/ \E r \in Routes \ Stage : x = <<r, 1>>
       \/ \E l \in Layouts : \E i \in 1 .. Len1(l) : x = Port(l, i)
  /\ None \notin Nat /\ None # Over /\ Over \notin Routes /\ None \notin Routes
  /\ None \notin [Mappings -> Nat]

\* The ports of the Programs as the assumption on plans gives them.
LEMMA ProgramFacts ==
  ASSUME NEW p \in Plans, p = plan, NEW l \in Layouts
  PROVE  /\ p.program[l] \in Seq(Routes \X (Nat \ {0}))
         /\ \A i \in 1 .. Len(p.program[l]) :
              LET x == p.program[l][i] IN
                /\ x[1] \in Stage /\ l \in Peers(x[1])
                /\ x[2] \in Nat \ {0} /\ x = <<x[1], x[2]>>
                /\ x[2] > 1 => \E j \in 1 .. (i - 1) : p.program[l][j] = <<x[1], x[2] - 1>>
         /\ \A i, j \in 1 .. Len(p.program[l]) : p.program[l][i] = p.program[l][j] => i = j
<1> DEFINE q == p.program[l]
<1>1. q \in Seq(Routes \X (Nat \ {0}))
  <2> DEFINE U == Seq((DOMAIN p.routes) \X (Nat \ {0}))
  <2>1. p.program \in [Layouts -> U]
    BY PlansAssumption
  <2>2. p.program[l] \in U
    <3> HIDE DEF U
    <3> QED
      BY <2>1
  <2> QED
    BY <2>2 DEF Routes
<1>2. \A i \in DOMAIN q :
        /\ p.routes[q[i][1]].sync = "stage"
        /\ l \in {p.routes[q[i][1]].source, p.routes[q[i][1]].target}
        /\ q[i][2] > 1 => \E j \in 1 .. (i - 1) : q[j] = <<q[i][1], q[i][2] - 1>>
        /\ \A j \in 1 .. (i - 1) : q[j] # <<q[i][1], q[i][2]>>
  BY PlansAssumption
<1> HIDE DEF q
<1> DEFINE T == Routes \X (Nat \ {0})
<1>3. Len(q) \in Nat /\ DOMAIN q = 1 .. Len(q) /\ \A i \in 1 .. Len(q) : q[i] \in T
  <2>1. q \in Seq(T)
    BY <1>1
  <2> HIDE DEF T
  <2> QED
    BY <2>1
<1>4. \A i \in 1 .. Len(q) : q[i][1] \in Routes /\ q[i][2] \in Nat \ {0} /\ q[i] = <<q[i][1], q[i][2]>>
  BY <1>3
<1>5. \A i \in 1 .. Len(q) : q[i][1] \in Stage /\ l \in Peers(q[i][1])
  BY <1>2, <1>3, <1>4 DEF Stage, Peers, Route
<1>6. ASSUME NEW i \in 1 .. Len(q), NEW j \in 1 .. Len(q), q[i] = q[j]
      PROVE  i = j
  <2>1. ~(j < i)
    <3> SUFFICES ASSUME j < i PROVE FALSE
      OBVIOUS
    <3>1. j \in 1 .. (i - 1) /\ i \in DOMAIN q
      BY <1>3
    <3> QED
      BY <1>2, <1>4, <1>6, <3>1
  <2>2. ~(i < j)
    <3> SUFFICES ASSUME i < j PROVE FALSE
      OBVIOUS
    <3>1. i \in 1 .. (j - 1) /\ j \in DOMAIN q
      BY <1>3
    <3> QED
      BY <1>2, <1>4, <1>6, <3>1
  <2> QED
    BY <1>3, <2>1, <2>2
<1> USE DEF q
<1> QED
  BY <1>1, <1>2, <1>3, <1>4, <1>5, <1>6

\* The ports of this step are those of the Program, or none.
LEMMA PortFacts ==
  ASSUME plan \in Plans, NEW l \in Layouts
  PROVE  /\ Len1(l) \in Nat
         /\ CadenceDue => Len1(l) = Len(plan.program[l]) /\ \A i : Port(l, i) = plan.program[l][i]
         /\ ~CadenceDue => Len1(l) = 0
<1>1. PICK p \in Plans : p = plan
  OBVIOUS
<1>2. Len(p.program[l]) \in Nat
  BY <1>1, ProgramFacts
<1> QED
  BY <1>1, <1>2 DEF Len1, Port, Ports

\* The assumption on plans, restated with the names of the specification.
LEMMA PlanFacts ==
  ASSUME plan \in Plans
  PROVE  PlanOK
<1>1. PICK p \in Plans : p = plan
  OBVIOUS
<1> DEFINE T == [source : Layouts, target : Layouts, map : Nat, sync : {"before", "after", "stage"}]
<1>2. p.routes \in Seq(T)
  BY PlansAssumption
<1>3. \A r \in DOMAIN p.routes : p.routes[r].sync = "after" => p.physical
  BY PlansAssumption
<1>4. Routes = 1 .. Len(p.routes) /\ Len(p.routes) \in Nat
  BY <1>1, <1>2 DEF Routes
<1>6. \A r \in Routes : p.routes[r] \in T
  <2> HIDE DEF T
  <2>2. \A r \in 1 .. Len(p.routes) : p.routes[r] \in T
    BY <1>2
  <2> QED
    BY <1>4, <2>2
<1>8. \A r \in Routes : Route[r].source \in Layouts /\ Route[r].target \in Layouts
  BY <1>1, <1>6 DEF Route
<1>9. \A r \in Routes : r \in Stage \/ r \in Accepted \/ r \in After
  BY <1>1, <1>6 DEF Route, Stage, Accepted, After
<1> HIDE DEF T
<1>5. \A l \in Layouts : Len1(l) \in Nat
  BY PortFacts
<1>10. ASSUME NEW l \in Layouts, NEW i \in 1 .. Len1(l)
       PROVE  /\ Port(l, i)[1] \in Stage /\ l \in Peers(Port(l, i)[1])
              /\ Port(l, i)[2] \in Nat \ {0} /\ Port(l, i) = <<Port(l, i)[1], Port(l, i)[2]>>
              /\ Port(l, i)[2] > 1 =>
                   \E j \in 1 .. (i - 1) : Port(l, j) = <<Port(l, i)[1], Port(l, i)[2] - 1>>
  <2>1. CadenceDue
    BY <1>10, PortFacts
  <2>2. i \in 1 .. Len(p.program[l]) /\ \A j : Port(l, j) = p.program[l][j]
    BY <1>1, <1>10, <2>1, PortFacts
  <2>3. PICK x : x = p.program[l][i]
    OBVIOUS
  <2> DEFINE Q(y, n) == /\ y[1] \in Stage /\ l \in Peers(y[1])
                        /\ y[2] \in Nat \ {0} /\ y = <<y[1], y[2]>>
                        /\ y[2] > 1 => \E j \in 1 .. (n - 1) : p.program[l][j] = <<y[1], y[2] - 1>>
  <2>5. \A n \in 1 .. Len(p.program[l]) : Q(p.program[l][n], n)
    BY <1>1, ProgramFacts
  <2>4. Q(x, i)
    <3> HIDE DEF Q
    <3> QED
      BY <2>2, <2>3, <2>5
  <2> QED
    BY <2>2, <2>3, <2>4
<1>11. ASSUME NEW l \in Layouts, NEW i \in 1 .. Len1(l), NEW j \in 1 .. Len1(l),
              Port(l, i) = Port(l, j)
       PROVE  i = j
  <2>1. CadenceDue
    BY <1>11, PortFacts
  <2>2. Len1(l) = Len(p.program[l]) /\ Port(l, i) = p.program[l][i] /\ Port(l, j) = p.program[l][j]
    BY <1>1, <2>1, PortFacts
  <2>3. \A a, b \in 1 .. Len(p.program[l]) : p.program[l][a] = p.program[l][b] => a = b
    BY <1>1, ProgramFacts
  <2> QED
    BY <1>11, <2>2, <2>3
<1>12. \A l \in Layouts : DOMAIN plan.program[l] = 1 .. Len(plan.program[l])
  BY <1>1, ProgramFacts
<1>13. After # {} => plan.physical
  BY <1>1, <1>3 DEF After, Route, Routes
<1>14. /\ Stage \subseteq Routes /\ Accepted \subseteq Routes /\ After \subseteq Routes
       /\ \A l \in Layouts : Into(l) \subseteq Routes
       /\ \A r \in Stage : r \notin Accepted /\ r \notin After
       /\ \A r \in Accepted : r \notin After
  BY DEF Stage, Accepted, After, Into
<1>15. /\ Routes \subseteq Nat \ {0}
       /\ None \notin Nat /\ None # Over /\ Over \notin Routes /\ None \notin Routes
  BY <1>4, MultiLayoutAssumption DEF Over
<1>16. None \notin [Mappings -> Nat]
  BY <1>1, PlansAssumption DEF Mappings, Routes, Route
<1>17. ASSUME NEW due \in BOOLEAN, NEW x \in Meetings(due)
       PROVE  /\ x[1] \in Routes /\ x[2] \in Nat /\ x = <<x[1], x[2]>>
              /\ x[1] \notin Stage => x[2] = 1
  <2>1. CASE \E r \in Routes \ Stage : x = <<r, 1>>
    BY <2>1
  <2>2. CASE \E l \in Layouts : \E i \in DOMAIN plan.program[l] : x = plan.program[l][i]
    <3>1. PICK l \in Layouts : \E i \in 1 .. Len(plan.program[l]) : x = plan.program[l][i]
      BY <1>12, <2>2
    <3> QED
      BY <1>1, <1>14, <3>1, ProgramFacts
  <2> QED
    BY <2>1, <2>2, <1>17 DEF Meetings
<1>18. ASSUME NEW x
       PROVE  x \in Meetings(CadenceDue) <=>
                \/ \E r \in Routes \ Stage : x = <<r, 1>>
                \/ \E l \in Layouts : \E i \in 1 .. Len1(l) : x = Port(l, i)
  <2>1. CASE CadenceDue
    <3>1. \A l \in Layouts : /\ DOMAIN plan.program[l] = 1 .. Len1(l)
                             /\ \A i : Port(l, i) = plan.program[l][i]
      BY <1>12, <2>1, PortFacts
    <3>2. Meetings(TRUE) = {<<r, 1>> : r \in Routes \ Stage} \cup
            UNION {{plan.program[l][i] : i \in DOMAIN plan.program[l]} : l \in Layouts}
      BY DEF Meetings
    <3>3. x \in UNION {{plan.program[l][i] : i \in DOMAIN plan.program[l]} : l \in Layouts} <=>
            \E l \in Layouts : \E i \in DOMAIN plan.program[l] : x = plan.program[l][i]
      OBVIOUS
    <3>4. Meetings(CadenceDue) = Meetings(TRUE)
      BY <2>1 DEF Meetings
    <3>5. x \in Meetings(CadenceDue) <=>
            \/ x \in {<<r, 1>> : r \in Routes \ Stage}
            \/ \E l \in Layouts : \E i \in DOMAIN plan.program[l] : x = plan.program[l][i]
      BY <3>2, <3>3, <3>4
    <3>6. x \in {<<r, 1>> : r \in Routes \ Stage} <=> \E r \in Routes \ Stage : x = <<r, 1>>
      OBVIOUS
    <3>7. (\E l \in Layouts : \E i \in DOMAIN plan.program[l] : x = plan.program[l][i]) <=>
            \E l \in Layouts : \E i \in 1 .. Len1(l) : x = Port(l, i)
      <4>1. ASSUME NEW l \in Layouts
            PROVE  (\E i \in DOMAIN plan.program[l] : x = plan.program[l][i]) <=>
                     \E i \in 1 .. Len1(l) : x = Port(l, i)
        <5>1. DOMAIN plan.program[l] = 1 .. Len1(l) /\ \A i : Port(l, i) = plan.program[l][i]
          BY <3>1
        <5> QED
          BY <5>1, Zenon
      <4> QED
        BY <4>1
    <3> QED
      BY <3>5, <3>6, <3>7
  <2>2. CASE ~CadenceDue
    <3>1. \A l \in Layouts : Len1(l) = 0
      BY <2>2, PortFacts
    <3> QED
      BY <2>2, <3>1 DEF Meetings
  <2> QED
    BY <2>1, <2>2
<1> QED
  BY <1>5, <1>8, <1>9, <1>10, <1>11, <1>13, <1>14, <1>15, <1>16, <1>17, <1>18 DEF PlanOK

\* Nothing derived from the plan changes with it unchanged.
LEMMA PlanSame ==
  ASSUME plan' = plan
  PROVE  /\ Route' = Route /\ Routes' = Routes /\ Stage' = Stage
         /\ Accepted' = Accepted /\ After' = After /\ Events' = Events
         /\ \A l : Into(l)' = Into(l)
         /\ \A e : Needs(e)' = Needs(e)
         /\ \A a, b : Feeds(a, b)' = Feeds(a, b)
         /\ \A r : Peers(r)' = Peers(r)
         /\ Mappings' = Mappings
         /\ \A due : Meetings(due)' = Meetings(due)
         /\ \A m, due : Evaluations(m, due)' = Evaluations(m, due)
<1>1. Route' = Route /\ Routes' = Routes
  BY DEF Route, Routes
<1>2. Stage' = Stage /\ Accepted' = Accepted /\ After' = After
  BY <1>1 DEF Stage, Accepted, After
<1>3. \A l : Into(l)' = Into(l)
  BY <1>1 DEF Into
<1>5. Events' = Events
  BY <1>1, <1>2 DEF Events
<1>6. \A e : Needs(e)' = Needs(e)
  BY <1>1, <1>2, <1>3 DEF Needs
<1>7. \A a, b : Feeds(a, b)' = Feeds(a, b)
  BY <1>1, <1>2 DEF Feeds
<1>8. Mappings' = Mappings
  BY <1>1 DEF Mappings
<1>9. \A due : Meetings(due)' = Meetings(due)
  BY <1>1, <1>2 DEF Meetings
<1>10. \A m, due : Evaluations(m, due)' = Evaluations(m, due)
  BY <1>1, <1>9 DEF Evaluations
<1>11. \A r : Peers(r)' = Peers(r)
  BY <1>1 DEF Peers
<1> QED
  BY <1>1, <1>2, <1>3, <1>5, <1>6, <1>7, <1>8, <1>9, <1>10, <1>11

\* Within a step the ports of the Programs do not change either.
LEMMA PortSame ==
  ASSUME plan' = plan, steps' = steps
  PROVE  /\ CadenceDue' = CadenceDue
         /\ \A l : Ports(l)' = Ports(l) /\ Len1(l)' = Len1(l)
         /\ \A l, i : Port(l, i)' = Port(l, i)
         /\ Regions' = Regions /\ Executable' = Executable
         /\ \A a, b : Follows(a, b)' = Follows(a, b)
         /\ \A v, l : Complete(v, l)' = Complete(v, l)
         /\ Meetings(CadenceDue)' = Meetings(CadenceDue)
<1>1. CadenceDue' = CadenceDue
  BY DEF CadenceDue
<1>2. \A l : Ports(l)' = Ports(l)
  BY <1>1 DEF Ports
<1>3. \A l : Len1(l)' = Len1(l)
  BY <1>2 DEF Len1
<1>4. \A l, i : Port(l, i)' = Port(l, i)
  BY <1>2 DEF Port
<1>5. \A a, b : Follows(a, b)' = Follows(a, b)
  BY <1>2, PlanSame DEF Follows
<1>6. Regions' = Regions
  BY <1>2 DEF Regions
<1>7. Executable' = Executable
  <2> DEFINE Shared(l, i) ==
               \A k \in {Route[Ports(l)[i][1]].source, Route[Ports(l)[i][1]].target} :
                 \E j \in 1 .. Len(Ports(k)) : Ports(k)[j] = Ports(l)[i]
             Acyclic == \A S \in (SUBSET Regions) \ {{}} : \E b \in S : \A a \in S : ~Follows(a, b)
  <2>1. \A l, i : Shared(l, i)' = Shared(l, i)
    BY <1>2, PlanSame
  <2>2. Acyclic' = Acyclic
    BY <1>5, <1>6
  <2>3. Executable = ((\A l \in Layouts : \A i \in 1 .. Len(Ports(l)) : Shared(l, i)) /\ Acyclic)
    BY DEF Executable
  <2>4. Executable' = ((\A l \in Layouts : \A i \in 1 .. Len(Ports(l)') : Shared(l, i)') /\ Acyclic')
    BY DEF Executable
  <2> HIDE DEF Shared, Acyclic
  <2> QED
    BY <1>2, <2>1, <2>2, <2>3, <2>4
<1>8. \A v, l : Complete(v, l)' = Complete(v, l)
  BY <1>2 DEF Complete
<1>9. Meetings(CadenceDue)' = Meetings(CadenceDue)
  BY <1>1, PlanSame DEF Meetings
<1> QED
  BY <1>1, <1>2, <1>3, <1>4, <1>5, <1>6, <1>7, <1>8, <1>9

\* The transfers of a step are finitely many.
LEMMA Finite ==
  ASSUME plan \in Plans, NEW due \in BOOLEAN
  PROVE  IsFiniteSet(Meetings(due)) /\ \A m : Evaluations(m, due) \in Nat
<1>1. PICK p \in Plans : p = plan
  OBVIOUS
<1> DEFINE Rg(l) == {p.program[l][i] : i \in DOMAIN p.program[l]}
           B == {<<r, 1>> : r \in Routes \ Stage}
<1>2. ASSUME NEW l \in Layouts PROVE IsFiniteSet(Rg(l))
  <2>1. Len(p.program[l]) \in Nat /\ DOMAIN p.program[l] = 1 .. Len(p.program[l])
    BY <1>1, ProgramFacts
  <2>2. IsFiniteSet(1 .. Len(p.program[l]))
    BY <2>1, FS_Interval
  <2> DEFINE f == [i \in 1 .. Len(p.program[l]) |-> p.program[l][i]]
  <2>3. f \in Surjection(1 .. Len(p.program[l]), Rg(l))
    BY <2>1 DEF Surjection
  <2> HIDE DEF f, Rg
  <2> QED
    BY <2>2, <2>3, FS_Surjection
<1>3. IsFiniteSet(UNION {Rg(l) : l \in Layouts})
  <2> DEFINE f == [l \in Layouts |-> Rg(l)]
             S == {Rg(l) : l \in Layouts}
  <2> HIDE DEF Rg
  <2>1. IsFiniteSet(Layouts)
    BY FS_Interval, MultiLayoutAssumption DEF Layouts
  <2>2. f \in Surjection(Layouts, S)
    BY DEF Surjection
  <2>3. IsFiniteSet(S)
    <3> HIDE DEF f, S
    <3> QED
      BY <2>1, <2>2, FS_Surjection
  <2>4. \A s \in S : IsFiniteSet(s)
    BY <1>2
  <2> HIDE DEF S
  <2>5. IsFiniteSet(UNION S)
    BY <2>3, <2>4, FS_UNION
  <2> QED
    BY <2>5 DEF S
<1>4. IsFiniteSet(B)
  <2> DEFINE f == [r \in Routes \ Stage |-> <<r, 1>>]
  <2>1. Routes = 1 .. Len(p.routes) /\ Len(p.routes) \in Nat
    BY <1>1, PlansAssumption DEF Routes
  <2>2. IsFiniteSet(Routes)
    BY <2>1, FS_Interval
  <2>3. IsFiniteSet(Routes \ Stage)
    BY <2>2, FS_Subset
  <2>4. f \in Surjection(Routes \ Stage, B)
    BY DEF Surjection
  <2> HIDE DEF f, B
  <2> QED
    BY <2>3, <2>4, FS_Surjection
<1>5. IsFiniteSet(Meetings(due))
  <2>1. Meetings(due) \subseteq B \cup UNION {Rg(l) : l \in Layouts}
    BY <1>1 DEF Meetings
  <2> DEFINE U == UNION {Rg(l) : l \in Layouts}
  <2> HIDE DEF Rg, B, U
  <2>2. IsFiniteSet(B \cup U)
    BY <1>3, <1>4, FS_Union DEF U
  <2>3. Meetings(due) \in SUBSET (B \cup U)
    BY <2>1 DEF U
  <2> QED
    BY <2>2, <2>3, FS_Subset
<1>6. ASSUME NEW m PROVE Evaluations(m, due) \in Nat
  <2> DEFINE S == {x \in Meetings(due) : Route[x[1]].map = m}
  <2>1. S \in SUBSET Meetings(due)
    OBVIOUS
  <2> HIDE DEF S
  <2>2. IsFiniteSet(S)
    BY <1>5, <2>1, FS_Subset
  <2>3. Cardinality(S) \in Nat
    BY <2>2, FS_CardinalityType
  <2> QED
    BY <2>3 DEF S, Evaluations
<1> QED
  BY <1>5, <1>6

-----------------------------------------------------------------------------
(* Control: which steps lead where.                                        *)

\* The plan never changes, and the schedule only during construction.
LEMMA Setup ==
  ASSUME [Next]_vars
  PROVE  /\ plan' = plan /\ (schedule' = schedule \/ Schedule)
         /\ (steps' = steps /\ fires' = fires) \/ Finalize
<1>1. CASE Schedule
  BY <1>1 DEF Schedule, bounds
<1>2. CASE Begin
  BY <1>2 DEF Begin, Call, BeginEngine, BeginSessions, UndoBegin, UndoneBegin, setup, bounds
<1>3. CASE Mapping
  BY <1>3 DEF Mapping, Attempt, CaptureOp, ApplyOp, StepOp, ScriptDone, setup, bounds
<1>4. CASE Maps
  BY <1>4 DEF Maps, Pass, MapRoute, StartRegions, Region, StartPorts, EndPass, setup, bounds
<1>5. CASE Rejection
  BY <1>5 DEF Rejection, RejectAttempt, RestoreEngine, RestoreDone, BeginAgain, UnwindBegun,
              LeaveStep, setup, bounds
<1>6. CASE Envelope
  BY <1>6 DEF Envelope, Advanced, Commit, EffectFails, Finalize, RollbackEngine,
              RollbackDone, setup, bounds
<1>7. CASE UNCHANGED vars
  BY <1>7 DEF vars, setup, bounds
<1> QED
  BY <1>1, <1>2, <1>3, <1>4, <1>5, <1>6, <1>7 DEF Next

\* The steps that leave or enter the script, the passes and the end of an attempt.
LEMMA Control ==
  ASSUME Next
  PROVE  /\ pc' = "script" => Attempt \/ CaptureOp \/ ApplyOp \/ StepOp
         /\ pc' \in Passing =>
              ScriptDone \/ Pass \/ MapRoute \/ StartRegions \/ Region \/ StartPorts \/ EndPass
         /\ pc' = "advanced" => ScriptDone \/ Pass
         /\ pc' = "effect" => Advanced
         /\ pc' = "publish" => Commit
         /\ pc' \in {"construct", "refused"} => Schedule
<1>1. CASE Schedule
  BY <1>1 DEF Schedule, Goto, Passing
<1>2. CASE Begin
  BY <1>2 DEF Begin, Call, BeginEngine, BeginSessions, UndoBegin, UndoneBegin, Goto, Raise, Passing
<1>3. CASE Mapping
  BY <1>3 DEF Mapping, Attempt, CaptureOp, ApplyOp, StepOp, ScriptDone, Goto, Raise, Escape, Passing
<1>4. CASE Maps
  BY <1>4 DEF Maps, Pass, MapRoute, MapNow, StartRegions, Region, StartPorts, EndPass,
              Goto, Raise, Escape, Passing
<1>5. CASE Rejection
  BY <1>5 DEF Rejection, RejectAttempt, RestoreEngine, RestoreDone, BeginAgain, UnwindBegun,
              LeaveStep, Goto, Raise, Passing
<1>6. CASE Envelope
  BY <1>6 DEF Envelope, Advanced, Commit, EffectFails, Finalize, RollbackEngine,
              RollbackDone, Goto, Raise, Passing
<1> QED
  BY <1>1, <1>2, <1>3, <1>4, <1>5, <1>6 DEF Next

-----------------------------------------------------------------------------
(* Updates of one layout or one session.                                   *)

\* The native state of layout l alone may have changed.
Only(l) == /\ val' \in [Layouts -> State \cup {Torn}]
           /\ \A k \in Layouts \ {l} : val'[k] = val[k]
\* The session of route r alone has changed.
Wrote(r) == /\ session' \in [Routes -> Session] /\ session'[r].active = session[r].active
            /\ \A q \in Routes \ {r} : session'[q] = session[q]

\* States and sessions have the fields of their records; the markers are no states.
LEMMA Records ==
  /\ \A n \in Nat : Base(n) \in State /\ Base(n).step = n /\ Base(n).mapped = {}
                    /\ Base(n).regions = 0
  /\ Torn \notin State /\ None \notin State /\ Torn # None /\ None \notin Nat
  /\ \A v \in State : v.step \in Nat /\ v.mapped \subseteq Nat \X Nat /\ v.regions \in Nat
<1>1. Torn \notin State /\ None \notin State /\ Torn # None /\ None \notin Nat
  BY MultiLayoutAssumption DEF State
<1>2. \A v \in State : v.step \in Nat /\ v.mapped \subseteq Nat \X Nat /\ v.regions \in Nat
  BY DEF State
<1>3. \A n \in Nat : Base(n) \in State /\ Base(n).step = n /\ Base(n).mapped = {}
                     /\ Base(n).regions = 0
  BY DEF State, Base
<1> QED
  BY <1>1, <1>2, <1>3

\* A mapping is written into a layout.
LEMMA WriteMapped ==
  ASSUME val \in [Layouts -> State \cup {Torn}], NEW t \in Layouts, val[t] # Torn,
         NEW r \in Nat \X Nat, val' = [val EXCEPT ![t].mapped = @ \cup {r}]
  PROVE  /\ Only(t)
         /\ val'[t] \in State /\ val'[t].step = val[t].step /\ val'[t].regions = val[t].regions
         /\ val'[t].mapped = val[t].mapped \cup {r}
<1>1. val[t] \in State
  OBVIOUS
<1>2. PICK x \in State : x = val[t]
  BY <1>1
<1>3. val' = [val EXCEPT ![t] = [x EXCEPT !.mapped = @ \cup {r}]]
  BY <1>2
<1>4. /\ [x EXCEPT !.mapped = @ \cup {r}] \in State
      /\ [x EXCEPT !.mapped = @ \cup {r}].step = x.step
      /\ [x EXCEPT !.mapped = @ \cup {r}].regions = x.regions
      /\ [x EXCEPT !.mapped = @ \cup {r}].mapped = x.mapped \cup {r}
  BY ONLY x \in State, r \in Nat \X Nat DEF State
<1> HIDE DEF State
<1> QED
  BY <1>2, <1>3, <1>4 DEF Only

\* The regions of a layout's Program that have run.
LEMMA WriteRegions ==
  ASSUME val \in [Layouts -> State \cup {Torn}], NEW t \in Layouts, val[t] # Torn,
         NEW n \in Nat, val' = [val EXCEPT ![t].regions = n]
  PROVE  /\ Only(t)
         /\ val'[t] \in State /\ val'[t].step = val[t].step /\ val'[t].mapped = val[t].mapped
         /\ val'[t].regions = n
<1>1. val[t] \in State
  OBVIOUS
<1>2. PICK x \in State : x = val[t]
  BY <1>1
<1>3. val' = [val EXCEPT ![t] = [x EXCEPT !.regions = n]]
  BY <1>2
<1>4. /\ [x EXCEPT !.regions = n] \in State
      /\ [x EXCEPT !.regions = n].step = x.step
      /\ [x EXCEPT !.regions = n].mapped = x.mapped
      /\ [x EXCEPT !.regions = n].regions = n
  BY ONLY x \in State, n \in Nat DEF State
<1> QED
  BY <1>2, <1>3, <1>4 DEF Only

\* A session captures, applies, or maps at once.
LEMMA SessionWrites ==
  ASSUME session \in [Routes -> Session], NEW r \in Routes, NEW a \in Nat, NEW c \in State
  PROVE  /\ session' = [session EXCEPT ![r].captured = a, ![r].applied = FALSE, ![r].copy = c] =>
              /\ Wrote(r) /\ session'[r].captured = a /\ session'[r].applied = FALSE
              /\ session'[r].copy = c
         /\ session' = [session EXCEPT ![r].captured = a, ![r].applied = TRUE, ![r].copy = c] =>
              /\ Wrote(r) /\ session'[r].captured = a /\ session'[r].applied = TRUE
              /\ session'[r].copy = c
         /\ session' = [session EXCEPT ![r].applied = TRUE] =>
              /\ Wrote(r) /\ session'[r].captured = session[r].captured
              /\ session'[r].applied = TRUE /\ session'[r].copy = session[r].copy
<1>1. PICK x \in Session : x = session[r]
  OBVIOUS
<1>2. ASSUME session' = [session EXCEPT ![r].captured = a, ![r].applied = FALSE, ![r].copy = c]
      PROVE  /\ Wrote(r) /\ session'[r].captured = a /\ session'[r].applied = FALSE
             /\ session'[r].copy = c
  <2>1. PICK y : y = [x EXCEPT !.captured = a, !.applied = FALSE, !.copy = c]
    OBVIOUS
  <2>2. y \in Session /\ y.active = x.active /\ y.captured = a /\ y.applied = FALSE /\ y.copy = c
    BY ONLY x \in Session, a \in Nat, c \in State, <2>1 DEF Session
  <2>3. session' = [session EXCEPT ![r] = y]
    BY <1>1, <1>2, <2>1
  <2> QED
    BY <1>1, <2>2, <2>3 DEF Wrote
<1>3. ASSUME session' = [session EXCEPT ![r].captured = a, ![r].applied = TRUE, ![r].copy = c]
      PROVE  /\ Wrote(r) /\ session'[r].captured = a /\ session'[r].applied = TRUE
             /\ session'[r].copy = c
  <2>1. PICK y : y = [x EXCEPT !.captured = a, !.applied = TRUE, !.copy = c]
    OBVIOUS
  <2>2. y \in Session /\ y.active = x.active /\ y.captured = a /\ y.applied = TRUE /\ y.copy = c
    BY ONLY x \in Session, a \in Nat, c \in State, <2>1 DEF Session
  <2>3. session' = [session EXCEPT ![r] = y]
    BY <1>1, <1>3, <2>1
  <2> QED
    BY <1>1, <2>2, <2>3 DEF Wrote
<1>4. ASSUME session' = [session EXCEPT ![r].applied = TRUE]
      PROVE  /\ Wrote(r) /\ session'[r].captured = x.captured /\ session'[r].applied = TRUE
             /\ session'[r].copy = x.copy
  <2>1. PICK y : y = [x EXCEPT !.applied = TRUE]
    OBVIOUS
  <2>2. y \in Session /\ y.active = x.active /\ y.captured = x.captured /\ y.applied = TRUE /\ y.copy = x.copy
    BY ONLY x \in Session, a \in Nat, c \in State, <2>1 DEF Session
  <2>3. session' = [session EXCEPT ![r] = y]
    BY <1>1, <1>4, <2>1
  <2> QED
    BY <1>1, <2>2, <2>3 DEF Wrote
<1> QED
  BY <1>1, <1>2, <1>3, <1>4

-----------------------------------------------------------------------------
(* Native transactions of one layout.                                      *)

\* A rollback restores the snapshot, or tears the state and keeps the snapshot.
LEMMA RollsBackEffect ==
  ASSUME TypeInv, NEW l \in Layouts, NEW fails \in BOOLEAN, RollsBack(l, fails)
  PROVE  /\ val' \in [Layouts -> State \cup {Torn}] /\ txn' \in [Layouts -> State \cup {None}]
         /\ port' \in [Layouts -> Routes \cup {None}]
         /\ \A k \in Layouts \ {l} : val'[k] = val[k] /\ txn'[k] = txn[k] /\ port'[k] = port[k]
         /\ txn[l] = None =>
              fails /\ val'[l] = val[l] /\ txn'[l] = None /\ port'[l] = port[l]
         /\ txn[l] # None /\ fails =>
              val'[l] = Torn /\ txn'[l] = txn[l] /\ port'[l] = None
         /\ txn[l] # None /\ ~fails =>
              val'[l] = txn[l] /\ txn'[l] = None /\ port'[l] = None
         /\ \A k \in Layouts \ {l} : k \in swapped' <=> k \in swapped
         /\ (l \in swapped => l \in swapped') /\ (txn[l] # None /\ fails => l \in swapped')
<1>1. /\ val \in [Layouts -> State \cup {Torn}] /\ txn \in [Layouts -> State \cup {None}]
      /\ port \in [Layouts -> Routes \cup {None}]
  BY DEF TypeInv
<1>2. CASE txn[l] = None
  BY <1>1, <1>2 DEF RollsBack, native
<1>3. CASE txn[l] # None
  <2>1. /\ port' = [port EXCEPT ![l] = None]
        /\ val' = [val EXCEPT ![l] = IF fails THEN Torn ELSE txn[l]]
        /\ txn' = [txn EXCEPT ![l] = IF fails THEN txn[l] ELSE None]
        /\ swapped' = IF fails THEN swapped \cup {l} ELSE swapped
    BY <1>3 DEF RollsBack
  <2> QED
    BY <1>1, <1>3, <2>1
<1> QED
  BY <1>2, <1>3

\* A begin takes the snapshot of a layout that has none, or changes nothing.
LEMMA BeginsEffect ==
  ASSUME TypeInv, NEW l \in Layouts, NEW fails \in BOOLEAN, Begins(l, fails),
         fails \/ val[l] # Torn
  PROVE  /\ val' = val /\ port' = port /\ swapped' = swapped
         /\ txn' \in [Layouts -> State \cup {None}]
         /\ \A k \in Layouts \ {l} : txn'[k] = txn[k]
         /\ fails => txn' = txn
         /\ ~fails => txn[l] = None /\ txn'[l] = val[l]
<1>1. /\ val \in [Layouts -> State \cup {Torn}] /\ txn \in [Layouts -> State \cup {None}]
  BY DEF TypeInv
<1> QED
  BY <1>1 DEF Begins

-----------------------------------------------------------------------------
(* The operations of an attempt and their order.                           *)

\* Ordinary mappings and the accepted ones of Program maps, or rounds of the schedule.
Simple == Stage # {} \/ ~plan.physical
InRound(n, op) ==
  \/ \E r \in Routes : /\ <<"apply", r>> \in schedule[n]
                       /\ op = <<n, "apply", r>> \/ (r \in After /\ op = <<n, "capture", r>>)
  \/ \E l \in Layouts : <<"step", l>> \in schedule[n] /\ op = <<n, "step", l>>
Shape(op) ==
  \/ \E r \in Accepted : op = <<0, "capture", r>> \/ (Simple /\ op = <<1, "apply", r>>)
  \/ Stage = {} /\ Simple /\ \E l \in Layouts : op = <<2, "step", l>>
  \/ ~Simple /\ \E n \in 1 .. Len(schedule) : InRound(n, op)

\* Both ways to give the operations.
LEMMA ScriptShape ==
  ASSUME PlanOK, SchedInv
  PROVE  \A op : op \in Script <=> Shape(op)
<1>0. /\ Len(schedule) \in Nat /\ DOMAIN schedule = 1 .. Len(schedule)
      /\ After \subseteq Routes /\ Accepted \subseteq Routes
  BY DEF SchedInv, PlanOK
<1>1. CASE Stage # {}
  BY <1>1 DEF Script, Shape, Simple, Each
<1>2. CASE Stage = {} /\ plan.physical
  <2>1. Script = Each(0, "capture", Accepted) \cup UNION {Round(n) : n \in DOMAIN schedule}
    BY <1>2 DEF Script
  <2>2. \A n \in DOMAIN schedule : \A op : op \in Round(n) <=> InRound(n, op)
    BY <1>0 DEF Round, Each, InRound
  <2>3. ~Simple
    BY <1>2 DEF Simple
  <2>4. \A op : op \in UNION {Round(n) : n \in DOMAIN schedule}
                 <=> \E n \in 1 .. Len(schedule) : InRound(n, op)
    BY <1>0, <2>2
  <2>5. \A op : op \in Each(0, "capture", Accepted) <=> \E r \in Accepted : op = <<0, "capture", r>>
    BY DEF Each
  <2> QED
    BY <2>1, <2>3, <2>4, <2>5 DEF Shape
<1>3. CASE Stage = {} /\ ~plan.physical
  <2>1. Accepted = Routes
    BY <1>3 DEF PlanOK
  <2> QED
    BY <1>3, <2>1 DEF Script, Shape, Simple, Each
<1> QED
  BY <1>1, <1>2, <1>3

\* An event is listed once.
LEMMA ListedOnce ==
  ASSUME SchedInv, NEW n \in 1 .. Len(schedule), NEW m \in 1 .. Len(schedule), NEW e,
         e \in schedule[n], e \in schedule[m]
  PROVE  n = m
<1>1. e \notin Upto(n) /\ e \notin Upto(m)
  BY DEF SchedInv
<1>2. Len(schedule) \in Nat
  BY DEF SchedInv
<1>3. ~(m < n) /\ ~(n < m)
  BY <1>1, <1>2 DEF Upto
<1> QED
  BY <1>2, <1>3

\* What an operation of the script is.
LEMMA ScriptForm ==
  ASSUME PlanOK, SchedInv, NEW op \in Script
  PROVE  /\ op[1] \in Nat /\ op[2] \in {"capture", "apply", "step"}
         /\ op[2] # "step" => op[3] \in Routes \ Stage
         /\ op[2] = "capture" /\ op[3] \in Accepted => op[1] = 0
         /\ op[2] # "capture" => op[1] > 0
         /\ op[2] = "step" => op[3] \in Layouts /\ Stage = {}
         /\ Stage # {} => op[3] \in Accepted /\ op[2] # "step"
<1>1. Shape(op)
  BY ScriptShape
<1>2. Len(schedule) \in Nat
  BY DEF SchedInv
<1>3. CASE \E r \in Accepted : op = <<0, "capture", r>> \/ (Simple /\ op = <<1, "apply", r>>)
  BY <1>3 DEF PlanOK
<1>4. CASE Stage = {} /\ Simple /\ \E l \in Layouts : op = <<2, "step", l>>
  BY <1>4
<1>5. CASE ~Simple /\ \E n \in 1 .. Len(schedule) : InRound(n, op)
  <2>1. PICK n \in 1 .. Len(schedule) : InRound(n, op)
    BY <1>5
  <2>2. Stage = {}
    BY <1>5 DEF Simple
  <2>3. n \in Nat /\ n > 0
    BY <1>2
  <2>4. CASE \E r \in Routes : /\ <<"apply", r>> \in schedule[n]
                               /\ op = <<n, "apply", r>> \/ (r \in After /\ op = <<n, "capture", r>>)
    BY <2>2, <2>3, <2>4 DEF PlanOK
  <2>5. CASE \E l \in Layouts : <<"step", l>> \in schedule[n] /\ op = <<n, "step", l>>
    BY <2>2, <2>3, <2>5
  <2> QED
    BY <2>1, <2>4, <2>5 DEF InRound
<1> QED
  BY <1>1, <1>3, <1>4, <1>5 DEF Shape

\* Where an operation is listed.
LEMMA ScriptRound ==
  ASSUME PlanOK, SchedInv, NEW op \in Script
  PROVE  /\ op = <<op[1], op[2], op[3]>>
         /\ Simple => (op[2] = "step" => op[1] = 2) /\ (op[2] # "step" => op[3] \in Accepted)
         /\ ~Simple /\ op[2] = "step" =>
              op[1] \in 1 .. Len(schedule) /\ <<"step", op[3]>> \in schedule[op[1]]
         /\ ~Simple /\ (op[2] = "apply" \/ (op[2] = "capture" /\ op[3] \notin Accepted)) =>
              op[1] \in 1 .. Len(schedule) /\ <<"apply", op[3]>> \in schedule[op[1]]
<1>1. Shape(op)
  BY ScriptShape
<1>3. CASE \E r \in Accepted : op = <<0, "capture", r>> \/ (Simple /\ op = <<1, "apply", r>>)
  BY <1>3
<1>4. CASE Stage = {} /\ Simple /\ \E l \in Layouts : op = <<2, "step", l>>
  BY <1>4
<1>5. CASE ~Simple /\ \E n \in 1 .. Len(schedule) : InRound(n, op)
  <2>1. PICK n \in 1 .. Len(schedule) : InRound(n, op)
    BY <1>5
  <2>2. CASE \E r \in Routes : /\ <<"apply", r>> \in schedule[n]
                               /\ op = <<n, "apply", r>> \/ (r \in After /\ op = <<n, "capture", r>>)
    <3>1. op = <<op[1], op[2], op[3]>> /\ op[1] = n /\ op[2] # "step" /\ <<"apply", op[3]>> \in schedule[n]
      BY <2>2
    <3> QED
      BY <1>5, <3>1
  <2>3. CASE \E l \in Layouts : <<"step", l>> \in schedule[n] /\ op = <<n, "step", l>>
    <3>1. op = <<op[1], op[2], op[3]>> /\ op[1] = n /\ op[2] = "step" /\ <<"step", op[3]>> \in schedule[n]
      BY <2>3
    <3> QED
      BY <1>5, <3>1
  <2> QED
    BY <2>1, <2>2, <2>3 DEF InRound
<1> QED
  BY <1>1, <1>3, <1>4, <1>5 DEF Shape

\* The maps into a layout are applied before it steps.
LEMMA AppliedFirst ==
  ASSUME PlanOK, SchedInv, NEW s \in Script, s[2] = "step", NEW r \in Into(s[3])
  PROVE  \E a \in Script : a[2] = "apply" /\ a[3] = r /\ Earlier(a, s)
<1>1. Shape(s)
  BY ScriptShape
<1>2. Stage = {} /\ s[3] \in Layouts /\ r \in Routes
  BY ScriptForm DEF PlanOK
<1>3. CASE Simple
  <2>1. s[1] = 2 /\ r \in Accepted
    BY <1>2, <1>3, ScriptRound DEF Simple, PlanOK
  <2>2. Shape(<<1, "apply", r>>)
    BY <2>1, <1>3 DEF Shape
  <2>3. <<1, "apply", r>> \in Script
    BY <2>2, ScriptShape
  <2> QED
    BY <2>1, <2>3 DEF Earlier
<1>4. CASE ~Simple
  <2>1. PICK n \in 1 .. Len(schedule) : <<"step", s[3]>> \in schedule[n] /\ s[1] = n
    BY <1>4, ScriptRound
  <2>2. <<"apply", r>> \in Needs(<<"step", s[3]>>)
    BY <1>2 DEF Needs
  <2>3. <<"apply", r>> \in Upto(n)
    BY <2>1, <2>2 DEF SchedInv
  <2>4. PICK m \in 1 .. (n - 1) : <<"apply", r>> \in schedule[m]
    BY <2>3 DEF Upto
  <2>5. m \in 1 .. Len(schedule) /\ m < n /\ m \in Nat /\ n \in Nat
    BY <2>1, <2>4 DEF SchedInv
  <2>6. Shape(<<m, "apply", r>>)
    BY <1>2, <1>4, <2>4, <2>5 DEF Shape, InRound
  <2>7. <<m, "apply", r>> \in Script
    BY <2>6, ScriptShape
  <2> QED
    BY <2>1, <2>5, <2>7 DEF Earlier
<1> QED
  BY <1>3, <1>4

\* The source of an after-source-step mapping steps before it is captured.
LEMMA SourceFirst ==
  ASSUME PlanOK, SchedInv, NEW c \in Script, c[2] = "capture", c[3] \in After
  PROVE  \E s \in Script : s[2] = "step" /\ s[3] = Route[c[3]].source /\ Earlier(s, c)
<1>1. Shape(c)
  BY ScriptShape
<1>2. c[3] \notin Accepted /\ c[3] \in Routes
  BY DEF PlanOK
<1>3. ~Simple /\ \E n \in 1 .. Len(schedule) : c[1] = n /\ <<"apply", c[3]>> \in schedule[n]
  BY <1>2, ScriptRound
<1>4. PICK n \in 1 .. Len(schedule) : c[1] = n /\ <<"apply", c[3]>> \in schedule[n]
  BY <1>3
<1>5. PICK l \in Layouts : l = Route[c[3]].source
  BY <1>2 DEF PlanOK
<1>6. Needs(<<"apply", c[3]>>) = {<<"step", l>>}
  BY <1>5 DEF Needs
<1>7. <<"step", l>> \in Upto(n)
  BY <1>4, <1>6 DEF SchedInv
<1>8. PICK m \in 1 .. (n - 1) : <<"step", l>> \in schedule[m]
  BY <1>7 DEF Upto
<1>9. m \in 1 .. Len(schedule) /\ m < n /\ m \in Nat /\ n \in Nat
  BY <1>4, <1>8 DEF SchedInv
<1>10. Shape(<<m, "step", l>>)
  BY <1>3, <1>8, <1>9 DEF Shape, InRound
<1>11. <<m, "step", l>> \in Script
  BY <1>10, ScriptShape
<1> QED
  BY <1>4, <1>5, <1>9, <1>11 DEF Earlier

\* A map is captured before it is applied.
LEMMA CapturedFirst ==
  ASSUME PlanOK, SchedInv, NEW c \in Script, NEW a \in Script,
         c[2] = "capture", a[2] = "apply", c[3] = a[3]
  PROVE  Earlier(c, a)
<1>1. Shape(c) /\ Shape(a)
  BY ScriptShape
<1>2. CASE c[3] \in Accepted
  <2>1. c[1] = 0 /\ a[1] \in Nat /\ a[1] > 0
    BY <1>2, ScriptForm
  <2> QED
    BY <2>1 DEF Earlier
<1>3. CASE c[3] \notin Accepted
  <2>1. c[1] \in 1 .. Len(schedule) /\ <<"apply", c[3]>> \in schedule[c[1]]
    BY <1>3, ScriptRound
  <2>2. a[1] \in 1 .. Len(schedule) /\ <<"apply", c[3]>> \in schedule[a[1]]
    BY <1>3, ScriptRound
  <2>3. c[1] = a[1]
    BY <2>1, <2>2, ListedOnce
  <2> QED
    BY <2>3 DEF Earlier
<1> QED
  BY <1>2, <1>3

\* A layout steps once.
LEMMA StepsOnce ==
  ASSUME PlanOK, SchedInv, NEW s \in Script, NEW t \in Script,
         s[2] = "step", t[2] = "step", s[3] = t[3]
  PROVE  s = t
<1>1. Shape(s) /\ Shape(t)
  BY ScriptShape
<1>2. CASE Simple
  BY <1>2, ScriptRound
<1>3. CASE ~Simple
  <2>1. s[1] \in 1 .. Len(schedule) /\ <<"step", s[3]>> \in schedule[s[1]]
    BY <1>3, ScriptRound
  <2>2. t[1] \in 1 .. Len(schedule) /\ <<"step", s[3]>> \in schedule[t[1]]
    BY <1>3, ScriptRound
  <2>3. s[1] = t[1]
    BY <2>1, <2>2, ListedOnce
  <2> QED
    BY <2>3, ScriptRound
<1> QED
  BY <1>2, <1>3

\* A map is applied once.
LEMMA AppliesOnce ==
  ASSUME PlanOK, SchedInv, NEW s \in Script, NEW t \in Script,
         s[2] = "apply", t[2] = "apply", s[3] = t[3]
  PROVE  s = t
<1>1. Shape(s) /\ Shape(t)
  BY ScriptShape
<1>2. CASE Simple
  BY <1>1, <1>2 DEF Shape
<1>3. CASE ~Simple
  <2>1. s[1] \in 1 .. Len(schedule) /\ <<"apply", s[3]>> \in schedule[s[1]]
    BY <1>3, ScriptRound
  <2>2. t[1] \in 1 .. Len(schedule) /\ <<"apply", s[3]>> \in schedule[t[1]]
    BY <1>3, ScriptRound
  <2>3. s[1] = t[1]
    BY <2>1, <2>2, ListedOnce
  <2> QED
    BY <2>3, ScriptRound
<1> QED
  BY <1>2, <1>3

\* Every accepted mapping is applied, and without Program maps every layout steps.
LEMMA ScriptCovers ==
  ASSUME PlanOK, SchedInv, pc = "script"
  PROVE  /\ Stage # {} => \A r \in Accepted : <<1, "apply", r>> \in Script
         /\ Stage = {} => \A l \in Layouts : \E s \in Script : s[2] = "step" /\ s[3] = l
<1>1. ASSUME Stage # {}, NEW r \in Accepted PROVE <<1, "apply", r>> \in Script
  <2>1. Shape(<<1, "apply", r>>)
    BY <1>1 DEF Shape, Simple
  <2> QED
    BY <2>1, ScriptShape
<1>2. ASSUME Stage = {}, NEW l \in Layouts PROVE \E s \in Script : s[2] = "step" /\ s[3] = l
  <2>1. CASE Simple
    <3>1. Shape(<<2, "step", l>>)
      BY <1>2, <2>1 DEF Shape
    <3>2. <<2, "step", l>> \in Script
      BY <3>1, ScriptShape
    <3> QED
      BY <3>2
  <2>2. CASE ~Simple
    <3>1. <<"step", l>> \in Emitted
      BY <2>2 DEF SchedInv, Simple, Events
    <3>2. PICK n \in 1 .. Len(schedule) : <<"step", l>> \in schedule[n]
      BY <3>1 DEF Emitted, SchedInv
    <3>3. Shape(<<n, "step", l>>)
      BY <2>2, <3>2 DEF Shape, InRound
    <3>4. <<n, "step", l>> \in Script
      BY <3>3, ScriptShape
    <3> QED
      BY <3>4
  <2> QED
    BY <2>1, <2>2
<1> QED
  BY <1>1, <1>2

-----------------------------------------------------------------------------
(* What the operations of an attempt change.                               *)

\* An operation raised.
Leaves == (pc' = "rollback" /\ todo' = Layouts) \/ (pc' = "reject" /\ todo' = {})

\* The states and sessions an operation starts from.
LEMMA InAttempt ==
  ASSUME IndInv, pc \in Working
  PROVE  /\ TypeInv /\ PlanOK /\ SchedInv
         /\ \A l \in Layouts : val[l] \in State /\ val[l] # Torn
         /\ pc = "script" => todo \subseteq Script
<1>1. TypeInv /\ PlanOK /\ SchedInv
  BY PlanFacts DEF IndInv, TypeInv
<1>2. \A l \in Layouts : val[l] # Torn
  BY DEF IndInv, LayoutInv, Alive
<1>3. \A l \in Layouts : val[l] \in State
  BY <1>1, <1>2 DEF TypeInv
<1> QED
  BY <1>1, <1>2, <1>3 DEF IndInv, ScriptInv

\* A capture of step() copies the source as it is now, or fails.
LEMMA CaptureEffect ==
  ASSUME IndInv, CaptureOp
  PROVE  \E op \in todo :
           /\ Due(op) /\ op[2] = "capture" /\ op \in Script /\ op[3] \in Routes \ Stage
           /\ \/ Leaves /\ session' = session /\ captured' = captured /\ raised' = "fail"
              \/ /\ pc' = "script" /\ todo' = todo \ {op} /\ raised' = raised
                 /\ Wrote(op[3]) /\ captured' = captured \cup {op[3]}
                 /\ session'[op[3]].captured = attempt /\ session'[op[3]].applied = FALSE
                 /\ session'[op[3]].copy = val[Route[op[3]].source]
<1>0. pc = "script" /\ pc \in Working
  BY DEF CaptureOp, Working
<1>1. PICK op \in todo, fails \in BOOLEAN :
        /\ Due(op) /\ op[2] = "capture"
        /\ IF fails \/ ~Captures(op[3])
             THEN Escape("fail") /\ UNCHANGED <<session, captured>>
             ELSE Capture(op[3]) /\ Goto("script", todo \ {op}) /\ raised' = raised
  BY DEF CaptureOp
<1>2. op \in Script /\ op[3] \in Routes \ Stage /\ TypeInv /\ PlanOK
  BY <1>0, <1>1, InAttempt, ScriptForm
<1>3. CASE fails \/ ~Captures(op[3])
  BY <1>1, <1>2, <1>3 DEF Escape, Raise, Goto, Leaves
<1>4. CASE ~(fails \/ ~Captures(op[3]))
  <2>1. PICK c \in State : c = val[Route[op[3]].source]
    BY <1>0, <1>2, InAttempt DEF PlanOK
  <2>2. /\ session' = [session EXCEPT ![op[3]].captured = attempt, ![op[3]].applied = FALSE,
                                      ![op[3]].copy = c]
        /\ captured' = captured \cup {op[3]} /\ pc' = "script" /\ todo' = todo \ {op} /\ raised' = raised
    BY <1>1, <1>4, <2>1 DEF Capture, Goto
  <2>3. session \in [Routes -> Session] /\ attempt \in Nat
    BY <1>2 DEF TypeInv
  <2>4. /\ Wrote(op[3]) /\ session'[op[3]].captured = attempt /\ session'[op[3]].applied = FALSE
        /\ session'[op[3]].copy = c
    BY <1>2, <2>2, <2>3, SessionWrites DEF Wrote
  <2> QED
    BY <1>1, <1>2, <2>1, <2>2, <2>4
<1> QED
  BY <1>3, <1>4

\* An apply of step() writes the captured route into its target alone, or fails.
LEMMA ApplyEffect ==
  ASSUME IndInv, ApplyOp
  PROVE  \E op \in todo :
           /\ Due(op) /\ op[2] = "apply" /\ op \in Script /\ op[3] \in Routes \ Stage
           /\ Only(Route[op[3]].target) /\ port' = port
           /\ \/ /\ Leaves /\ session' = session /\ raised' = "fail" /\ receipts' = receipts
                 /\ val'[Route[op[3]].target] \in {val[Route[op[3]].target], Torn}
              \/ /\ pc' = "script" /\ todo' = todo \ {op} /\ raised' = raised
                 /\ receipts' = [receipts EXCEPT ![op[3]] = @ + 1]
                 /\ Wrote(op[3]) /\ Applies(op[3])
                 /\ session'[op[3]].captured = attempt /\ session'[op[3]].applied = TRUE
                 /\ session'[op[3]].copy = session[op[3]].copy
                 /\ LET t == Route[op[3]].target IN
                      /\ val'[t] \in State /\ val'[t].step = val[t].step
                      /\ val'[t].regions = val[t].regions
                      /\ val'[t].mapped = val[t].mapped \cup {<<op[3], receipts[op[3]] + 1>>}
<1>0. pc = "script" /\ pc \in Working
  BY DEF ApplyOp, Working
<1>1. PICK op \in todo, fails \in BOOLEAN :
        /\ Due(op) /\ op[2] = "apply"
        /\ IF fails \/ ~Applies(op[3])
             THEN /\ Escape("fail")
                  /\ val' = [val EXCEPT ![Route[op[3]].target] = IF fails THEN Torn ELSE @]
                  /\ UNCHANGED <<session, receipts, port>>
             ELSE Apply(op[3]) /\ Goto("script", todo \ {op}) /\ raised' = raised
  BY DEF ApplyOp
<1>2. op \in Script /\ op[3] \in Routes \ Stage /\ TypeInv /\ PlanOK
  BY <1>0, <1>1, InAttempt, ScriptForm
<1>3. PICK t \in Layouts : t = Route[op[3]].target
  BY <1>2 DEF PlanOK
<1>4. val \in [Layouts -> State \cup {Torn}] /\ val[t] # Torn
  BY <1>0, <1>2, InAttempt DEF TypeInv
<1>5. CASE fails \/ ~Applies(op[3])
  <2>1. val' = [val EXCEPT ![t] = IF fails THEN Torn ELSE val[t]]
    BY <1>1, <1>3, <1>5
  <2>2. Only(t) /\ val'[t] \in {val[t], Torn}
    BY <1>4, <2>1 DEF Only
  <2> QED
    BY <1>1, <1>2, <1>3, <1>5, <2>2 DEF Escape, Raise, Goto, Leaves
<1>6. CASE ~(fails \/ ~Applies(op[3]))
  <2>1. /\ session' = [session EXCEPT ![op[3]].applied = TRUE]
        /\ val' = [val EXCEPT ![t].mapped = @ \cup {<<op[3], receipts[op[3]] + 1>>}]
        /\ receipts' = [receipts EXCEPT ![op[3]] = @ + 1]
        /\ port' = [l \in Layouts |-> port[l]]
        /\ pc' = "script" /\ todo' = todo \ {op} /\ raised' = raised /\ Applies(op[3])
    BY <1>1, <1>2, <1>3, <1>6 DEF Apply, Goto
  <2>2. session \in [Routes -> Session] /\ attempt \in Nat /\ port \in [Layouts -> Routes \cup {None}]
    BY <1>2 DEF TypeInv
  <2>3. port' = port
    BY <2>1, <2>2
  <2>4. PICK c \in State : c = Base(0)
    BY Records
  <2>5. /\ Wrote(op[3]) /\ session'[op[3]].captured = session[op[3]].captured
        /\ session'[op[3]].applied = TRUE /\ session'[op[3]].copy = session[op[3]].copy
    BY <1>2, <2>1, <2>2, <2>4, SessionWrites DEF Wrote
  <2>9. op[3] \in Nat /\ receipts[op[3]] + 1 \in Nat
    BY <1>2 DEF PlanOK, TypeInv
  <2>6. PICK y \in Nat \X Nat : y = <<op[3], receipts[op[3]] + 1>>
    BY <2>9
  <2>7. /\ Only(t) /\ val'[t] \in State /\ val'[t].step = val[t].step
        /\ val'[t].regions = val[t].regions /\ val'[t].mapped = val[t].mapped \cup {y}
    BY <1>4, <2>1, <2>6, WriteMapped DEF Only
  <2>8. session[op[3]].captured = attempt
    BY <2>1 DEF Applies
  <2> QED
    BY <1>1, <1>2, <1>3, <2>1, <2>3, <2>5, <2>6, <2>7, <2>8
<1> QED
  BY <1>5, <1>6

\* A child step completes one layout, or raises and may leave it torn.
LEMMA StepEffect ==
  ASSUME IndInv, StepOp
  PROVE  \E op \in todo :
           /\ Due(op) /\ op[2] = "step" /\ op \in Script /\ op[3] \in Layouts /\ Stage = {}
           /\ Only(op[3])
           /\ \/ Leaves /\ raised' \in {"reject", "fail"}
              \/ /\ pc' = "script" /\ todo' = todo \ {op} /\ raised' = raised
                 /\ val'[op[3]] \in State /\ val'[op[3]].step = val[op[3]].step
                 /\ val'[op[3]].regions = 1 /\ val'[op[3]].mapped = val[op[3]].mapped
<1>0. pc = "script" /\ pc \in Working
  BY DEF StepOp, Working
<1>1. PICK op \in todo, class \in {"none", "reject", "fail"}, torn \in BOOLEAN :
        /\ Due(op) /\ op[2] = "step"
        /\ IF class = "none"
             THEN /\ val' = [val EXCEPT ![op[3]].regions = 1]
                  /\ Goto("script", todo \ {op}) /\ raised' = raised
             ELSE /\ Escape(class)
                  /\ val' = [val EXCEPT ![op[3]] = IF torn THEN Torn ELSE @]
  BY DEF StepOp
<1>2. op \in Script /\ op[3] \in Layouts /\ Stage = {} /\ TypeInv
  BY <1>0, <1>1, InAttempt, ScriptForm
<1>3. val \in [Layouts -> State \cup {Torn}] /\ val[op[3]] # Torn
  BY <1>0, <1>2, InAttempt DEF TypeInv
<1>4. CASE class = "none"
  <2>1. val' = [val EXCEPT ![op[3]].regions = 1] /\ pc' = "script" /\ todo' = todo \ {op} /\ raised' = raised
    BY <1>1, <1>4 DEF Goto
  <2>2. /\ Only(op[3]) /\ val'[op[3]] \in State /\ val'[op[3]].step = val[op[3]].step
        /\ val'[op[3]].regions = 1 /\ val'[op[3]].mapped = val[op[3]].mapped
    BY <1>2, <1>3, <2>1, WriteRegions DEF Only
  <2> QED
    BY <1>1, <1>2, <2>1, <2>2
<1>5. CASE class # "none"
  <2>1. Only(op[3])
    BY <1>1, <1>2, <1>3, <1>5 DEF Only
  <2> QED
    BY <1>1, <1>2, <1>5, <2>1 DEF Escape, Raise, Goto, Leaves
<1> QED
  BY <1>4, <1>5

\* Mapping a route at its port captures and applies in one step, or fails.
LEMMA MapEffect ==
  ASSUME IndInv, MapRoute
  PROVE  \E r \in todo :
           /\ r \in Routes /\ First(r) /\ Only(Route[r].target)
           /\ \/ /\ Leaves /\ session' = session /\ raised' = "fail" /\ port' = port
                 /\ waiting' = waiting /\ after' = after /\ progress' = progress
                 /\ captured' = captured /\ receipts' = receipts
                 /\ val'[Route[r].target] \in {val[Route[r].target], Torn}
              \/ /\ pc' = pc /\ todo' = todo \ {r} /\ raised' = raised
                 /\ Wrote(r) /\ Captures(r)
                 /\ session'[r].captured = attempt /\ session'[r].applied = TRUE
                 /\ session'[r].copy = val[Route[r].source]
                 /\ captured' = captured \cup {r}
                 /\ receipts' = [receipts EXCEPT ![r] = @ + 1]
                 /\ LET t == Route[r].target IN
                      /\ val'[t] \in State /\ val'[t].step = val[t].step
                      /\ val'[t].regions = val[t].regions
                      /\ val'[t].mapped = val[t].mapped \cup {<<r, receipts[r] + 1>>}
                 /\ port' = [l \in Layouts |-> IF r \in Stage /\ port[l] = r THEN None ELSE port[l]]
                 /\ waiting' = [l \in Layouts |-> IF r \in Stage /\ waiting[l] = r THEN None
                                                                                ELSE waiting[l]]
                 /\ after' = after \ {r} /\ progress' = TRUE
<1>0. pc \in {"after", "ports"} /\ pc \in Working
  BY DEF MapRoute, Working, Passing
<1>1. PICK r \in todo, fails \in BOOLEAN : First(r) /\ MapNow(r, fails)
  BY DEF MapRoute
<1>2. TypeInv /\ PlanOK /\ todo \subseteq Routes
  BY <1>0, InAttempt DEF IndInv, LoopInv, Completed, Matched, TypeInv, PlanOK
<1>3. PICK t \in Layouts : t = Route[r].target
  BY <1>1, <1>2 DEF PlanOK
<1>4. val \in [Layouts -> State \cup {Torn}] /\ val[t] # Torn
  BY <1>0, <1>2, InAttempt DEF TypeInv
<1>5. CASE fails \/ ~Captures(r)
  <2>1. val' = [val EXCEPT ![t] = IF fails THEN Torn ELSE val[t]]
    BY <1>1, <1>3, <1>5 DEF MapNow
  <2>2. Only(t) /\ val'[t] \in {val[t], Torn}
    BY <1>4, <2>1 DEF Only
  <2>3. Leaves /\ raised' = "fail"
    BY <1>1, <1>5 DEF MapNow, Escape, Raise, Goto, Leaves
  <2>4. UNCHANGED <<session, port, captured, receipts, waiting, after, progress>>
    BY <1>1, <1>5 DEF MapNow
  <2> QED
    BY <1>1, <1>2, <1>3, <2>2, <2>3, <2>4
<1>6. CASE ~(fails \/ ~Captures(r))
  <2>1. PICK c \in State : c = val[Route[r].source]
    BY <1>0, <1>1, <1>2, InAttempt DEF PlanOK
  <2>2. /\ session' = [session EXCEPT ![r].captured = attempt, ![r].applied = TRUE,
                                      ![r].copy = c]
        /\ val' = [val EXCEPT ![t].mapped = @ \cup {<<r, receipts[r] + 1>>}]
        /\ receipts' = [receipts EXCEPT ![r] = @ + 1]
    BY <1>1, <1>3, <1>6, <2>1 DEF MapNow
  <2>3. /\ port' = [l \in Layouts |-> IF r \in Stage /\ port[l] = r THEN None ELSE port[l]]
        /\ waiting' = [l \in Layouts |-> IF r \in Stage /\ waiting[l] = r THEN None
                                                                       ELSE waiting[l]]
        /\ after' = after \ {r} /\ progress' = TRUE /\ captured' = captured \cup {r}
        /\ pc' = pc /\ todo' = todo \ {r} /\ raised' = raised /\ Captures(r)
    BY <1>1, <1>6 DEF MapNow, Goto
  <2>4. session \in [Routes -> Session] /\ attempt \in Nat
    BY <1>2 DEF TypeInv
  <2>5. /\ Wrote(r) /\ session'[r].captured = attempt
        /\ session'[r].applied = TRUE /\ session'[r].copy = c
    <3>1. r \in Routes
      BY <1>1, <1>2
    <3>2. session' = [session EXCEPT ![r].captured = attempt, ![r].applied = TRUE, ![r].copy = c]
      BY <2>2
    <3> QED
      BY ONLY <2>1, <2>4, <3>1, <3>2, SessionWrites
  <2>8. r \in Nat /\ receipts[r] + 1 \in Nat
    BY <1>1, <1>2 DEF PlanOK, TypeInv
  <2>6. PICK y \in Nat \X Nat : y = <<r, receipts[r] + 1>>
    BY <2>8
  <2>7. /\ Only(t) /\ val'[t] \in State /\ val'[t].step = val[t].step
        /\ val'[t].regions = val[t].regions /\ val'[t].mapped = val[t].mapped \cup {y}
    BY <1>4, <2>2, <2>6, WriteMapped DEF Only
  <2> QED
    BY <1>1, <1>2, <1>3, <2>1, <2>2, <2>3, <2>5, <2>6, <2>7
<1> QED
  BY <1>5, <1>6

\* A region runs up to the next port of its Program or to its end, or raises.
LEMMA RegionEffect ==
  ASSUME IndInv, Region
  PROVE  \E l \in todo :
           /\ l \in Layouts /\ First(l) /\ Only(l)
           /\ \/ /\ Leaves /\ raised' \in {"reject", "fail"} /\ waiting' = waiting
                 /\ progress' = progress /\ port' \in [Layouts -> Routes \cup {None}]
              \/ /\ pc' = "regions" /\ todo' = todo \ {l} /\ raised' = raised /\ progress' = TRUE
                 /\ val'[l] \in State /\ val'[l].step = val[l].step
                 /\ val'[l].mapped = val[l].mapped /\ val'[l].regions = val[l].regions + 1
                 /\ LET n == val[l].regions + 1 IN
                      \/ /\ n <= Len1(l) /\ port' = [port EXCEPT ![l] = Port(l, n)[1]]
                         /\ waiting' = [waiting EXCEPT ![l] = Port(l, n)[1]]
                      \/ /\ n > Len1(l) /\ port' = [port EXCEPT ![l] = None]
                         /\ waiting' = [waiting EXCEPT ![l] = Over]
<1>0. pc = "regions" /\ pc \in Working
  BY DEF Region, Working, Passing
<1> DEFINE n(l) == val[l].regions + 1
           stop(l) == IF n(l) <= Len(Ports(l)) THEN Ports(l)[n(l)][1] ELSE None
<1>1. PICK l \in todo, class \in {"none", "reject", "fail"} :
        /\ First(l)
        /\ IF class = "none" /\ Bound(l, stop(l))
             THEN /\ val' = [val EXCEPT ![l].regions = n(l)]
                  /\ port' = [port EXCEPT ![l] = stop(l)]
                  /\ waiting' = [waiting EXCEPT ![l] = IF stop(l) = None THEN Over ELSE stop(l)]
                  /\ progress' = TRUE
                  /\ Goto("regions", todo \ {l}) /\ raised' = raised
             ELSE /\ val' = [val EXCEPT ![l] = Torn]
                  /\ port' = [port EXCEPT ![l] = None]
                  /\ Escape(IF class = "none" THEN "fail" ELSE class)
                  /\ UNCHANGED <<waiting, progress>>
  BY DEF Region
<1>2. TypeInv /\ PlanOK /\ todo \subseteq Layouts
  BY <1>0, InAttempt DEF IndInv, LoopInv, Runnable
<1>3. l \in Layouts /\ val \in [Layouts -> State \cup {Torn}] /\ val[l] # Torn /\ n(l) \in Nat \ {0}
  BY <1>0, <1>1, <1>2, InAttempt, Records DEF TypeInv
<1>4. port \in [Layouts -> Routes \cup {None}]
  BY <1>2 DEF TypeInv
<1>5. CASE class = "none" /\ Bound(l, stop(l))
  <2>1. val' = [val EXCEPT ![l].regions = n(l)]
    BY <1>1, <1>5
  <2>2. /\ Only(l) /\ val'[l] \in State /\ val'[l].step = val[l].step
        /\ val'[l].regions = n(l) /\ val'[l].mapped = val[l].mapped
    BY <1>3, <2>1, WriteRegions DEF Only
  <2>3. pc' = "regions" /\ todo' = todo \ {l} /\ raised' = raised /\ progress' = TRUE
    BY <1>1, <1>5 DEF Goto
  <2>4. CASE n(l) <= Len1(l)
    <3>1. stop(l) = Port(l, n(l))[1] /\ Port(l, n(l))[1] # None
      <4>1. n(l) \in 1 .. Len1(l) /\ l \in Layouts
        BY <1>2, <1>3, <2>4 DEF PlanOK
      <4>2. Port(l, n(l))[1] \in Stage /\ None \notin Routes /\ Stage \subseteq Routes
        BY <1>2, <4>1 DEF PlanOK
      <4> QED
        BY <2>4, <4>2 DEF Port, Len1
    <3>2. /\ port' = [port EXCEPT ![l] = Port(l, n(l))[1]]
          /\ waiting' = [waiting EXCEPT ![l] = Port(l, n(l))[1]]
      BY <1>1, <1>5, <3>1
    <3> HIDE DEF stop
    <3> QED
      BY <1>1, <1>3, <2>2, <2>3, <2>4, <3>2
  <2>5. CASE ~(n(l) <= Len1(l))
    <3>1. stop(l) = None /\ n(l) > Len1(l)
      BY <1>2, <1>3, <2>5 DEF PlanOK, Len1
    <3>2. port' = [port EXCEPT ![l] = None] /\ waiting' = [waiting EXCEPT ![l] = Over]
      BY <1>1, <1>5, <3>1
    <3> HIDE DEF stop
    <3> QED
      BY <1>1, <1>3, <2>2, <2>3, <3>1, <3>2
  <2> QED
    BY <2>4, <2>5
<1>6. CASE ~(class = "none" /\ Bound(l, stop(l)))
  <2>1. /\ val' = [val EXCEPT ![l] = Torn] /\ port' = [port EXCEPT ![l] = None]
        /\ waiting' = waiting /\ progress' = progress
    BY <1>1, <1>6
  <2>2. Leaves /\ raised' \in {"reject", "fail"}
    BY <1>1, <1>6 DEF Escape, Raise, Goto, Leaves
  <2>3. Only(l) /\ port' \in [Layouts -> Routes \cup {None}]
    BY <1>3, <1>4, <2>1 DEF Only
  <2> QED
    BY <1>1, <1>3, <2>1, <2>2, <2>3
<1> QED
  BY <1>5, <1>6

\* The sessions begin, or those before the first that refuses are rolled back.
LEMMA OpenEffect ==
  ASSUME TypeInv, BeginSessions
  PROVE  /\ session' \in [Routes -> Session] /\ generation' \in Nat
         /\ \A r \in Routes : /\ session'[r].captured = session[r].captured
                              /\ session'[r].applied = session[r].applied
                              /\ session'[r].copy = session[r].copy
         /\ \/ /\ pc' = "attempt" /\ todo' = {} /\ raised' = raised
               /\ active' = generation' /\ attempt' = 0
               /\ \A r \in Routes : session'[r].active = generation'
            \/ /\ pc' = "undo" /\ todo' = Layouts /\ raised' = "fail"
               /\ active' = active /\ attempt' = attempt
               /\ \A r \in Routes : session'[r].active = session[r].active
<1>1. session \in [Routes -> Session] /\ generation' \in Nat
  BY DEF TypeInv, BeginSessions
<1>2. PICK refusing : refusing = {r \in Routes : session[r].active # None
                                                  \/ generation' <= session[r].last}
  OBVIOUS
<1>3. CASE refusing = {}
  <2>1. /\ session' = [r \in Routes |-> [session[r] EXCEPT !.active = generation']]
        /\ pc' = "attempt" /\ todo' = {} /\ raised' = raised /\ active' = generation' /\ attempt' = 0
    BY <1>2, <1>3 DEF BeginSessions, Goto
  <2>2. ASSUME NEW r \in Routes
        PROVE  /\ session'[r] \in Session /\ session'[r].captured = session[r].captured
               /\ session'[r].applied = session[r].applied /\ session'[r].copy = session[r].copy
               /\ session'[r].active = generation'
    <3>1. PICK x \in Session : x = session[r]
      BY <1>1
    <3>2. PICK y : y = [x EXCEPT !.active = generation']
      OBVIOUS
    <3>3. PICK g \in Nat : g = generation'
      BY <1>1
    <3>4. y = [x EXCEPT !.active = g]
      BY <3>2, <3>3
    <3>5. y \in Session /\ y.captured = x.captured /\ y.applied = x.applied /\ y.copy = x.copy /\ y.active = g
      BY ONLY x \in Session, g \in Nat, <3>4 DEF Session
    <3>6. session'[r] = y
      BY <2>1, <3>1, <3>2
    <3> QED
      BY <3>1, <3>3, <3>5, <3>6
  <2>3. session' \in [Routes -> Session]
    <3>1. DOMAIN session' = Routes /\ session' = [r \in Routes |-> session'[r]]
      BY <2>1
    <3> QED
      BY <2>2, <3>1
  <2> QED
    BY <1>1, <2>1, <2>2, <2>3
<1>4. CASE refusing # {}
  <2>1. /\ session' = [r \in Routes |-> IF \E q \in refusing : q <= r THEN session[r]
                                        ELSE [session[r] EXCEPT !.last = generation']]
        /\ pc' = "undo" /\ todo' = Layouts /\ raised' = "fail" /\ active' = active /\ attempt' = attempt
    BY <1>2, <1>4 DEF BeginSessions, Goto, Raise
  <2>2. ASSUME NEW r \in Routes
        PROVE  /\ session'[r] \in Session /\ session'[r].captured = session[r].captured
               /\ session'[r].applied = session[r].applied /\ session'[r].copy = session[r].copy
               /\ session'[r].active = session[r].active
    <3>1. PICK x \in Session : x = session[r]
      BY <1>1
    <3>2. PICK y : y = [x EXCEPT !.last = generation']
      OBVIOUS
    <3>3. PICK g \in Nat : g = generation'
      BY <1>1
    <3>4. y = [x EXCEPT !.last = g]
      BY <3>2, <3>3
    <3>5. y \in Session /\ y.captured = x.captured /\ y.applied = x.applied /\ y.copy = x.copy /\ y.active = x.active
      BY ONLY x \in Session, g \in Nat, <3>4 DEF Session
    <3>6. session'[r] = y \/ session'[r] = x
      BY <2>1, <3>1, <3>2
    <3> QED
      BY <3>1, <3>5, <3>6
  <2>3. session' \in [Routes -> Session]
    <3>1. session' = [r \in Routes |-> session'[r]]
      BY <2>1
    <3> QED
      BY <2>2, <3>1
  <2> QED
    BY <1>1, <2>1, <2>2, <2>3
<1> QED
  BY <1>3, <1>4

\* A closed session.
LEMMA ClosedEffect ==
  ASSUME TypeInv, active # None, NEW r \in Routes
  PROVE  /\ Closed(r) \in Session /\ Closed(r).active = None /\ Closed(r).captured = 0
         /\ Closed(r).applied = FALSE
<1>1. PICK x \in Session : x = session[r]
  BY DEF TypeInv
<1>2. PICK a \in Nat : a = active
  BY DEF TypeInv
<1>3. PICK y : y = [x EXCEPT !.last = a, !.active = None, !.captured = 0, !.applied = FALSE, !.copy = None]
  OBVIOUS
<1>4. Closed(r) = y
  BY <1>1, <1>2, <1>3 DEF Closed
<1>5. y \in Session /\ y.active = None /\ y.captured = 0 /\ y.applied = FALSE
  BY ONLY x \in Session, a \in Nat, <1>3 DEF Session
<1> QED
  BY <1>4, <1>5

\* The sessions an attempt used are reset, or left alone.
LEMMA RejectEffect ==
  ASSUME TypeInv, RejectAttempt
  PROVE  /\ session' \in [Routes -> Session]
         /\ \A r \in Routes : /\ session'[r].active = session[r].active
                              /\ \/ session'[r] = session[r]
                                 \/ session'[r].captured = 0 /\ session'[r].applied = FALSE
<1>1. PICK resets : session' = [r \in Routes |-> IF r \in resets
                        THEN [session[r] EXCEPT !.captured = 0, !.applied = FALSE]
                        ELSE session[r]]
  BY DEF RejectAttempt
<1>2. ASSUME NEW r \in Routes
      PROVE  /\ session'[r] \in Session /\ session'[r].active = session[r].active
             /\ \/ session'[r] = session[r]
                \/ session'[r].captured = 0 /\ session'[r].applied = FALSE
  <2>1. PICK x \in Session : x = session[r]
    BY DEF TypeInv
  <2>2. PICK y : y = [x EXCEPT !.captured = 0, !.applied = FALSE]
    OBVIOUS
  <2>3. y \in Session /\ y.active = x.active /\ y.captured = 0 /\ y.applied = FALSE
    BY ONLY x \in Session, <2>2 DEF Session
  <2>4. session'[r] = x \/ session'[r] = y
    BY <1>1, <2>1, <2>2
  <2> QED
    BY <2>1, <2>3, <2>4
<1>3. session' = [r \in Routes |-> session'[r]]
  BY <1>1
<1> QED
  BY <1>2, <1>3

\* The sessions after a rollback.
LEMMA RollbackEffect ==
  ASSUME TypeInv, SessionInv, RollbackDone
  PROVE  /\ session' \in [Routes -> Session] /\ counts' \in [Mappings -> Nat]
         /\ \A r \in Routes : /\ session'[r].active = None /\ session'[r].captured = 0
                              /\ session'[r].applied = FALSE
<1>1. session' = [r \in Routes |-> IF active # None /\ session[r].active = active
                                     THEN Closed(r) ELSE session[r]]
  BY DEF RollbackDone
<1>2. session \in [Routes -> Session] /\ counts' \in [Mappings -> Nat]
  BY DEF TypeInv, RollbackDone
<1>3. CASE active # None
  <2>1. \A r \in Routes : session'[r] = Closed(r)
    BY <1>1, <1>3 DEF SessionInv
  <2>2. session' = [r \in Routes |-> session'[r]]
    BY <1>1
  <2> QED
    BY <1>2, <1>3, <2>1, <2>2, ClosedEffect
<1>4. CASE active = None
  <2>1. \A r \in Routes : session'[r] = session[r]
    BY <1>1, <1>4
  <2>2. session' = [r \in Routes |-> session'[r]]
    BY <1>1
  <2>3. \A r \in Routes : /\ session'[r].active = None /\ session'[r].captured = 0
                          /\ session'[r].applied = FALSE
    <3> SUFFICES ASSUME NEW r \in Routes
                 PROVE  /\ session'[r].active = None /\ session'[r].captured = 0
                        /\ session'[r].applied = FALSE
      OBVIOUS
    <3>1. session[r].active = None /\ Unused(r)
      BY <1>4 DEF SessionInv
    <3>2. session[r].applied \in BOOLEAN
      BY <1>2 DEF Session
    <3> QED
      BY <2>1, <3>1, <3>2 DEF Unused
  <2> QED
    BY <1>2, <2>1, <2>2, <2>3
<1> QED
  BY <1>3, <1>4

-----------------------------------------------------------------------------
(* Types.                                                                  *)

\* What a step leaves well-typed in terms of the plan it does not change.
LEMMA TypeGoal ==
  ASSUME plan' = plan, plan \in Plans, pc' \in Places,
         steps' \in Nat, generation' \in Nat, attempt' \in Nat,
         raised' \in {"none", "reject", "fail"},
         val' \in [Layouts -> State \cup {Torn}], txn' \in [Layouts -> State \cup {None}],
         port' \in [Layouts -> Routes \cup {None}],
         waiting' \in [Layouts -> Routes \cup {None, Over}],
         session' \in [Routes -> Session], counts' \in [Mappings -> Nat],
         active' \in Nat \cup {None}, saved' \in [Mappings -> Nat] \cup {None},
         receipts' \in [Routes -> Nat], fires' \in Nat,
         captured' \subseteq Routes, after' \subseteq After, progress' \in BOOLEAN
  PROVE  TypeInv'
BY PlanSame DEF TypeInv

\* A completed attempt counts the transfers that the step is made of.
LEMMA GainedIs ==
  ASSUME IndInv, pc = "advanced"
  PROVE  \A m : Gained(m) = Evaluations(m, CadenceDue)
BY DEF IndInv, EndInv, Gained, Evaluations

\* Every step keeps the types.
LEMMA TypeStep ==
  ASSUME IndInv, Next
  PROVE  TypeInv'
<1> USE TypeGoal
<1>0. plan' = plan /\ PlanOK /\ TypeInv
  BY Setup, PlanFacts DEF IndInv, TypeInv
<1>1. CASE Schedule
  BY <1>0, <1>1 DEF TypeInv, Schedule, Goto, bounds, native, coordinator, locals, Places, Outside
<1>2. CASE Call
  BY <1>0, <1>2 DEF TypeInv, Call, Goto, bounds, native, coordinator, locals, Places
<1>3. CASE BeginEngine
  <2>1. pc = "begin" /\ todo \subseteq Layouts /\ \A l \in todo : Rests(l)
    BY <1>3 DEF IndInv, LayoutInv, BeginEngine
  <2>2. PICK l \in todo, fails \in BOOLEAN :
          /\ First(l) /\ Begins(l, fails)
          /\ IF fails THEN Raise("fail", "undo", 1 .. (l - 1))
                      ELSE Goto("begin", todo \ {l}) /\ raised' = raised
    BY <1>3 DEF BeginEngine
  <2>3. fails \/ val[l] # Torn
    BY <2>1, <2>2, Records DEF Begins, Rests, Clean, Broken, Base, IndInv, TypeInv
  <2>4. val' = val /\ port' = port /\ txn' \in [Layouts -> State \cup {None}]
    BY <1>0, <2>1, <2>2, <2>3, BeginsEffect
  <2> QED
    BY <1>0, <1>3, <2>2, <2>4 DEF TypeInv, BeginEngine, Goto, Raise, bounds, coordinator, locals, Places, Undoing
<1>4. CASE UndoBegin \/ RestoreEngine \/ UnwindBegun \/ RollbackEngine
  <2>1. todo \subseteq Layouts
    BY <1>4 DEF IndInv, LayoutInv, UndoBegin, RestoreEngine, UnwindBegun, RollbackEngine
  <2>2. PICK l \in todo, fails \in BOOLEAN : RollsBack(l, fails)
    BY <1>4 DEF UndoBegin, RestoreEngine, UnwindBegun, RollbackEngine
  <2>3. /\ val' \in [Layouts -> State \cup {Torn}] /\ txn' \in [Layouts -> State \cup {None}]
        /\ port' \in [Layouts -> Routes \cup {None}]
    BY <1>0, <2>1, <2>2, RollsBackEffect
  <2> QED
    BY <1>0, <1>4, <2>3 DEF TypeInv, UndoBegin, RestoreEngine, UnwindBegun, RollbackEngine, Goto,
                            Raise, bounds, coordinator, locals, Places, Undoing
<1>5. CASE BeginAgain
  <2>1. pc = "again" /\ todo \subseteq Layouts /\ \A l \in todo : Clean(l)
    BY <1>5 DEF IndInv, LayoutInv, BeginAgain
  <2>2. PICK l \in todo, fails \in BOOLEAN :
          /\ First(l) /\ Begins(l, fails)
          /\ IF fails THEN Raise("fail", "unwind", 1 .. (l - 1))
                      ELSE Goto("again", todo \ {l}) /\ raised' = raised
    BY <1>5 DEF BeginAgain
  <2>3. fails \/ val[l] # Torn
    BY <2>1, <2>2, Records DEF Clean, Base, IndInv, TypeInv
  <2>4. val' = val /\ port' = port /\ txn' \in [Layouts -> State \cup {None}]
    BY <1>0, <2>1, <2>2, <2>3, BeginsEffect
  <2> QED
    BY <1>0, <1>5, <2>2, <2>4 DEF TypeInv, BeginAgain, Goto, Raise, bounds, coordinator, locals, Places, Undoing
<1>6. CASE UndoneBegin \/ ScriptDone \/ StartRegions \/ StartPorts \/ EndPass \/ RestoreDone \/ LeaveStep
  BY <1>0, <1>6 DEF TypeInv, UndoneBegin, ScriptDone, StartRegions, StartPorts, EndPass,
       RestoreDone, LeaveStep, Goto, bounds, native, coordinator, locals, Places, Undoing,
       Working, Passing
<1>7. CASE BeginSessions
  BY <1>0, <1>7, OpenEffect DEF TypeInv, BeginSessions, native, bounds, locals, Places, Undoing
<1>8. CASE Attempt
  BY <1>0, <1>8 DEF TypeInv, Attempt, Goto, bounds, native, coordinator, locals, Places, Working
<1>9. CASE CaptureOp
  <2>1. session' \in [Routes -> Session] /\ captured' \subseteq Routes /\ pc' \in Places
        /\ raised' \in {"none", "reject", "fail"}
    BY <1>0, <1>9, CaptureEffect DEF Wrote, Leaves, TypeInv, Places, Undoing, Working
  <2> QED
    BY <1>0, <1>9, <2>1 DEF TypeInv, CaptureOp, bounds, native, coordinator
<1>10. CASE ApplyOp
  <2>1. session' \in [Routes -> Session] /\ pc' \in Places /\ raised' \in {"none", "reject", "fail"}
        /\ val' \in [Layouts -> State \cup {Torn}] /\ port' = port
    BY <1>0, <1>10, ApplyEffect DEF Wrote, Only, Leaves, TypeInv, Places, Undoing, Working
  <2>2. \E r \in Routes : receipts' \in {receipts, [receipts EXCEPT ![r] = @ + 1]}
    BY <1>10, ApplyEffect
  <2>3. receipts' \in [Routes -> Nat]
    BY <1>0, <2>2 DEF TypeInv
  <2> QED
    BY <1>0, <1>10, <2>1, <2>3 DEF TypeInv, ApplyOp, bounds, coordinator, locals
<1>11. CASE StepOp
  <2>1. pc' \in Places /\ raised' \in {"none", "reject", "fail"} /\ val' \in [Layouts -> State \cup {Torn}]
    BY <1>0, <1>11, StepEffect DEF Only, Leaves, TypeInv, Places, Undoing, Working
  <2> QED
    BY <1>0, <1>11, <2>1 DEF TypeInv, StepOp, bounds, coordinator, locals
<1>12. CASE Pass
  BY <1>0, <1>12 DEF TypeInv, Pass, Goto, Escape, Raise, bounds, native, coordinator, locals, Places,
       Undoing, Working, Passing
<1>13. CASE MapRoute
  <2>1. pc \in Places
    BY <1>13 DEF MapRoute, Places, Working, Passing
  <2>2. session' \in [Routes -> Session] /\ pc' \in Places /\ raised' \in {"none", "reject", "fail"}
        /\ val' \in [Layouts -> State \cup {Torn}] /\ captured' \subseteq Routes
        /\ after' \subseteq After /\ progress' \in BOOLEAN
    BY <1>0, <1>13, <2>1, MapEffect DEF Wrote, Only, Leaves, TypeInv, Places, Undoing
  <2>3. /\ port' \in [Layouts -> Routes \cup {None}]
        /\ waiting' \in [Layouts -> Routes \cup {None, Over}]
    BY <1>0, <1>13, MapEffect DEF TypeInv
  <2>4. \E r \in Routes : receipts' \in {receipts, [receipts EXCEPT ![r] = @ + 1]}
    BY <1>13, MapEffect
  <2>5. receipts' \in [Routes -> Nat]
    BY <1>0, <2>4 DEF TypeInv
  <2> QED
    BY <1>0, <1>13, <2>2, <2>3, <2>5 DEF TypeInv, MapRoute, bounds, coordinator
<1>14. CASE Region
  <2>1. PICK l \in Layouts :
           /\ Only(l)
           /\ \/ /\ Leaves /\ raised' \in {"reject", "fail"} /\ waiting' = waiting
                 /\ progress' = progress /\ port' \in [Layouts -> Routes \cup {None}]
              \/ /\ pc' = "regions" /\ raised' = raised /\ progress' = TRUE
                 /\ LET n == val[l].regions + 1 IN
                      \/ /\ n <= Len1(l) /\ port' = [port EXCEPT ![l] = Port(l, n)[1]]
                         /\ waiting' = [waiting EXCEPT ![l] = Port(l, n)[1]]
                      \/ /\ n > Len1(l) /\ port' = [port EXCEPT ![l] = None]
                         /\ waiting' = [waiting EXCEPT ![l] = Over]
    BY <1>14, RegionEffect
  <2>2. pc' \in Places /\ raised' \in {"none", "reject", "fail"} /\ progress' \in BOOLEAN
        /\ val' \in [Layouts -> State \cup {Torn}]
    BY <1>0, <2>1 DEF Only, Leaves, TypeInv, Places, Undoing, Working, Passing
  <2>3. pc \in Working
    BY <1>14 DEF Region, Working, Passing
  <2>4. PICK n \in Nat \ {0} : n = val[l].regions + 1
    BY <2>3, InAttempt, Records
  <2>5. n <= Len1(l) => Port(l, n)[1] \in Routes
    <3>1. n <= Len1(l) => n \in 1 .. Len1(l)
      BY <1>0, <2>4 DEF PlanOK
    <3> QED
      BY <1>0, <3>1 DEF PlanOK
  <2>6. port' \in [Layouts -> Routes \cup {None}] /\ waiting' \in [Layouts -> Routes \cup {None, Over}]
    BY <1>0, <2>1, <2>4, <2>5 DEF TypeInv
  <2> QED
    BY <1>0, <1>14, <2>2, <2>6 DEF TypeInv, Region, bounds, coordinator
<1>15. CASE RejectAttempt
  <2>1. session' \in [Routes -> Session]
    BY <1>0, <1>15, RejectEffect
  <2> QED
    BY <1>0, <1>15, <2>1 DEF TypeInv, RejectAttempt, Goto, bounds, native, coordinator, locals, Places, Undoing
<1>16. CASE Advanced
  <2>1. counts' = [m \in Mappings |-> counts[m] + Gained(m)] /\ pc = "advanced" /\ plan \in Plans
    BY <1>0, <1>16 DEF Advanced, TypeInv
  <2>3. CadenceDue \in BOOLEAN
    BY DEF CadenceDue
  <2>4. \A m : Evaluations(m, CadenceDue) \in Nat
    BY <2>1, <2>3, Finite
  <2>5. \A m : Gained(m) \in Nat
    BY <2>1, <2>4, GainedIs
  <2>2. counts' \in [Mappings -> Nat]
    BY <1>0, <2>1, <2>5 DEF TypeInv
  <2> QED
    BY <1>0, <1>16, <2>2 DEF TypeInv, Advanced, Goto, bounds, native, coordinator, locals, Places, Working
<1>17. CASE Commit \/ EffectFails
  BY <1>0, <1>17 DEF TypeInv, Commit, EffectFails, Goto, Raise, bounds, native, coordinator, locals,
       Places, Working, Undoing
<1>18. CASE Finalize
  <2>1. pc \in Working /\ pc = "publish" /\ active # None
    BY <1>18 DEF Finalize, IndInv, SessionInv, Working, Outside
  <2>2. session' = [r \in Routes |-> Closed(r)]
    BY <1>18 DEF Finalize
  <2>3. session' \in [Routes -> Session]
    BY <1>0, <2>1, <2>2, ClosedEffect
  <2>4. \A l \in Layouts : Base(val[l].step + 1) \in State
    BY <2>1, InAttempt, Records
  <2>5. val' \in [Layouts -> State \cup {Torn}]
    BY <1>18, <2>4 DEF Finalize
  <2>6. /\ txn' \in [Layouts -> State \cup {None}] /\ waiting' \in [Layouts -> Routes \cup {None, Over}]
        /\ captured' \subseteq Routes /\ after' \subseteq After /\ progress' \in BOOLEAN
        /\ port' = port /\ generation' = generation /\ counts' = counts /\ raised' = raised
    BY <1>18 DEF Finalize
  <2>7. /\ pc' \in Places /\ steps' \in Nat /\ attempt' \in Nat /\ active' \in Nat \cup {None}
        /\ saved' \in [Mappings -> Nat] \cup {None}
        /\ receipts' \in [Routes -> Nat] /\ fires' \in Nat
    BY <1>0, <1>18 DEF TypeInv, Finalize, Goto, Places, Outside
  <2> QED
    BY <1>0, <2>3, <2>5, <2>6, <2>7 DEF TypeInv
<1>19. CASE RollbackDone
  <2>1. session' \in [Routes -> Session] /\ counts' \in [Mappings -> Nat]
    BY <1>0, <1>19, RollbackEffect DEF IndInv
  <2> QED
    BY <1>0, <1>19, <2>1 DEF TypeInv, RollbackDone, Goto, native, Places, Outside
<1> QED
  BY <1>1, <1>2, <1>3, <1>4, <1>5, <1>6, <1>7, <1>8, <1>9, <1>10, <1>11, <1>12, <1>13, <1>14,
     <1>15, <1>16, <1>17, <1>18, <1>19
     DEF Next, Begin, Mapping, Maps, Rejection, Envelope

-----------------------------------------------------------------------------
(* The schedule.                                                           *)

\* Only the scheduler runs during construction, and nothing after a refusal.
LEMMA Construction ==
  ASSUME Next, pc \in {"construct", "refused"}
  PROVE  Schedule
<1>1. ~Begin
  BY DEF Begin, Call, BeginEngine, BeginSessions, UndoBegin, UndoneBegin
<1>2. ~Mapping
  BY DEF Mapping, Attempt, CaptureOp, ApplyOp, StepOp, ScriptDone
<1>3. ~Maps
  BY DEF Maps, Pass, MapRoute, StartRegions, Region, StartPorts, EndPass
<1>4. ~Rejection
  BY DEF Rejection, RejectAttempt, RestoreEngine, RestoreDone, BeginAgain, UnwindBegun, LeaveStep
<1>5. ~Envelope
  BY DEF Envelope, Advanced, Commit, EffectFails, Finalize, RollbackEngine, RollbackDone
<1> QED
  BY <1>1, <1>2, <1>3, <1>4, <1>5 DEF Next

\* What an emitted event needs is emitted.
LEMMA EmittedClosed ==
  ASSUME SchedInv, NEW e \in Emitted
  PROVE  Needs(e) \subseteq Emitted
<1>1. Len(schedule) \in Nat /\ DOMAIN schedule = 1 .. Len(schedule)
  BY DEF SchedInv
<1>2. PICK n \in 1 .. Len(schedule) : e \in schedule[n]
  BY <1>1 DEF Emitted
<1>3. Needs(e) \subseteq Upto(n)
  BY <1>2 DEF SchedInv
<1>4. 1 .. (n - 1) \subseteq 1 .. Len(schedule)
  BY <1>1
<1>5. Upto(n) \subseteq Emitted
  BY <1>1, <1>4 DEF Upto, Emitted
<1> QED
  BY <1>3, <1>5

\* A layout whose step is emitted, or ready, has the sources that feed it emitted.
LEMMA FedByEmitted ==
  ASSUME PlanOK, SchedInv, NEW a, NEW b, Needs(<<"step", b>>) \subseteq Emitted, Feeds(a, b)
  PROVE  a \in Stepped
<1>1. PICK r \in After : Route[r].source = a /\ Route[r].target = b
  BY DEF Feeds
<1>2. r \in Into(b) \ Stage /\ a \in Layouts
  BY <1>1 DEF PlanOK, Into
<1>3. <<"apply", r>> \in Needs(<<"step", b>>)
  BY <1>2 DEF Needs
<1>4. Needs(<<"apply", r>>) \subseteq Emitted
  BY <1>3, EmittedClosed
<1>5. Needs(<<"apply", r>>) = {<<"step", a>>}
  BY <1>1 DEF Needs
<1> QED
  BY <1>2, <1>4, <1>5 DEF Stepped

\* A round is added to the schedule.
LEMMA AddRound ==
  ASSUME PlanOK, SchedInv, plan' = plan, schedule' = Append(schedule, Ready), pc' = "construct"
  PROVE  SchedInv'
<1>0. /\ Events' = Events /\ After' = After /\ Route' = Route
      /\ \A e : Needs(e)' = Needs(e) /\ \A a, b : Feeds(a, b)' = Feeds(a, b)
  BY PlanSame
<1>1. schedule \in Seq(SUBSET Events) /\ Len(schedule) \in Nat
  BY DEF SchedInv
<1>2. Ready \in SUBSET Events
  BY DEF Ready
<1>3. /\ schedule' \in Seq(SUBSET Events) /\ Len(schedule') = Len(schedule) + 1
      /\ \A n \in 1 .. Len(schedule) : schedule'[n] = schedule[n]
      /\ schedule'[Len(schedule) + 1] = Ready
  BY <1>1, <1>2
<1>4. \A n \in 1 .. Len(schedule) : Upto(n)' = Upto(n)
  <2> SUFFICES ASSUME NEW n \in 1 .. Len(schedule) PROVE Upto(n)' = Upto(n)
    OBVIOUS
  <2>1. \A m \in 1 .. (n - 1) : schedule'[m] = schedule[m]
    BY <1>1, <1>3
  <2> QED
    BY <2>1 DEF Upto
<1>5. ASSUME NEW k, k = Len(schedule) + 1
      PROVE  Upto(k)' = Emitted
  <2>1. 1 .. (k - 1) = 1 .. Len(schedule)
    BY <1>1, <1>5
  <2>2. DOMAIN schedule = 1 .. Len(schedule)
    BY <1>1
  <2>3. \A x : x \in UNION {schedule'[m] : m \in 1 .. Len(schedule)} <=> x \in Emitted
    BY <1>3, <2>2 DEF Emitted
  <2>4. UNION {schedule'[m] : m \in 1 .. (k - 1)} = Emitted
    BY <2>1, <2>3
  <2> QED
    BY <2>4 DEF Upto
<1>6. Emitted' = Emitted \cup Ready
  <2>1. DOMAIN schedule' = 1 .. (Len(schedule) + 1)
    BY <1>3
  <2>2. 1 .. (Len(schedule) + 1) = (1 .. Len(schedule)) \cup {Len(schedule) + 1}
    BY <1>1
  <2>3. DOMAIN schedule = 1 .. Len(schedule)
    BY <1>1
  <2>4. \A x : x \in Emitted' <=> \E n \in DOMAIN schedule' : x \in schedule'[n]
    BY DEF Emitted
  <2>5. \A x : x \in Emitted <=> \E n \in DOMAIN schedule : x \in schedule[n]
    BY DEF Emitted
  <2> QED
    BY <1>3, <2>1, <2>2, <2>3, <2>4, <2>5
<1>7. ASSUME NEW n \in 1 .. Len(schedule'), NEW e \in schedule'[n]
      PROVE  Needs(e) \subseteq Upto(n)' /\ e \notin Upto(n)'
  <2>1. CASE n \in 1 .. Len(schedule)
    BY <1>3, <1>4, <1>7, <2>1 DEF SchedInv
  <2>2. CASE n = Len(schedule) + 1
    BY <1>3, <1>5, <1>7, <2>2 DEF Ready
  <2> QED
    BY <1>1, <1>3, <2>1, <2>2
<1>8. ASSUME NEW S \in SUBSET Stepped', S # {}
      PROVE  \E b \in S : \A a \in S : ~Feeds(a, b)
  <2>1. \A b \in Stepped' : b \in Stepped \/ <<"step", b>> \in Ready
    BY <1>6 DEF Stepped
  <2>2. \A b \in Stepped' : Needs(<<"step", b>>) \subseteq Emitted
    BY <2>1, EmittedClosed DEF Ready, Stepped
  <2>3. \A b \in S, a \in S : Feeds(a, b) => a \in Stepped
    BY <2>2, FedByEmitted
  <2>4. CASE S \cap Stepped = {}
    BY <1>8, <2>3, <2>4
  <2>5. CASE S \cap Stepped # {}
    <3>1. PICK b \in S \cap Stepped : \A a \in S \cap Stepped : ~Feeds(a, b)
      BY <2>5 DEF SchedInv, Earliest
    <3> QED
      BY <2>3, <3>1
  <2> QED
    BY <2>4, <2>5
<1>9. \A S \in SUBSET Stepped' : S # {} => Earliest(S)'
  BY <1>0, <1>8 DEF Earliest
<1> QED
  BY <1>0, <1>3, <1>7, <1>9 DEF SchedInv

\* The schedule stays one that lists events after what they need.
LEMMA SchedStep ==
  ASSUME IndInv, Next
  PROVE  SchedInv'
<1>0. plan' = plan /\ PlanOK /\ SchedInv /\ (schedule' = schedule \/ Schedule)
  BY Setup, PlanFacts DEF IndInv, TypeInv
<1>1. /\ Events' = Events /\ After' = After /\ Route' = Route
      /\ \A e : Needs(e)' = Needs(e) /\ \A a, b : Feeds(a, b)' = Feeds(a, b)
  BY <1>0, PlanSame
<1>2. ASSUME schedule' = schedule
      PROVE  /\ Emitted' = Emitted /\ Ready' = Ready /\ Stepped' = Stepped
             /\ \A n : Upto(n)' = Upto(n)
             /\ schedule' \in Seq(SUBSET Events')
             /\ \A n \in 1 .. Len(schedule') : \A e \in schedule'[n] :
                  Needs(e)' \subseteq Upto(n)' /\ e \notin Upto(n)'
             /\ \A S \in SUBSET Stepped' : S # {} => Earliest(S)'
  <2>1. Emitted' = Emitted /\ \A n : Upto(n)' = Upto(n)
    BY <1>2 DEF Emitted, Upto
  <2>2. Ready' = Ready /\ Stepped' = Stepped
    BY <1>1, <2>1 DEF Ready, Stepped
  <2>3. \A S : Earliest(S)' <=> Earliest(S)
    BY <1>1 DEF Earliest
  <2> QED
    BY <1>0, <1>1, <1>2, <2>1, <2>2, <2>3 DEF SchedInv
<1>3. CASE Schedule
  <2>1. CASE pc' = "idle" /\ schedule' = schedule /\ (~plan.physical \/ Emitted = Events)
    BY <1>0, <1>1, <1>2, <2>1 DEF SchedInv
  <2>2. CASE pc' = "construct" /\ schedule' = Append(schedule, Ready)
    BY <1>0, <2>2, AddRound
  <2>3. CASE pc' = "refused" /\ schedule' = schedule /\ Emitted # Events /\ Ready = {}
    BY <1>0, <1>1, <1>2, <2>3 DEF SchedInv
  <2> QED
    BY <1>3, <2>1, <2>2, <2>3 DEF Schedule, Goto
<1>4. CASE ~Schedule
  <2>1. schedule' = schedule /\ pc \notin {"construct", "refused"} /\ pc' \notin {"construct", "refused"}
    BY <1>0, <1>4, Construction, Control
  <2>2. plan'.physical => Events' \subseteq Emitted'
    BY <1>0, <1>1, <1>2, <2>1 DEF SchedInv
  <2> QED
    BY <1>2, <2>1, <2>2 DEF SchedInv
<1> QED
  BY <1>3, <1>4

-----------------------------------------------------------------------------
(* The layouts.                                                            *)

\* A layout that a step leaves alone.
LEMMA LayoutSame ==
  ASSUME NEW l, steps' = steps, val'[l] = val[l], txn'[l] = txn[l], port'[l] = port[l],
         l \in swapped' <=> l \in swapped
  PROVE  /\ Clean(l)' = Clean(l) /\ Broken(l)' = Broken(l) /\ Rests(l)' = Rests(l)
         /\ Open(l)' = Open(l) /\ Fresh(l)' = Fresh(l) /\ Alive(l)' = Alive(l)
<1>1. Clean(l)' = Clean(l) /\ Broken(l)' = Broken(l) /\ Open(l)' = Open(l) /\ Alive(l)' = Alive(l)
  BY DEF Clean, Broken, Open, Alive, Base
<1> QED
  BY <1>1 DEF Rests, Fresh, Base

\* A layout just inside a transaction is alive in it.
LEMMA FreshOpen ==
  ASSUME steps \in Nat, NEW l
  PROVE  /\ Fresh(l) => Open(l) /\ Alive(l)
         /\ Alive(l) => Open(l)
         /\ Clean(l) => Rests(l)
BY Records DEF Fresh, Open, Alive, Rests

\* A rollback leaves the layout as it was accepted, or torn with its snapshot.
LEMMA RollsBackLayout ==
  ASSUME TypeInv, steps' = steps, NEW l \in Layouts, NEW fails \in BOOLEAN, RollsBack(l, fails)
  PROVE  /\ \A k \in Layouts \ {l} : /\ Clean(k)' = Clean(k) /\ Rests(k)' = Rests(k)
                                     /\ Open(k)' = Open(k)
         /\ Open(l) \/ Rests(l) => Rests(l)'
         /\ Open(l) /\ ~fails => Clean(l)'
<1>1. /\ \A k \in Layouts \ {l} : val'[k] = val[k] /\ txn'[k] = txn[k] /\ port'[k] = port[k]
      /\ txn[l] = None =>
           fails /\ val'[l] = val[l] /\ txn'[l] = None /\ port'[l] = port[l]
      /\ txn[l] # None /\ fails =>
           val'[l] = Torn /\ txn'[l] = txn[l] /\ port'[l] = None
      /\ txn[l] # None /\ ~fails =>
           val'[l] = txn[l] /\ txn'[l] = None /\ port'[l] = None
      /\ \A k \in Layouts \ {l} : k \in swapped' <=> k \in swapped
      /\ (l \in swapped => l \in swapped') /\ (txn[l] # None /\ fails => l \in swapped')
  BY RollsBackEffect
<1>2. \A k \in Layouts \ {l} : /\ Clean(k)' = Clean(k) /\ Rests(k)' = Rests(k)
                               /\ Open(k)' = Open(k)
  BY <1>1, LayoutSame
<1>3. Base(steps) # None /\ Base(steps)' = Base(steps)
  BY Records DEF TypeInv, Base
<1>4. ASSUME Open(l) PROVE Rests(l)'
  BY <1>1, <1>3, <1>4 DEF Open, Rests, Clean, Broken
<1>5. ASSUME Clean(l) PROVE Rests(l)'
  BY <1>1, <1>3, <1>5 DEF Clean, Rests
<1>6. Broken(l) => Open(l)
  BY DEF Broken, Open
<1>7. Open(l) /\ ~fails => Clean(l)'
  BY <1>1, <1>3 DEF Open, Clean
<1> QED
  BY <1>2, <1>4, <1>5, <1>6, <1>7 DEF Rests

\* A begin in order: the layout opens, or those before it are open and the others not.
LEMMA BeginsLayout ==
  ASSUME TypeInv, steps' = steps, todo \subseteq Layouts, UpClosed, NEW l \in todo, First(l),
         NEW fails \in BOOLEAN, Begins(l, fails), fails \/ val[l] # Torn,
         \A k \in Layouts : IF k \in todo THEN Rests(k) ELSE Fresh(k)
  PROVE  /\ \A k \in Layouts \ {l} : /\ Clean(k)' = Clean(k) /\ Rests(k)' = Rests(k)
                                     /\ Open(k)' = Open(k) /\ Fresh(k)' = Fresh(k)
         /\ ~fails => /\ Fresh(l)'
                      /\ \A j \in todo \ {l} : \A k \in Layouts : j < k => k \in todo \ {l}
         /\ fails => /\ 1 .. (l - 1) \subseteq Layouts /\ Rests(l)'
                     /\ \A k \in Layouts : IF k \in 1 .. (l - 1) THEN k \notin todo
                                                                 ELSE k \in todo
<1>1. l \in Layouts /\ Layouts \subseteq Nat \ {0}
  <2>1. NumLayouts \in Nat
    BY MultiLayoutAssumption
  <2> QED
    BY <2>1 DEF Layouts
<1>2. /\ val' = val /\ port' = port /\ swapped' = swapped
      /\ \A k \in Layouts \ {l} : txn'[k] = txn[k]
      /\ (fails => txn' = txn) /\ (~fails => txn[l] = None /\ txn'[l] = val[l])
  BY <1>1, BeginsEffect
<1>3. \A k \in Layouts \ {l} : /\ Clean(k)' = Clean(k) /\ Rests(k)' = Rests(k)
                               /\ Open(k)' = Open(k) /\ Fresh(k)' = Fresh(k)
  BY <1>2, LayoutSame
<1>4. ASSUME ~fails PROVE Fresh(l)'
  <2>1. Base(steps)' = Base(steps) /\ Rests(l)
    BY <1>1 DEF Base
  <2>2. Clean(l)
    BY <1>2, <1>4, <2>1 DEF Rests, Broken
  <2> QED
    BY <1>2, <1>4, <2>1, <2>2 DEF Clean, Fresh, Open
<1>5. \A j \in todo \ {l} : \A k \in Layouts : j < k => k \in todo \ {l}
  BY <1>1 DEF UpClosed, First
<1>6. 1 .. (l - 1) \subseteq Layouts
  BY <1>1, MultiLayoutAssumption DEF Layouts
<1>7. \A k \in Layouts : IF k \in 1 .. (l - 1) THEN k \notin todo ELSE k \in todo
  BY <1>1 DEF UpClosed, First
<1>8. fails => Rests(l)'
  BY <1>1, <1>2, LayoutSame
<1> QED
  BY <1>3, <1>4, <1>5, <1>6, <1>7, <1>8

\* What an operation of an attempt does to the layouts.
LEMMA AttemptLayout ==
  ASSUME IndInv, TypeInv', steps' = steps, txn' = txn, pc \in Working,
         pc' \in Working \/ Leaves,
         \A l \in Layouts : pc' \in Working => val'[l] # Torn /\ val'[l].step = val[l].step
  PROVE  LayoutInv'
<1>1. \A l \in Layouts : Alive(l)
  BY DEF IndInv, LayoutInv
<1>2. \A l \in Layouts : Open(l)'
  BY <1>1 DEF Alive, Open, Base
<1>3. \A l \in Layouts : pc' \in Working => Alive(l)'
  BY <1>1, <1>2 DEF Alive
<1>4. pc' \in Working => pc' \notin Outside /\ pc' \notin Undoing /\ pc' \notin {"begin", "attempt", "reject", "again"}
  BY DEF Working, Passing, Outside, Undoing
<1>5. CASE pc' \in Working
  BY <1>3, <1>4, <1>5 DEF LayoutInv, Undoing
<1>6. CASE pc' = "rollback" /\ todo' = Layouts
  BY <1>2, <1>6 DEF LayoutInv, Outside, Working, Passing
<1>7. CASE pc' = "reject"
  BY <1>2, <1>7 DEF LayoutInv, Outside, Working, Passing
<1> QED
  BY <1>5, <1>6, <1>7 DEF Leaves

\* The layouts follow the accepted step through every statement.
LEMMA LayoutStep ==
  ASSUME IndInv, Next
  PROVE  LayoutInv'
<1> USE DEF Working, Passing, Outside
<1>0. TypeInv /\ TypeInv' /\ steps \in Nat /\ LayoutInv
  BY TypeStep DEF IndInv, TypeInv
<1>1. ASSUME steps' = steps, UNCHANGED native
      PROVE  \A l \in Layouts : /\ Clean(l)' = Clean(l) /\ Rests(l)' = Rests(l)
                                /\ Open(l)' = Open(l) /\ Fresh(l)' = Fresh(l)
                                /\ Alive(l)' = Alive(l)
  BY <1>1, LayoutSame DEF native
<1>2. \A l : (Fresh(l) => Open(l) /\ Alive(l)) /\ (Alive(l) => Open(l)) /\ (Clean(l) => Rests(l))
  BY <1>0, FreshOpen
<1>3. CASE Schedule
  <2>1. steps' = steps /\ UNCHANGED native /\ pc = "construct" /\ pc' \in Outside
    BY <1>3 DEF Schedule, bounds, Goto
  <2> QED
    BY <1>0, <1>1, <2>1 DEF LayoutInv
<1>4. CASE Call
  <2>1. steps' = steps /\ UNCHANGED native /\ pc = "idle" /\ pc' = "begin" /\ todo' = Layouts
    BY <1>4 DEF Call, bounds, Goto
  <2>2. UpClosed'
    BY <2>1 DEF UpClosed
  <2> QED
    BY <1>0, <1>1, <2>1, <2>2 DEF LayoutInv
<1>5. CASE BeginEngine
  <2>1. /\ pc = "begin" /\ todo \subseteq Layouts /\ UpClosed /\ steps' = steps
        /\ \A k \in Layouts : IF k \in todo THEN Rests(k) ELSE Fresh(k)
    BY <1>0, <1>5 DEF LayoutInv, BeginEngine, bounds
  <2>2. PICK l \in todo, fails \in BOOLEAN :
          /\ First(l) /\ Begins(l, fails)
          /\ IF fails THEN Raise("fail", "undo", 1 .. (l - 1))
                      ELSE Goto("begin", todo \ {l}) /\ raised' = raised
    BY <1>5 DEF BeginEngine
  <2>3. fails \/ val[l] # Torn
    BY <1>0, <2>1, <2>2, Records DEF Begins, Rests, Clean, Broken
  <2>4. /\ \A k \in Layouts \ {l} : /\ Rests(k)' = Rests(k) /\ Open(k)' = Open(k)
                                    /\ Fresh(k)' = Fresh(k)
        /\ ~fails => /\ Fresh(l)'
                     /\ \A j \in todo \ {l} : \A k \in Layouts : j < k => k \in todo \ {l}
        /\ fails => /\ 1 .. (l - 1) \subseteq Layouts /\ Rests(l)'
                    /\ \A k \in Layouts : IF k \in 1 .. (l - 1) THEN k \notin todo
                                                                ELSE k \in todo
    BY <1>0, <2>1, <2>2, <2>3, BeginsLayout
  <2>5. CASE fails
    <3>1. pc' = "undo" /\ todo' = 1 .. (l - 1)
      BY <2>2, <2>5 DEF Raise, Goto
    <3>2. \A k \in Layouts : IF k \in todo' THEN Open(k)' ELSE Rests(k)'
      BY <1>2, <2>1, <2>2, <2>4, <2>5, <3>1
    <3> QED
      BY <2>4, <2>5, <3>1, <3>2 DEF LayoutInv
  <2>6. CASE ~fails
    <3>1. pc' = "begin" /\ todo' = todo \ {l}
      BY <2>2, <2>6 DEF Goto
    <3>2. \A k \in Layouts : IF k \in todo' THEN Rests(k)' ELSE Fresh(k)'
      BY <2>1, <2>4, <2>6, <3>1
    <3>3. UpClosed'
      BY <2>4, <2>6, <3>1 DEF UpClosed
    <3> QED
      BY <2>1, <3>1, <3>2, <3>3 DEF LayoutInv
  <2> QED
    BY <2>5, <2>6
<1>6. CASE BeginSessions
  <2>1. steps' = steps /\ UNCHANGED native /\ pc = "begin" /\ todo = {}
    BY <1>6 DEF BeginSessions, bounds
  <2>2. \A l \in Layouts : Fresh(l)' /\ Open(l)'
    BY <1>0, <1>1, <1>2, <2>1 DEF LayoutInv
  <2>3. pc' = "attempt" \/ (pc' = "undo" /\ todo' = Layouts)
    BY <1>0, <1>6, OpenEffect
  <2> QED
    BY <2>2, <2>3 DEF LayoutInv
<1>7. CASE UndoBegin \/ UnwindBegun \/ RestoreEngine \/ RollbackEngine
  <2>1. PICK l \in todo, fails \in BOOLEAN :
          /\ RollsBack(l, fails)
          /\ \/ pc = "undo" /\ pc' = "undo" /\ todo' = todo \ {l}
             \/ pc = "undo" /\ pc' = "rollback" /\ todo' = Layouts
             \/ pc = "unwind" /\ pc' = "unwind" /\ todo' = todo \ {l}
             \/ /\ pc = "restore" /\ pc' = "restore" /\ todo' = todo \ {l}
                /\ raised' = IF fails THEN "fail" ELSE raised
             \/ pc = "rollback" /\ pc' = "rollback" /\ todo' = todo \ {l}
    BY <1>7 DEF UndoBegin, UnwindBegun, RestoreEngine, RollbackEngine, Goto
  <2>2. steps' = steps /\ todo \subseteq Layouts
    BY <1>0, <1>7 DEF LayoutInv, UndoBegin, UnwindBegun, RestoreEngine, RollbackEngine, bounds
  <2>3. /\ \A k \in Layouts \ {l} : /\ Clean(k)' = Clean(k) /\ Rests(k)' = Rests(k)
                                    /\ Open(k)' = Open(k)
        /\ Open(l) \/ Rests(l) => Rests(l)'
        /\ Open(l) /\ ~fails => Clean(l)'
    BY <1>0, <2>1, <2>2, RollsBackLayout
  <2>4. CASE pc = "rollback"
    <3>1. \A k \in Layouts : Rests(k) \/ (k \in todo /\ Open(k))
      BY <1>0, <2>4 DEF LayoutInv
    <3>2. pc' = "rollback" /\ todo' = todo \ {l}
      BY <2>1, <2>4
    <3>3. \A k \in Layouts : Rests(k)' \/ (k \in todo' /\ Open(k)')
      BY <2>1, <2>2, <2>3, <3>1, <3>2
    <3> QED
      BY <2>2, <3>2, <3>3 DEF LayoutInv
  <2>5. CASE pc \in {"undo", "unwind", "restore"}
    <3>1. \A k \in Layouts : IF k \in todo THEN Open(k) ELSE Rests(k)
      BY <1>0, <2>5 DEF LayoutInv
    <3>2. \A k \in Layouts : IF k \in todo \ {l} THEN Open(k)' ELSE Rests(k)'
      BY <2>1, <2>2, <2>3, <3>1
    <3>3. CASE pc' = "rollback" /\ todo' = Layouts
      <4>1. \A k \in Layouts : Rests(k)' \/ (k \in todo' /\ Open(k)')
        BY <3>2, <3>3
      <4> QED
        BY <3>3, <4>1 DEF LayoutInv
    <3>4. CASE pc' \in {"undo", "unwind"} /\ todo' = todo \ {l}
      BY <2>2, <3>2, <3>4 DEF LayoutInv
    <3>5. CASE /\ pc = "restore" /\ pc' = "restore" /\ todo' = todo \ {l}
               /\ raised' = IF fails THEN "fail" ELSE raised
      <4>1. raised' # "fail" => \A k \in Layouts \ todo' : Clean(k)'
        <5> SUFFICES ASSUME raised' # "fail", NEW k \in Layouts \ todo' PROVE Clean(k)'
          OBVIOUS
        <5>1. ~fails /\ raised # "fail"
          BY <3>5
        <5>2. CASE k = l
          BY <2>1, <2>2, <2>3, <3>1, <5>1, <5>2
        <5>3. CASE k # l
          <6>1. Clean(k)
            BY <1>0, <3>5, <5>1, <5>3 DEF LayoutInv
          <6> QED
            BY <2>3, <5>3, <6>1
        <5> QED
          BY <5>2, <5>3
      <4> QED
        BY <2>2, <3>2, <3>5, <4>1 DEF LayoutInv
    <3> QED
      BY <2>1, <2>5, <3>3, <3>4, <3>5
  <2> QED
    BY <2>1, <2>4, <2>5
<1>8. CASE UndoneBegin \/ LeaveStep
  <2>1. /\ steps' = steps /\ UNCHANGED native /\ pc \in {"undo", "again", "unwind"} /\ todo = {}
        /\ pc' = "rollback" /\ todo' = Layouts
    BY <1>8 DEF UndoneBegin, LeaveStep, bounds, Goto
  <2>2. \A l \in Layouts : Rests(l) \/ Open(l)
    BY <1>0, <1>2, <2>1 DEF LayoutInv
  <2>3. \A l \in Layouts : Rests(l)' \/ (l \in todo' /\ Open(l)')
    BY <1>1, <2>1, <2>2
  <2> QED
    BY <2>1, <2>3 DEF LayoutInv
<1>9. CASE Attempt
  <2>1. steps' = steps /\ UNCHANGED native /\ pc = "attempt" /\ pc' = "script"
    BY <1>9 DEF Attempt, bounds, Goto
  <2>2. \A l \in Layouts : Alive(l)'
    BY <1>0, <1>1, <1>2, <2>1 DEF LayoutInv
  <2> QED
    BY <2>1, <2>2 DEF LayoutInv
<1>10. CASE RejectAttempt
  <2>1. steps' = steps /\ UNCHANGED native /\ pc = "reject" /\ pc' = "restore" /\ todo' = Layouts
    BY <1>10 DEF RejectAttempt, bounds, Goto
  <2>2. \A l \in Layouts : Open(l)'
    BY <1>0, <1>1, <2>1 DEF LayoutInv
  <2> QED
    BY <2>1, <2>2 DEF LayoutInv
<1>11. CASE RestoreDone
  <2>1. /\ steps' = steps /\ UNCHANGED native /\ pc = "restore" /\ todo = {} /\ todo' = Layouts
        /\ pc' = IF raised = "fail" THEN "rollback" ELSE "again"
    BY <1>11 DEF RestoreDone, bounds, Goto
  <2>2. \A l \in Layouts : Rests(l)' /\ (raised # "fail" => Clean(l)')
    BY <1>0, <1>1, <2>1 DEF LayoutInv
  <2>3. UpClosed'
    BY <2>1 DEF UpClosed
  <2> QED
    BY <2>1, <2>2, <2>3 DEF LayoutInv
<1>12. CASE BeginAgain
  <2>1. /\ pc = "again" /\ todo \subseteq Layouts /\ UpClosed /\ steps' = steps
        /\ \A k \in Layouts : IF k \in todo THEN Clean(k) ELSE Fresh(k)
        /\ \A k \in Layouts : IF k \in todo THEN Rests(k) ELSE Fresh(k)
    BY <1>0, <1>2, <1>12 DEF LayoutInv, BeginAgain, bounds
  <2>2. PICK l \in todo, fails \in BOOLEAN :
          /\ First(l) /\ Begins(l, fails)
          /\ IF fails THEN Raise("fail", "unwind", 1 .. (l - 1))
                      ELSE Goto("again", todo \ {l}) /\ raised' = raised
    BY <1>12 DEF BeginAgain
  <2>3. fails \/ val[l] # Torn
    BY <1>0, <2>1, <2>2, Records DEF Clean
  <2>4. /\ \A k \in Layouts \ {l} : /\ Clean(k)' = Clean(k) /\ Rests(k)' = Rests(k)
                                    /\ Open(k)' = Open(k) /\ Fresh(k)' = Fresh(k)
        /\ ~fails => /\ Fresh(l)'
                     /\ \A j \in todo \ {l} : \A k \in Layouts : j < k => k \in todo \ {l}
        /\ fails => /\ 1 .. (l - 1) \subseteq Layouts /\ Rests(l)'
                    /\ \A k \in Layouts : IF k \in 1 .. (l - 1) THEN k \notin todo
                                                                ELSE k \in todo
    BY <1>0, <2>1, <2>2, <2>3, BeginsLayout
  <2>5. CASE fails
    <3>1. pc' = "unwind" /\ todo' = 1 .. (l - 1)
      BY <2>2, <2>5 DEF Raise, Goto
    <3>2. \A k \in Layouts : IF k \in todo' THEN Open(k)' ELSE Rests(k)'
      BY <1>2, <2>1, <2>2, <2>4, <2>5, <3>1
    <3> QED
      BY <2>4, <2>5, <3>1, <3>2 DEF LayoutInv
  <2>6. CASE ~fails
    <3>1. pc' = "again" /\ todo' = todo \ {l}
      BY <2>2, <2>6 DEF Goto
    <3>2. \A k \in Layouts : IF k \in todo' THEN Clean(k)' ELSE Fresh(k)'
      BY <2>1, <2>4, <2>6, <3>1
    <3>3. UpClosed'
      BY <2>4, <2>6, <3>1 DEF UpClosed
    <3> QED
      BY <2>1, <3>1, <3>2, <3>3 DEF LayoutInv
  <2> QED
    BY <2>5, <2>6
<1>13. CASE ScriptDone \/ Pass \/ StartRegions \/ StartPorts \/ EndPass \/ Advanced \/ EffectFails \/ CaptureOp
  <2>1. steps' = steps /\ UNCHANGED <<val, txn>> /\ pc \in Working
    BY <1>13 DEF ScriptDone, Pass, StartRegions, StartPorts, EndPass, Advanced, EffectFails,
                 CaptureOp, bounds, native
  <2>2. pc' \in Working \/ Leaves
    BY <1>13 DEF ScriptDone, Pass, StartRegions, StartPorts, EndPass, Advanced, EffectFails,
                 CaptureOp, Goto, Raise, Escape, Leaves
  <2>3. \A l \in Layouts : val'[l] # Torn /\ val'[l].step = val[l].step
    BY <2>1, InAttempt
  <2> QED
    BY <1>0, <2>1, <2>2, <2>3, AttemptLayout
<1>14. CASE Commit
  <2>1. steps' = steps /\ UNCHANGED <<val, txn>> /\ pc \in Working /\ pc' \in Working
    BY <1>14 DEF Commit, Goto, bounds
  <2>2. \A l \in Layouts : val'[l] # Torn /\ val'[l].step = val[l].step
    BY <2>1, InAttempt
  <2> QED
    BY <1>0, <2>1, <2>2, AttemptLayout
<1>15. CASE ApplyOp
  <2>1. steps' = steps /\ txn' = txn /\ pc \in Working
    BY <1>15 DEF ApplyOp, bounds
  <2>2. pc' \in Working \/ Leaves
    BY <1>15, ApplyEffect
  <2>3. \A l \in Layouts : pc' \in Working => val'[l] # Torn /\ val'[l].step = val[l].step
    <3>1. PICK t : Only(t) /\ (Leaves \/ (val'[t] \in State /\ val'[t].step = val[t].step))
      BY <1>15, ApplyEffect
    <3>2. Leaves => pc' \notin Working
      BY DEF Leaves
    <3> QED
      BY <2>1, <3>1, <3>2, InAttempt, Records DEF Only
  <2> QED
    BY <1>0, <2>1, <2>2, <2>3, AttemptLayout
<1>16. CASE StepOp
  <2>1. steps' = steps /\ txn' = txn /\ pc \in Working
    BY <1>16 DEF StepOp, bounds
  <2>2. pc' \in Working \/ Leaves
    BY <1>16, StepEffect
  <2>3. \A l \in Layouts : pc' \in Working => val'[l] # Torn /\ val'[l].step = val[l].step
    BY <1>16, <2>1, StepEffect, InAttempt, Records DEF Only, Leaves
  <2> QED
    BY <1>0, <2>1, <2>2, <2>3, AttemptLayout
<1>17. CASE MapRoute
  <2>1. steps' = steps /\ txn' = txn /\ pc \in Working
    BY <1>17 DEF MapRoute, bounds
  <2>2. pc' \in Working \/ Leaves
    BY <1>17, <2>1, MapEffect
  <2>3. \A l \in Layouts : pc' \in Working => val'[l] # Torn /\ val'[l].step = val[l].step
    <3>1. PICK t : Only(t) /\ (Leaves \/ (val'[t] \in State /\ val'[t].step = val[t].step))
      BY <1>17, MapEffect
    <3>2. Leaves => pc' \notin Working
      BY DEF Leaves
    <3> QED
      BY <2>1, <3>1, <3>2, InAttempt, Records DEF Only
  <2> QED
    BY <1>0, <2>1, <2>2, <2>3, AttemptLayout
<1>18. CASE Region
  <2>1. steps' = steps /\ txn' = txn /\ pc \in Working
    BY <1>18 DEF Region, bounds
  <2>2. pc' \in Working \/ Leaves
    BY <1>18, RegionEffect
  <2>3. \A l \in Layouts : pc' \in Working => val'[l] # Torn /\ val'[l].step = val[l].step
    BY <1>18, <2>1, RegionEffect, InAttempt, Records DEF Only, Leaves
  <2> QED
    BY <1>0, <2>1, <2>2, <2>3, AttemptLayout
<1>19. CASE Finalize
  <2>1. pc = "publish" /\ \A l \in Layouts : Alive(l) /\ port[l] = None
    BY <1>0, <1>19 DEF Finalize, LayoutInv, IndInv, EndInv
  <2>2. /\ val' = [l \in Layouts |-> Base(val[l].step + 1)] /\ txn' = [l \in Layouts |-> None]
        /\ port' = port /\ steps' = steps + 1 /\ pc' = "idle"
    BY <1>19 DEF Finalize, Goto
  <2>3. \A l \in Layouts : Rests(l)'
    BY <2>1, <2>2 DEF Alive, Rests, Clean, Base
  <2> QED
    BY <2>2, <2>3 DEF LayoutInv
<1>20. CASE RollbackDone
  <2>1. steps' = steps /\ UNCHANGED native /\ pc = "rollback" /\ todo = {} /\ pc' = "idle"
    BY <1>20 DEF RollbackDone, Goto
  <2>2. \A l \in Layouts : Rests(l)'
    BY <1>0, <1>1, <2>1 DEF LayoutInv
  <2> QED
    BY <2>1, <2>2 DEF LayoutInv
<1> QED
  BY <1>3, <1>4, <1>5, <1>6, <1>7, <1>8, <1>9, <1>10, <1>11, <1>12, <1>13, <1>14,
     <1>15, <1>16, <1>17, <1>18, <1>19, <1>20
     DEF Next, Begin, Mapping, Maps, Rejection, Envelope

-----------------------------------------------------------------------------
(* The sessions and the counters.                                          *)

\* The sessions follow the transaction of the executor.
LEMMA SessionStep ==
  ASSUME IndInv, Next
  PROVE  SessionInv'
<1> USE DEF Working, Passing, Outside
<1>0. TypeInv /\ PlanOK /\ SessionInv /\ plan' = plan /\ Routes' = Routes
  BY Setup, PlanFacts, PlanSame DEF IndInv, TypeInv
<1>1. ASSUME session' = session, active' = active
      PROVE  \A r \in Routes : session'[r].active = active' /\ (Unused(r)' <=> Unused(r))
  BY <1>0, <1>1 DEF SessionInv, Unused
<1>2. CASE \/ Schedule \/ Call \/ BeginEngine \/ UndoBegin \/ UndoneBegin \/ ScriptDone \/ Pass
           \/ StartRegions \/ StartPorts \/ EndPass \/ RestoreEngine \/ RestoreDone \/ BeginAgain
           \/ UnwindBegun \/ LeaveStep \/ Advanced \/ Commit \/ EffectFails \/ RollbackEngine
           \/ StepOp \/ Region
  <2>1. session' = session /\ (active' = active \/ UndoneBegin)
    BY <1>2 DEF Schedule, Call, BeginEngine, UndoBegin, UndoneBegin, ScriptDone, Pass,
         StartRegions, StartPorts, EndPass, RestoreEngine, RestoreDone, BeginAgain, UnwindBegun,
         LeaveStep, Advanced, Commit, EffectFails, RollbackEngine, StepOp, Region, coordinator
  <2>2. active' = active
    BY <1>0, <2>1 DEF SessionInv, UndoneBegin
  <2>3. CASE Schedule \/ Call \/ BeginEngine \/ UndoBegin \/ UndoneBegin
    <3>1. /\ pc \in Outside \cup {"begin", "undo"}
          /\ pc' \in Outside \cup {"begin", "undo", "rollback"}
      BY <2>3 DEF Schedule, Call, BeginEngine, UndoBegin, UndoneBegin, Goto, Raise
    <3> QED
      BY <1>0, <1>1, <2>1, <2>2, <3>1 DEF SessionInv
  <2>4. CASE StepOp \/ Region
    <3>1. pc \in {"script", "regions"} /\ attempt' = attempt
      BY <2>4 DEF StepOp, Region, coordinator
    <3>2. pc' \in {"regions", "reject", "rollback"} \/ (pc' = "script" /\ pc = "script")
      BY <2>4, StepEffect, RegionEffect DEF Leaves, StepOp
    <3> QED
      BY <1>0, <1>1, <2>1, <2>2, <3>1, <3>2 DEF SessionInv
  <2>5. CASE RollbackEngine
    <3>1. pc' = "rollback" /\ pc = "rollback"
      BY <2>5 DEF RollbackEngine, Goto
    <3> QED
      BY <1>0, <1>1, <2>1, <2>2, <3>1 DEF SessionInv
  <2>6. CASE \/ ScriptDone \/ Pass \/ StartRegions \/ StartPorts \/ EndPass \/ RestoreEngine
             \/ RestoreDone \/ BeginAgain \/ UnwindBegun \/ LeaveStep \/ Advanced \/ Commit
             \/ EffectFails
    <3>1. /\ pc \notin Outside \cup {"begin", "undo", "rollback"}
          /\ pc' \notin Outside \cup {"begin", "undo", "script", "attempt"}
      BY <2>6 DEF ScriptDone, Pass, StartRegions, StartPorts, EndPass, RestoreEngine, RestoreDone,
           BeginAgain, UnwindBegun, LeaveStep, Advanced, Commit, EffectFails, Goto, Raise, Escape
    <3> QED
      BY <1>0, <1>1, <2>1, <2>2, <3>1 DEF SessionInv
  <2> QED
    BY <1>2, <2>3, <2>4, <2>5, <2>6
<1>3. CASE BeginSessions
  <2>1. pc = "begin" /\ active = None /\ \A r \in Routes : Unused(r)
    BY <1>0, <1>3 DEF BeginSessions, SessionInv
  <2>2. \A r \in Routes : Unused(r)'
    BY <1>0, <1>3, <2>1, OpenEffect DEF Unused
  <2>3. /\ \A r \in Routes : session'[r].active = active'
        /\ \/ pc' = "attempt" /\ active' \in Nat
           \/ pc' = "undo" /\ active' = None
    BY <1>0, <1>3, <2>1, OpenEffect DEF SessionInv
  <2>4. active' \in Nat => active' # None
    BY <1>0 DEF PlanOK
  <2> QED
    BY <1>0, <2>2, <2>3, <2>4 DEF SessionInv
<1>4. CASE Attempt
  <2>1. /\ pc = "attempt" /\ session' = session /\ active' = active /\ pc' = "script"
        /\ attempt' = attempt + 1
    BY <1>4 DEF Attempt, Goto
  <2>2. attempt' # 0 /\ active # None
    BY <1>0, <2>1 DEF TypeInv, SessionInv
  <2> QED
    BY <1>0, <1>1, <2>1, <2>2 DEF SessionInv
<1>5. CASE CaptureOp \/ ApplyOp \/ MapRoute
  <2>1. /\ active' = active /\ attempt' = attempt /\ pc \in {"script", "after", "ports"}
        /\ active # None /\ (pc = "script" => attempt # 0)
    BY <1>0, <1>5 DEF CaptureOp, ApplyOp, MapRoute, coordinator, SessionInv
  <2>2. \A r \in Routes : session'[r].active = session[r].active
    BY <1>5, CaptureEffect, ApplyEffect, MapEffect DEF Wrote
  <2>3. pc' \in {"reject", "rollback"} \/ pc' = pc
    BY <1>5, CaptureEffect, ApplyEffect, MapEffect DEF Leaves, CaptureOp, ApplyOp
  <2> QED
    BY <1>0, <2>1, <2>2, <2>3 DEF SessionInv
<1>6. CASE RejectAttempt
  <2>1. active' = active /\ pc' = "restore" /\ active # None
    BY <1>0, <1>6 DEF RejectAttempt, coordinator, SessionInv, Goto
  <2>2. \A r \in Routes : session'[r].active = session[r].active
    BY <1>0, <1>6, RejectEffect
  <2> QED
    BY <1>0, <2>1, <2>2 DEF SessionInv
<1>7. CASE Finalize \/ RollbackDone
  <2>1. active' = None /\ pc' = "idle"
    BY <1>7 DEF Finalize, RollbackDone, Goto
  <2>2. \A r \in Routes : /\ session'[r].active = None /\ session'[r].captured = 0
                          /\ session'[r].applied = FALSE
    <3>1. CASE Finalize
      <4>1. active # None /\ session' = [r \in Routes |-> Closed(r)]
        BY <1>0, <3>1 DEF Finalize, SessionInv
      <4> QED
        BY <1>0, <4>1, ClosedEffect
    <3>2. CASE RollbackDone
      BY <1>0, <3>2, RollbackEffect
    <3> QED
      BY <1>7, <3>1, <3>2
  <2>3. \A r \in Routes : Unused(r)'
    BY <2>2 DEF Unused
  <2> QED
    BY <1>0, <2>1, <2>2, <2>3 DEF SessionInv
<1> QED
  BY <1>2, <1>3, <1>4, <1>5, <1>6, <1>7 DEF Next, Begin, Mapping, Maps, Rejection, Envelope

\* An accepted step adds its transfers to the evaluations.
LEMMA TotalStep ==
  ASSUME TypeInv, plan' = plan, NEW m
  PROVE  /\ steps' = steps /\ fires' = fires => Total(m)' = Total(m)
         /\ Finalize => Total(m)' = Total(m) + Evaluations(m, CadenceDue)
<1>1. PICK a, b : a = Evaluations(m, TRUE) /\ b = Evaluations(m, FALSE)
  OBVIOUS
<1>2. a \in Nat /\ b \in Nat /\ steps \in Nat /\ fires \in Nat
  BY <1>1, Finite DEF TypeInv
<1>3. /\ Total(m) = fires * a + (steps - fires) * b
      /\ Total(m)' = fires' * a + (steps' - fires') * b
  BY <1>1, PlanSame DEF Total
<1>4. ASSUME Finalize PROVE Total(m)' = Total(m) + Evaluations(m, CadenceDue)
  <2>1. steps' = steps + 1 /\ fires' = IF CadenceDue THEN fires + 1 ELSE fires
    BY <1>4 DEF Finalize
  <2>2. CASE CadenceDue
    <3>1. Evaluations(m, CadenceDue) = a
      BY <1>1, <2>2 DEF Evaluations, Meetings
    <3>2. steps' - fires' = steps - fires /\ fires' = fires + 1
      BY <1>2, <2>1, <2>2
    <3>3. PICK c \in Int : c = (steps - fires) * b
      BY <1>2
    <3>4. (fires + 1) * a = fires * a + a
      BY <1>2
    <3>5. fires * a \in Nat
      BY <1>2
    <3> QED
      BY <1>2, <1>3, <3>1, <3>2, <3>3, <3>4, <3>5
  <2>3. CASE ~CadenceDue
    <3>1. Evaluations(m, CadenceDue) = b
      BY <1>1, <2>3 DEF Evaluations, Meetings
    <3>2. steps' - fires' = (steps - fires) + 1 /\ fires' = fires
      BY <1>2, <2>1, <2>3
    <3>3. PICK d \in Int : d = steps - fires
      BY <1>2
    <3>4. (d + 1) * b = d * b + b
      BY <1>2, <3>3
    <3>5. fires * a \in Nat /\ d * b \in Int
      BY <1>2, <3>3
    <3> QED
      BY <1>2, <1>3, <3>1, <3>2, <3>3, <3>4, <3>5
  <2> QED
    BY <2>2, <2>3
<1> QED
  BY <1>3, <1>4

\* The evaluations counted are those of the accepted steps.
LEMMA CountStep ==
  ASSUME IndInv, Next
  PROVE  CountInv'
<1> USE DEF Working, Passing, Outside
<1>0. TypeInv /\ PlanOK /\ CountInv /\ plan' = plan /\ Mappings' = Mappings
  BY Setup, PlanFacts, PlanSame DEF IndInv, TypeInv
<1>9. /\ ~Finalize => \A m : /\ Total(m)' = Total(m)
                             /\ Evaluations(m, CadenceDue)' = Evaluations(m, CadenceDue)
      /\ Finalize => \A m : Total(m)' = Total(m) + Evaluations(m, CadenceDue)
  <2>1. ~Finalize => steps' = steps /\ fires' = fires
    BY Setup
  <2>2. \A m, due : Evaluations(m, due)' = Evaluations(m, due)
    BY <1>0, PlanSame
  <2>3. ~Finalize => CadenceDue' = CadenceDue
    BY <1>0, <2>1, PortSame
  <2>4. ~Finalize => \A m : Evaluations(m, CadenceDue)' = Evaluations(m, CadenceDue)
    BY <1>0, <2>3, PlanSame DEF Evaluations, Meetings
  <2> QED
    BY <1>0, <2>1, <2>4, TotalStep
<1>10. ~(pc = "publish" /\ pc' = "idle") => ~Finalize
  BY DEF Finalize, Goto
<1>1. CASE Schedule
  <2>1. /\ counts' = counts /\ saved' = saved /\ steps' = steps /\ pc \in Outside /\ pc' \in Outside
    BY <1>1 DEF Schedule, coordinator, bounds, Goto
  <2> QED
    BY <1>0, <1>9, <1>10, <2>1 DEF CountInv
<1>2. CASE Call
  <2>1. /\ counts' = counts /\ saved' = counts /\ steps' = steps /\ pc = "idle" /\ pc' = "begin"
    BY <1>2 DEF Call, bounds, Goto
  <2>2. saved' # None
    BY <1>0, <2>1 DEF TypeInv, PlanOK
  <2> QED
    BY <1>0, <1>9, <1>10, <2>1, <2>2 DEF CountInv
<1>3. CASE \/ BeginEngine \/ UndoBegin \/ ScriptDone \/ Pass
           \/ StartRegions \/ StartPorts \/ EndPass \/ RestoreEngine \/ RestoreDone \/ BeginAgain
           \/ UnwindBegun \/ LeaveStep \/ BeginSessions \/ Attempt \/ RejectAttempt
           \/ StepOp \/ Region \/ CaptureOp \/ ApplyOp \/ MapRoute
  <2>1. counts' = counts /\ saved' = saved /\ steps' = steps
    BY <1>3 DEF BeginEngine, UndoBegin, ScriptDone, Pass, StartRegions, StartPorts, EndPass,
         RestoreEngine, RestoreDone, BeginAgain, UnwindBegun, LeaveStep, BeginSessions, Attempt,
         RejectAttempt, StepOp, Region, CaptureOp, ApplyOp, MapRoute, coordinator, bounds
  <2>2. pc \notin Outside \cup {"effect", "publish", "rollback"}
    BY <1>3 DEF BeginEngine, UndoBegin, ScriptDone, Pass, StartRegions, StartPorts, EndPass,
         RestoreEngine, RestoreDone, BeginAgain, UnwindBegun, LeaveStep, BeginSessions, Attempt,
         RejectAttempt, StepOp, Region, CaptureOp, ApplyOp, MapRoute
  <2>3. pc' \notin Outside \cup {"effect", "publish"}
    <3>1. CASE \/ BeginEngine \/ UndoBegin \/ ScriptDone \/ Pass
               \/ StartRegions \/ StartPorts \/ EndPass \/ RestoreEngine \/ RestoreDone \/ BeginAgain
               \/ UnwindBegun \/ LeaveStep \/ Attempt \/ RejectAttempt
      BY <3>1 DEF BeginEngine, UndoBegin, ScriptDone, Pass, StartRegions, StartPorts, EndPass,
           RestoreEngine, RestoreDone, BeginAgain, UnwindBegun, LeaveStep, Attempt,
           RejectAttempt, Goto, Raise, Escape
    <3>2. CASE BeginSessions
      BY <1>0, <3>2, OpenEffect
    <3>3. CASE StepOp \/ Region \/ CaptureOp \/ ApplyOp
      BY <3>3, StepEffect, RegionEffect, CaptureEffect, ApplyEffect DEF Leaves
    <3>4. CASE MapRoute
      BY <3>4, <2>2, MapEffect DEF Leaves
    <3> QED
      BY <1>3, <3>1, <3>2, <3>3, <3>4
  <2> QED
    BY <1>0, <1>9, <1>10, <2>1, <2>2, <2>3 DEF CountInv
<1>4. CASE UndoneBegin
  <2>1. /\ counts' = counts /\ saved' = None /\ steps' = steps /\ pc = "undo" /\ pc' = "rollback"
    BY <1>4 DEF UndoneBegin, bounds, Goto
  <2> QED
    BY <1>0, <1>9, <1>10, <2>1 DEF CountInv
<1>5. CASE Advanced
  <2>1. /\ pc = "advanced" /\ pc' = "effect" /\ saved' = saved /\ steps' = steps
        /\ counts' = [m \in Mappings |-> counts[m] + Gained(m)]
    BY <1>5 DEF Advanced, bounds, Goto
  <2>2. \A m \in Mappings : counts'[m] = counts[m] + Evaluations(m, CadenceDue)
    BY <2>1, GainedIs
  <2>4. \A m \in Mappings : counts'[m] = Total(m)' + Evaluations(m, CadenceDue)'
    BY <1>0, <1>9, <1>10, <2>1, <2>2 DEF CountInv
  <2> QED
    BY <1>0, <1>9, <1>10, <2>1, <2>4 DEF CountInv
<1>6. CASE Commit \/ EffectFails \/ RollbackEngine
  <2>1. /\ counts' = counts /\ saved' = saved /\ steps' = steps
        /\ \/ pc = "effect" /\ pc' = "publish"
           \/ pc \in {"effect", "publish", "rollback"} /\ pc' = "rollback"
    BY <1>6 DEF Commit, EffectFails, RollbackEngine, coordinator, bounds, Goto, Raise
  <2> QED
    BY <1>0, <1>9, <1>10, <2>1 DEF CountInv
<1>7. CASE Finalize
  <2>1. counts' = counts /\ saved' = None /\ steps' = steps + 1 /\ pc = "publish" /\ pc' = "idle"
    BY <1>7 DEF Finalize, Goto
  <2> QED
    BY <1>0, <1>7, <1>9, <2>1 DEF CountInv
<1>8. CASE RollbackDone
  <2>1. /\ counts' = (IF saved # None THEN saved ELSE counts) /\ saved' = None /\ steps' = steps
        /\ pc = "rollback" /\ pc' = "idle"
    BY <1>8 DEF RollbackDone, Goto
  <2> QED
    BY <1>0, <1>9, <1>10, <2>1 DEF CountInv
<1> QED
  BY <1>1, <1>2, <1>3, <1>4, <1>5, <1>6, <1>7, <1>8
     DEF Next, Begin, Mapping, Maps, Rejection, Envelope

-----------------------------------------------------------------------------
(* The operations before the passes.                                       *)

\* Where a Program stands is told by what its layout waits for.
LEMMA Waits ==
  ASSUME PlanOK, NEW l \in Layouts, Stands(l), val[l].regions \in Nat
  PROVE  /\ waiting[l] = None => /\ port[l] = None /\ val[l].regions <= Len1(l)
                                 /\ Passed(l, val[l].regions)
         /\ waiting[l] = Over => /\ port[l] = None /\ val[l].regions = Len1(l) + 1
                                 /\ Passed(l, Len1(l))
         /\ waiting[l] \notin {None, Over} =>
              /\ val[l].regions \in 1 .. Len1(l)
              /\ Port(l, val[l].regions) = <<waiting[l], receipts[waiting[l]] + 1>>
              /\ waiting[l] = Port(l, val[l].regions)[1]
              /\ port[l] = waiting[l] /\ Passed(l, val[l].regions - 1)
<1>1. /\ None # Over
      /\ \A i \in 1 .. Len1(l) : /\ Port(l, i)[1] # None /\ Port(l, i)[1] # Over
                                 /\ Port(l, i) = <<Port(l, i)[1], Port(l, i)[2]>>
  BY DEF PlanOK
<1> QED
  BY <1>1 DEF Stands

\* The operations left when one is taken.
LEMMA DueRest ==
  ASSUME ScriptInv, pc = "script", NEW op \in todo, Due(op)
  PROVE  /\ todo \ {op} \subseteq Script
         /\ \A a \in Script, b \in todo \ {op} : Earlier(b, a) => a \in todo \ {op}
         /\ \A a \in Script : Earlier(a, op) => a \notin todo
BY DEF ScriptInv, Due

\* A before-step mapping is captured before anything is applied or stepped.
LEMMA AcceptedCapture ==
  ASSUME IndInv, pc = "script", NEW op \in todo, Due(op), op[2] = "capture", op[3] \in Accepted
  PROVE  \A l \in Layouts : val[l] = Base(steps)
<1>1. PlanOK /\ SchedInv /\ op \in Script
  BY InAttempt DEF Working
<1>2. op[1] = 0
  BY <1>1, ScriptForm
<1>3. \A a \in Script \ todo : a[2] = "capture"
  <2> SUFFICES ASSUME NEW a \in Script \ todo, a[2] # "capture" PROVE FALSE
    OBVIOUS
  <2>1. a[1] \in Nat /\ a[1] > 0
    BY <1>1, ScriptForm
  <2>2. Earlier(op, a)
    BY <1>2, <2>1 DEF Earlier
  <2> QED
    BY <2>2 DEF IndInv, ScriptInv
<1> QED
  BY <1>3 DEF IndInv, ScriptInv

\* An after-source-step mapping is captured when its source is complete.
LEMMA AfterCapture ==
  ASSUME IndInv, pc = "script", NEW op \in todo, Due(op), op[2] = "capture", op[3] \in After
  PROVE  Complete(val[Route[op[3]].source], Route[op[3]].source)
<1>1. PlanOK /\ SchedInv /\ op \in Script
  BY InAttempt DEF Working
<1>2. PICK s \in Script : s[2] = "step" /\ s[3] = Route[op[3]].source /\ Earlier(s, op)
  BY <1>1, SourceFirst
<1>3. s \notin todo
  BY <1>2 DEF Due
<1>4. val[s[3]].regions = 1
  BY <1>2, <1>3 DEF IndInv, ScriptInv
<1>5. s[3] \in Layouts /\ Stage = {}
  BY <1>1, <1>2, ScriptForm
<1>6. Len1(s[3]) = 0
  BY <1>1, <1>5 DEF PlanOK
<1>7. val[s[3]] # Torn
  BY <1>5, InAttempt DEF Working
<1> QED
  BY <1>2, <1>4, <1>6, <1>7 DEF Complete, Len1

\* The copies of the sessions.
LEMMA CopyStep ==
  ASSUME IndInv, Next
  PROVE  CopyInv'
<1>0. TypeInv /\ PlanOK /\ SchedInv /\ CopyInv /\ plan' = plan
  BY Setup, PlanFacts DEF IndInv, TypeInv
<1>1. /\ Routes' = Routes /\ Accepted' = Accepted /\ After' = After /\ Stage' = Stage
      /\ Route' = Route
  BY <1>0, PlanSame
<1>2. ASSUME NEW r, steps' = steps, session'[r].copy = session[r].copy, CopyOK(r),
             r \in Stage => receipts'[r] = receipts[r]
      PROVE  CopyOK(r)'
  <2>1. \A v, l : Complete(v, l)' = Complete(v, l)
    BY <1>0, <1>2, PortSame
  <2>2. \A l, i : Port(l, i)' = Port(l, i)
    BY <1>0, <1>2, PortSame
  <2>3. r \in Accepted' => session'[r].copy = Base(steps)'
    BY <1>1, <1>2 DEF CopyOK, Base
  <2>4. r \in After' => Complete(session[r].copy, Route[r].source)'
    BY <1>1, <1>2, <2>1 DEF CopyOK, Complete, Ports, CadenceDue
  <2>5. r \in Stage' => Port(Route[r].source, session[r].copy.regions)' = <<r, receipts[r]>>'
    BY <1>1, <1>2, <2>2 DEF CopyOK, Port
  <2> QED
    BY <2>3, <2>4, <2>5 DEF CopyOK
<1>3. ASSUME steps' = steps, NEW r \in Routes, session'[r].copy = session[r].copy,
             r \in Stage => receipts'[r] = receipts[r],
             session'[r].captured # 0 \/ session'[r].applied,
             session[r].captured # 0 \/ session[r].applied
      PROVE  CopyOK(r)'
  BY <1>0, <1>2, <1>3 DEF CopyInv
<1>4. CASE session' = session /\ steps' = steps /\ receipts' = receipts
  BY <1>1, <1>3, <1>4 DEF CopyInv
<1>11. CASE Attempt
  <2>1. session' = session /\ \A r \in Routes : Unused(r)
    BY <1>11 DEF Attempt, IndInv, SessionInv
  <2> QED
    BY <1>1, <2>1 DEF CopyInv, Unused
<1>5. CASE BeginSessions
  <2>1. steps' = steps /\ receipts' = receipts
    BY <1>5 DEF BeginSessions, bounds, locals
  <2> QED
    BY <1>0, <1>1, <1>3, <1>5, <2>1, OpenEffect DEF CopyInv
<1>6. CASE CaptureOp
  <2>1. pc = "script" /\ steps' = steps /\ val' = val /\ receipts' = receipts
    BY <1>6 DEF CaptureOp, bounds, native
  <2>2. PICK op \in todo :
           /\ Due(op) /\ op[2] = "capture" /\ op \in Script /\ op[3] \in Routes \ Stage
           /\ \/ session' = session
              \/ /\ Wrote(op[3])
                 /\ session'[op[3]].copy = val[Route[op[3]].source]
    BY <1>6, CaptureEffect
  <2>3. CASE session' = session
    BY <1>4, <2>1, <2>3
  <2>4. CASE Wrote(op[3]) /\ session'[op[3]].copy = val[Route[op[3]].source]
    <3>1. op[3] \in Accepted => val[Route[op[3]].source] = Base(steps)
      BY <1>0, <2>1, <2>2, AcceptedCapture DEF PlanOK
    <3>2. op[3] \in After => Complete(val[Route[op[3]].source], Route[op[3]].source)
      BY <2>1, <2>2, AfterCapture
    <3>3. PICK r \in Routes \ Stage : r = op[3]
      BY <2>2
    <3>4. CopyOK(r)'
      <4>1. r \notin Stage' /\ Base(steps)' = Base(steps)
        BY <1>1, <2>1 DEF Base
      <4>2. r \in Accepted' => session'[r].copy = Base(steps)'
        BY <1>1, <2>4, <3>1, <3>3, <4>1
      <4>3. r \in After' => Complete(session[r].copy, Route[r].source)'
        BY <1>0, <1>1, <2>1, <2>4, <3>2, <3>3 DEF Complete, Ports, CadenceDue
      <4> QED
        BY <4>1, <4>2, <4>3 DEF CopyOK
    <3>5. ASSUME NEW q \in Routes, session'[q].captured # 0 \/ session'[q].applied
          PROVE  CopyOK(q)'
      <4>1. CASE q = r
        BY <3>4, <4>1
      <4>2. CASE q # r
        BY <1>3, <2>1, <2>4, <3>3, <3>5, <4>2 DEF Wrote
      <4> QED
        BY <4>1, <4>2
    <3> QED
      BY <1>1, <3>5 DEF CopyInv
  <2> QED
    BY <2>2, <2>3, <2>4
<1>7. CASE ApplyOp
  <2>1. pc = "script" /\ steps' = steps /\ attempt # 0
    BY <1>7 DEF ApplyOp, bounds, IndInv, SessionInv
  <2>2. PICK op \in todo :
           /\ op[3] \in Routes \ Stage
           /\ \/ session' = session /\ receipts' = receipts
              \/ /\ Wrote(op[3]) /\ Applies(op[3])
                 /\ receipts' = [receipts EXCEPT ![op[3]] = @ + 1]
                 /\ session'[op[3]].copy = session[op[3]].copy
    BY <1>7, ApplyEffect
  <2>5. \A q \in Stage : receipts'[q] = receipts[q]
    <3>1. receipts \in [Routes -> Nat] /\ Stage \subseteq Routes
      BY <1>0 DEF TypeInv, PlanOK
    <3> QED
      BY <2>2, <3>1
  <2>3. CASE session' = session /\ receipts' = receipts
    BY <1>4, <2>1, <2>3
  <2>4. CASE Wrote(op[3]) /\ Applies(op[3]) /\ session'[op[3]].copy = session[op[3]].copy
    <3>1. session[op[3]].captured # 0
      BY <2>1, <2>4 DEF Applies
    <3>2. ASSUME NEW q \in Routes, session'[q].captured # 0 \/ session'[q].applied
          PROVE  CopyOK(q)'
      <4>1. CASE q = op[3]
        BY <1>3, <2>1, <2>4, <2>5, <3>1, <3>2, <4>1
      <4>2. CASE q # op[3]
        BY <1>3, <2>1, <2>4, <2>5, <3>2, <4>2 DEF Wrote
      <4> QED
        BY <4>1, <4>2
    <3> QED
      BY <1>1, <3>2 DEF CopyInv
  <2> QED
    BY <2>2, <2>3, <2>4
<1>8. CASE MapRoute
  <2>1. pc \in {"after", "ports"} /\ pc \in Passing /\ pc \in Working /\ steps' = steps
    BY <1>8 DEF MapRoute, bounds, Passing, Working
  <2>2. PICK r \in todo :
           /\ r \in Routes
           /\ \/ session' = session /\ receipts' = receipts
              \/ /\ Wrote(r) /\ session'[r].copy = val[Route[r].source]
                 /\ receipts' = [receipts EXCEPT ![r] = @ + 1]
    BY <1>8, MapEffect
  <2>3. CASE session' = session /\ receipts' = receipts
    BY <1>4, <2>1, <2>3
  <2>4. CASE /\ Wrote(r) /\ session'[r].copy = val[Route[r].source]
             /\ receipts' = [receipts EXCEPT ![r] = @ + 1]
    <3>0. receipts \in [Routes -> Nat] /\ \A q \in Routes \ {r} : receipts'[q] = receipts[q]
      BY <1>0, <2>4 DEF TypeInv
    <3>1. PICK s \in Layouts : s = Route[r].source
      BY <1>0, <2>2 DEF PlanOK
    <3>2. Stands(s) /\ val[s] \in State /\ val[s] # Torn /\ val[s].regions \in Nat
      BY <2>1, InAttempt, Records DEF IndInv, PassInv
    <3>3. CASE pc = "after"
      <4>1. r \in After /\ waiting[s] = Over
        BY <1>0, <2>2, <3>1, <3>3 DEF IndInv, LoopInv, Completed, TypeInv
      <4>2. Complete(val[s], s)
        BY <1>0, <3>2, <4>1, Waits DEF Complete, Len1
      <4>3. r \notin Stage /\ r \notin Accepted
        BY <1>0, <4>1 DEF PlanOK
      <4>4. Complete(session[r].copy, Route[r].source)'
        BY <1>0, <1>1, <2>1, <2>4, <3>1, <4>2 DEF Complete, Ports, CadenceDue
      <4> QED
        <5>1. CopyOK(r)'
          BY <1>1, <4>3, <4>4 DEF CopyOK
        <5> QED
          BY <1>1, <1>3, <2>1, <2>4, <3>0, <5>1 DEF CopyInv, Wrote
    <3>4. CASE pc = "ports"
      <4>1. r \in Stage /\ waiting[s] = r
        BY <2>2, <3>1, <3>4 DEF IndInv, LoopInv, Matched
      <4>2. r \notin Accepted /\ r \notin After /\ r \notin {None, Over}
        BY <1>0, <4>1 DEF PlanOK
      <4>3. Port(s, val[s].regions) = <<r, receipts[r] + 1>>
        BY <1>0, <3>2, <4>1, <4>2, Waits
      <4>6. receipts'[r] = receipts[r] + 1
        BY <2>2, <2>4, <3>0
      <4>4. Port(Route[r].source, session[r].copy.regions)' = <<r, receipts'[r]>>
        BY <1>0, <1>1, <2>1, <2>4, <3>1, <4>3, <4>6 DEF Port, Ports, CadenceDue
      <4>5. CopyOK(r)'
        BY <1>1, <4>2, <4>4 DEF CopyOK
      <4> QED
        BY <1>1, <1>3, <2>1, <2>4, <3>0, <4>5 DEF CopyInv, Wrote
    <3> QED
      BY <2>1, <3>3, <3>4
  <2> QED
    BY <2>2, <2>3, <2>4
<1>9. CASE RejectAttempt
  <2>1. steps' = steps /\ receipts' = receipts
    BY <1>9 DEF RejectAttempt, bounds, locals
  <2> QED
    BY <1>0, <1>1, <1>3, <1>9, <2>1, RejectEffect DEF CopyInv
<1>10. CASE Finalize \/ RollbackDone
  <2>1. active' = None /\ SessionInv'
    BY <1>10, SessionStep DEF Finalize, RollbackDone
  <2> QED
    BY <2>1 DEF SessionInv, CopyInv, Unused
<1> QED
  <2>1. \/ session' = session /\ steps' = steps /\ receipts' = receipts
        \/ Attempt \/ BeginSessions \/ CaptureOp \/ ApplyOp \/ MapRoute \/ RejectAttempt \/ Finalize \/ RollbackDone
    <3>1. CASE Schedule \/ Envelope
      BY <3>1 DEF Schedule, Envelope, Advanced, Commit, EffectFails, RollbackEngine, bounds, locals
    <3>2. CASE Begin
      BY <3>2 DEF Begin, Call, BeginEngine, UndoBegin, UndoneBegin, bounds, locals
    <3>3. CASE Mapping
      BY <3>3 DEF Mapping, StepOp, ScriptDone, bounds, locals
    <3>4. CASE Maps
      BY <3>4 DEF Maps, Pass, StartRegions, Region, StartPorts, EndPass, bounds, locals
    <3>5. CASE Rejection
      BY <3>5 DEF Rejection, RestoreEngine, RestoreDone, BeginAgain, UnwindBegun, LeaveStep, bounds, locals
    <3> QED
      BY <3>1, <3>2, <3>3, <3>4, <3>5 DEF Next
  <2> QED
    BY <1>4, <1>5, <1>6, <1>7, <1>8, <1>9, <1>10, <1>11, <2>1

\* A layout that no region of its Program changes needs no further mapping.
LEMMA NeedKept ==
  ASSUME NeedInv, plan' = plan, NEW l \in Layouts,
         \/ val'[l] = Torn
         \/ val'[l] # Torn /\ val'[l].regions = 0
         \/ steps' = steps /\ val'[l] = val[l]
         \/ /\ steps' = steps
            /\ val[l] # Torn /\ val'[l] # Torn /\ val'[l].regions = val[l].regions
            /\ val[l].mapped \subseteq val'[l].mapped,
         NEW x \in Meetings(CadenceDue)', x[1] \in Into(l)
  PROVE  RanPast(x, l)' => x \in val'[l].mapped
<1>0. Stage' = Stage
  BY PlanSame
<1>1. (steps' = steps /\ Ran(l)' = Ran(l)) \/ Ran(l)' = 0
  BY DEF Ran
<1>2. ASSUME Ran(l)' = 0 PROVE ~RanPast(x, l)'
  <2>1. 1 .. (0 - 1) = {}
    OBVIOUS
  <2> QED
    BY <1>2, <2>1 DEF RanPast
<1>3. ASSUME steps' = steps, Ran(l)' = Ran(l), Ran(l)' # 0, RanPast(x, l)'
      PROVE  x \in val'[l].mapped
  <2>1. /\ Ports(l)' = Ports(l) /\ x \in Meetings(CadenceDue)
    BY <1>3, PortSame
  <2>4. RanPast(x, l)
    BY <1>0, <1>3, <2>1 DEF RanPast
  <2>2. x \in val[l].mapped
    BY <2>1, <2>4 DEF NeedInv
  <2>3. val'[l] # Torn
    BY <1>3 DEF Ran
  <2> QED
    BY <1>3, <2>2, <2>3 DEF Ran
<1> QED
  BY <1>1, <1>2, <1>3

\* No layout runs past a mapping it needs.
LEMMA NeedStep ==
  ASSUME IndInv, Next
  PROVE  NeedInv'
<1>0. /\ TypeInv /\ PlanOK /\ SchedInv /\ NeedInv /\ plan' = plan
      /\ steps' = steps \/ Finalize
  BY Setup, PlanFacts DEF IndInv, TypeInv
<1>1. \A l : Into(l)' = Into(l) /\ Stage' = Stage
  BY <1>0, PlanSame
<1>9. ASSUME Finalize PROVE NeedInv'
  <2>1. \A l \in Layouts : val[l] \in State
    BY <1>9, InAttempt DEF Finalize, Working
  <2>2. \A l \in Layouts : val[l].step + 1 \in Nat
    BY <2>1, Records
  <2>3. \A l \in Layouts : val'[l] = Base(val[l].step + 1)
    BY <1>9 DEF Finalize
  <2>4. \A l \in Layouts : val'[l] # Torn /\ val'[l].regions = 0
    BY <2>2, <2>3, Records
  <2> QED
    BY <1>0, <1>1, <2>4, NeedKept DEF NeedInv
<1>2. ASSUME \A l \in Layouts :
               \/ val'[l] = val[l]
               \/ val'[l] = Torn
               \/ val'[l] # Torn /\ val'[l].regions = 0
               \/ /\ val[l] # Torn /\ val'[l] # Torn /\ val'[l].regions = val[l].regions
                  /\ val[l].mapped \subseteq val'[l].mapped
      PROVE  NeedInv'
  <2>1. CASE Finalize
    BY <1>9, <2>1
  <2>2. CASE steps' = steps
    BY <1>0, <1>1, <1>2, <2>2, NeedKept DEF NeedInv
  <2> QED
    BY <1>0, <2>1, <2>2
<1>3. CASE UndoBegin \/ RestoreEngine \/ UnwindBegun \/ RollbackEngine
  <2>1. PICK l \in todo, fails \in BOOLEAN : RollsBack(l, fails)
    BY <1>3 DEF UndoBegin, RestoreEngine, UnwindBegun, RollbackEngine
  <2>2. l \in Layouts /\ (Open(l) \/ Rests(l))
    BY <1>3, <2>1 DEF IndInv, LayoutInv, UndoBegin, RestoreEngine, UnwindBegun, RollbackEngine
  <2>3. txn[l] = None \/ txn[l] = Base(steps)
    BY <2>2 DEF Open, Rests, Clean, Broken
  <2>4. Base(steps) # Torn /\ Base(steps).regions = 0
    BY <1>0, Records DEF TypeInv
  <2> QED
    BY <1>0, <1>2, <2>1, <2>2, <2>3, <2>4, RollsBackEffect
<1>4. CASE BeginEngine \/ BeginAgain
  <2>1. val' = val
    BY <1>4 DEF BeginEngine, BeginAgain, Begins
  <2> QED
    BY <1>2, <2>1
<1>5. CASE Schedule \/ Call \/ BeginSessions \/ UndoneBegin \/ Attempt \/ CaptureOp \/ ScriptDone
           \/ Pass \/ StartRegions \/ StartPorts \/ EndPass \/ RejectAttempt \/ RestoreDone
           \/ LeaveStep \/ Advanced \/ Commit \/ EffectFails \/ RollbackDone
  <2>1. val' = val
    BY <1>5 DEF Schedule, Call, BeginSessions, UndoneBegin, Attempt, CaptureOp, ScriptDone,
         Pass, StartRegions, StartPorts, EndPass, RejectAttempt, RestoreDone, LeaveStep, Advanced,
         Commit, EffectFails, RollbackDone, native
  <2> QED
    BY <1>2, <2>1
<1>6. CASE ApplyOp \/ MapRoute
  <2>1. pc \in Working
    BY <1>6 DEF ApplyOp, MapRoute, Working, Passing
  <2>2. PICK t \in Layouts :
          /\ Only(t)
          /\ \/ val'[t] \in {val[t], Torn}
             \/ /\ val'[t] \in State /\ val'[t].regions = val[t].regions
                /\ val[t].mapped \subseteq val'[t].mapped
    <3>1. CASE ApplyOp
      BY <1>0, <3>1, ApplyEffect DEF PlanOK
    <3>2. CASE MapRoute
      BY <1>0, <3>2, MapEffect DEF PlanOK
    <3> QED
      BY <1>6, <3>1, <3>2
  <2>3. val[t] # Torn /\ Torn \notin State
    BY <2>1, InAttempt, Records
  <2> QED
    BY <1>2, <2>2, <2>3 DEF Only
<1>7. CASE StepOp
  <2>1. pc = "script" /\ pc \in Working /\ steps' = steps
    BY <1>7 DEF StepOp, Working, bounds
  <2>2. PICK op \in todo, class \in {"none", "reject", "fail"}, torn \in BOOLEAN :
          /\ Due(op) /\ op[2] = "step"
          /\ IF class = "none" THEN val' = [val EXCEPT ![op[3]].regions = 1]
             ELSE val' = [val EXCEPT ![op[3]] = IF torn THEN Torn ELSE @]
    BY <1>7 DEF StepOp
  <2>3. op \in Script /\ op[3] \in Layouts /\ Stage = {}
    BY <1>0, <2>1, <2>2, InAttempt, ScriptForm
  <2>4. val \in [Layouts -> State \cup {Torn}] /\ val[op[3]] # Torn
    BY <1>0, <2>1, <2>3, InAttempt DEF TypeInv
  <2>5. CASE class # "none"
    BY <1>2, <2>2, <2>3, <2>4, <2>5
  <2>6. CASE class = "none"
    <3>1. /\ Only(op[3]) /\ val'[op[3]].mapped = val[op[3]].mapped
      BY <2>2, <2>3, <2>4, <2>6, WriteRegions
    <3>2. \A r \in Into(op[3]) : <<r, 1>> \in val[op[3]].mapped
      <4> SUFFICES ASSUME NEW r \in Into(op[3]) PROVE <<r, 1>> \in val[op[3]].mapped
        OBVIOUS
      <4>1. PICK a \in Script : a[2] = "apply" /\ a[3] = r /\ Earlier(a, op)
        BY <1>0, <2>2, <2>3, AppliedFirst
      <4>2. a \notin todo
        BY <2>2, <4>1 DEF Due
      <4>3. <<r, 1>> \in val[Route[r].target].mapped
        BY <2>1, <4>1, <4>2 DEF IndInv, ScriptInv
      <4> QED
        BY <4>3 DEF Into
    <3>3. ASSUME NEW l \in Layouts, NEW x \in Meetings(CadenceDue)', x[1] \in Into(l), RanPast(x, l)'
          PROVE  x \in val'[l].mapped
      <4>1. CASE l = op[3]
        <5>1. x \in Meetings(CadenceDue) /\ CadenceDue \in BOOLEAN
          BY <1>0, <2>1, <3>3, PortSame DEF CadenceDue
        <5>2. x = <<x[1], 1>>
          BY <1>0, <2>3, <5>1 DEF PlanOK
        <5> QED
          BY <3>1, <3>2, <3>3, <4>1, <5>2
      <4>2. CASE l # op[3]
        BY <1>0, <2>1, <3>1, <3>3, <4>2, NeedKept DEF Only
      <4> QED
        BY <4>1, <4>2
    <3> QED
      BY <1>1, <3>3 DEF NeedInv
  <2> QED
    BY <2>2, <2>5, <2>6
<1>8. CASE Region
  <2>1. pc = "regions" /\ pc \in Working /\ pc \in Passing /\ steps' = steps
    BY <1>8 DEF Region, Working, Passing, bounds
  <2>2. PICK l \in todo, class \in {"none", "reject", "fail"} :
          \/ val' = [val EXCEPT ![l].regions = val[l].regions + 1]
          \/ val' = [val EXCEPT ![l] = Torn]
    BY <1>8 DEF Region
  <2>3. l \in Layouts /\ l \notin Blocked /\ waiting[l] = None
    BY <2>1, <2>2 DEF IndInv, LoopInv, Runnable
  <2>4. /\ val \in [Layouts -> State \cup {Torn}] /\ val[l] # Torn /\ val[l] \in State
        /\ val[l].regions \in Nat /\ val[l].regions + 1 \in Nat
    BY <1>0, <2>1, <2>3, InAttempt, Records DEF TypeInv
  <2>5. CASE val' = [val EXCEPT ![l] = Torn]
    BY <1>2, <2>3, <2>4, <2>5
  <2>6. CASE val' = [val EXCEPT ![l].regions = val[l].regions + 1]
    <3>1. /\ Only(l) /\ val'[l].mapped = val[l].mapped /\ val'[l] \in State
          /\ val'[l].regions = val[l].regions + 1
      BY <2>3, <2>4, <2>6, WriteRegions
    <3>2. Passed(l, val[l].regions)
      BY <1>0, <2>1, <2>3, <2>4, Waits DEF IndInv, PassInv
    <3>3. Ran(l)' = val[l].regions + 1
      BY <3>1, Records DEF Ran
    <3>4. ASSUME NEW x \in Meetings(CadenceDue)', x[1] \in Into(l), RanPast(x, l)'
          PROVE  x \in val'[l].mapped
      <4>0. x \in Meetings(CadenceDue) /\ CadenceDue \in BOOLEAN /\ Ports(l)' = Ports(l)
        BY <1>0, <2>1, <3>4, PortSame DEF CadenceDue
      <4>1. CASE x[1] \in Stage
        <5>1. PICK i \in 1 .. (Ran(l)' - 1) : Ports(l)'[i] = x
          <6>1. x[1] \in Stage'
            BY <1>1, <4>1
          <6> QED
            BY <3>4, <6>1 DEF RanPast
        <5>2. i \in 1 .. val[l].regions
          BY <2>4, <3>3, <5>1
        <5>3. Port(l, i) = x
          BY <4>0, <5>1 DEF Port
        <5> QED
          BY <3>1, <3>2, <3>4, <5>2, <5>3 DEF Passed
      <4>4. x[1] \notin Stage => x = <<x[1], 1>>
        BY <1>0, <4>0 DEF PlanOK
      <4>5. x[1] \in Routes /\ Route[x[1]].target = l
        BY <3>4 DEF Into
      <4>2. CASE x[1] \in Accepted
        <5>1. <<x[1], 1>> \in val[l].mapped /\ x[1] \notin Stage
          BY <1>0, <2>1, <4>2, <4>5 DEF IndInv, PassInv, PlanOK
        <5> QED
          BY <3>1, <4>4, <5>1
      <4>3. CASE x[1] \in After
        <5>1. x[1] \notin after
          BY <2>3, <4>5 DEF Blocked
        <5>2. <<x[1], 1>> \in val[l].mapped /\ x[1] \notin Stage
          BY <1>0, <2>1, <4>3, <4>5, <5>1 DEF IndInv, PassInv, PlanOK
        <5> QED
          BY <3>1, <4>4, <5>2
      <4> QED
        BY <1>0, <4>5, <4>1, <4>2, <4>3 DEF PlanOK
    <3>5. ASSUME NEW k \in Layouts, NEW x \in Meetings(CadenceDue)', x[1] \in Into(k), RanPast(x, k)'
          PROVE  x \in val'[k].mapped
      <4>1. CASE k = l
        BY <3>4, <3>5, <4>1
      <4>2. CASE k # l
        BY <1>0, <2>1, <3>1, <3>5, <4>2, NeedKept DEF Only
      <4> QED
        BY <4>1, <4>2
    <3> QED
      BY <1>1, <3>5 DEF NeedInv
  <2> QED
    BY <2>2, <2>5, <2>6
<1> QED
  BY <1>3, <1>4, <1>5, <1>6, <1>7, <1>8, <1>9
     DEF Next, Begin, Mapping, Maps, Rejection, Envelope

\* The effects of the operations done.
LEMMA ScriptStep ==
  ASSUME IndInv, Next
  PROVE  ScriptInv'
<1> SUFFICES ASSUME pc' = "script" PROVE ScriptInv'
  BY DEF ScriptInv
<1>0. TypeInv /\ PlanOK /\ SchedInv /\ ScriptInv /\ plan' = plan
  BY Setup, PlanFacts DEF IndInv, TypeInv
<1>1. Attempt \/ CaptureOp \/ ApplyOp \/ StepOp
  BY Control
<1>2. schedule' = schedule /\ steps' = steps
  BY <1>1 DEF Attempt, CaptureOp, ApplyOp, StepOp, setup, bounds
<1>3. /\ Routes' = Routes /\ Accepted' = Accepted /\ After' = After /\ Stage' = Stage
      /\ Route' = Route /\ Base(steps)' = Base(steps)
  BY <1>0, <1>2, PlanSame DEF Base
<1>4. Script' = Script
  <2>1. \A n : Round(n)' = Round(n)
    BY <1>2, <1>3 DEF Round, Each
  <2> QED
    BY <1>0, <1>2, <1>3, <2>1 DEF Script, Each
<1>5. \A op \in Script : /\ op[2] \in {"capture", "apply", "step"}
                         /\ op[2] # "step" => op[3] \in Routes \ Stage
                         /\ op[2] = "step" => op[3] \in Layouts /\ Stage = {}
                         /\ Stage # {} => op[3] \in Accepted
  BY <1>0, ScriptForm
<1>6. CASE Attempt
  <2>1. /\ pc = "attempt" /\ todo' = Script /\ val' = val /\ port' = port
        /\ receipts' = [r \in Routes |-> 0]
        /\ after' = After /\ progress' = TRUE /\ waiting' = [l \in Layouts |-> None]
    BY <1>6 DEF Attempt, native, Goto
  <2>2. \A l \in Layouts : val[l] = Base(steps) /\ port[l] = None
    BY <2>1 DEF IndInv, LayoutInv, Fresh
  <2>3. \A r \in Routes : receipts'[r] = 0
    BY <2>1
  <2>4. \A l \in Layouts : val[l].regions = 0
    BY <1>0, <2>2, Records DEF TypeInv
  <2>5. Stage \subseteq Routes /\ After \subseteq Routes
    BY <1>0 DEF PlanOK
  <2> QED
    BY <1>3, <1>4, <1>5, <2>1, <2>2, <2>3, <2>4, <2>5 DEF ScriptInv
<1>7. CASE CaptureOp \/ ApplyOp \/ StepOp
  <2>1. /\ pc = "script" /\ waiting' = waiting /\ after' = after /\ progress' = progress
    BY <1>7 DEF CaptureOp, ApplyOp, StepOp, locals
  <2>2. ~Leaves
    BY DEF Leaves
  <2>3. ASSUME NEW op \in todo, Due(op), todo' = todo \ {op}
        PROVE  /\ todo' \subseteq Script' /\ op \in Script
               /\ \A a \in Script', b \in todo' : Earlier(b, a) => a \in todo'
               /\ \A a \in Script : Earlier(op, a) => a \in todo
    BY <1>0, <1>4, <2>1, <2>3, DueRest DEF ScriptInv
  <2>4. ASSUME port' = port
        PROVE  \A l \in Layouts : waiting'[l] = None /\ port'[l] = None
    BY <1>0, <2>1, <2>4 DEF ScriptInv
  <2>5. after' = After' /\ progress'
    BY <1>0, <1>3, <2>1 DEF ScriptInv
  <2>6. CASE CaptureOp
    <3>1. PICK op \in todo :
             /\ Due(op) /\ op[2] = "capture" /\ op \in Script /\ op[3] \in Routes \ Stage
             /\ todo' = todo \ {op}
      BY <2>2, <2>6, CaptureEffect
    <3>2. val' = val /\ port' = port /\ receipts' = receipts
      BY <2>6 DEF CaptureOp, native
    <3>3. ASSUME NEW a \in Script, a[2] = "apply"
          PROVE  /\ receipts'[a[3]] = IF a \in todo' THEN 0 ELSE 1
                 /\ a \notin todo' => <<a[3], 1>> \in val'[Route[a[3]].target].mapped
      <4>1. a \in todo' <=> a \in todo
        BY <3>1, <3>3
      <4> QED
        BY <1>0, <2>1, <3>2, <3>3, <4>1 DEF ScriptInv
    <3>4. ASSUME NEW a \in Script, a[2] = "step"
          PROVE  val'[a[3]].regions = IF a \in todo' THEN 0 ELSE 1
      <4>1. a \in todo' <=> a \in todo
        BY <3>1, <3>4
      <4> QED
        BY <1>0, <2>1, <3>2, <3>4, <4>1 DEF ScriptInv
    <3>5. ASSUME \A a \in Script \ todo' : a[2] = "capture"
          PROVE  \A l \in Layouts : val'[l] = Base(steps)
      BY <1>0, <2>1, <3>1, <3>2, <3>5 DEF ScriptInv
    <3>6. ASSUME Stage # {}
          PROVE  /\ \A l \in Layouts : val'[l].regions = 0
                 /\ \A r \in Stage \cup After : receipts'[r] = 0
      BY <1>0, <2>1, <3>2, <3>6 DEF ScriptInv
    <3> QED
      BY <1>3, <1>4, <2>3, <2>4, <2>5, <3>1, <3>2, <3>3, <3>4, <3>5, <3>6 DEF ScriptInv
  <2>7. CASE ApplyOp
    <3>1. PICK op \in todo :
             /\ Due(op) /\ op[2] = "apply" /\ op \in Script /\ op[3] \in Routes \ Stage
             /\ Only(Route[op[3]].target) /\ port' = port
             /\ todo' = todo \ {op} /\ receipts' = [receipts EXCEPT ![op[3]] = @ + 1]
             /\ val'[Route[op[3]].target].regions = val[Route[op[3]].target].regions
             /\ val'[Route[op[3]].target].mapped =
                  val[Route[op[3]].target].mapped \cup {<<op[3], receipts[op[3]] + 1>>}
      BY <2>2, <2>7, ApplyEffect
    <3>2. PICK t \in Layouts : t = Route[op[3]].target
      BY <1>0, <3>1 DEF PlanOK
    <3>3. \A l \in Layouts : val'[l].regions = val[l].regions /\ val[l].mapped \subseteq val'[l].mapped
      BY <3>1, <3>2 DEF Only
    <3>8. receipts[op[3]] = 0 /\ receipts'[op[3]] = 1
      <4>1. receipts[op[3]] = 0 /\ receipts \in [Routes -> Nat]
        BY <1>0, <2>1, <3>1 DEF ScriptInv, TypeInv
      <4> QED
        BY <3>1, <4>1
    <3>9. \A r \in Routes : r # op[3] => receipts'[r] = receipts[r]
      BY <1>0, <3>1 DEF TypeInv
    <3>4. ASSUME NEW a \in Script, a[2] = "apply"
          PROVE  /\ receipts'[a[3]] = IF a \in todo' THEN 0 ELSE 1
                 /\ a \notin todo' => <<a[3], 1>> \in val'[Route[a[3]].target].mapped
      <4>1. CASE a = op
        BY <3>1, <3>8, <4>1
      <4>2. CASE a # op
        <5>1. a[3] # op[3] /\ a[3] \in Routes /\ Route[a[3]].target \in Layouts
              /\ (a \in todo' <=> a \in todo)
          BY <1>0, <1>5, <3>1, <3>4, <4>2, AppliesOnce DEF PlanOK
        <5>2. /\ receipts[a[3]] = IF a \in todo THEN 0 ELSE 1
              /\ a \notin todo => <<a[3], 1>> \in val[Route[a[3]].target].mapped
          BY <1>0, <2>1, <3>4 DEF ScriptInv
        <5> QED
          BY <3>3, <3>9, <5>1, <5>2
      <4> QED
        BY <4>1, <4>2
    <3>5. ASSUME NEW a \in Script, a[2] = "step"
          PROVE  val'[a[3]].regions = IF a \in todo' THEN 0 ELSE 1
      <4>1. a \in todo' <=> a \in todo
        BY <3>1, <3>5
      <4>2. a[3] \in Layouts
        BY <1>5, <3>5
      <4> QED
        BY <1>0, <2>1, <3>3, <3>5, <4>1, <4>2 DEF ScriptInv
    <3>6. ~(\A a \in Script \ todo' : a[2] = "capture")
      BY <3>1
    <3>7. ASSUME Stage # {}
          PROVE  /\ \A l \in Layouts : val'[l].regions = 0
                 /\ \A r \in Stage \cup After : receipts'[r] = 0
      <4>1. op[3] \in Accepted
        BY <1>5, <3>1, <3>7
      <4>2. \A r \in Stage \cup After : r # op[3] /\ r \in Routes
        BY <1>0, <4>1 DEF PlanOK
      <4> QED
        BY <1>0, <2>1, <3>3, <3>7, <3>9, <4>2 DEF ScriptInv
    <3> QED
      BY <1>3, <1>4, <2>3, <2>4, <2>5, <3>1, <3>4, <3>5, <3>6, <3>7 DEF ScriptInv
  <2>8. CASE StepOp
    <3>1. PICK op \in todo :
             /\ Due(op) /\ op[2] = "step" /\ op \in Script /\ op[3] \in Layouts /\ Stage = {}
             /\ Only(op[3]) /\ todo' = todo \ {op}
             /\ val'[op[3]].regions = 1 /\ val'[op[3]].mapped = val[op[3]].mapped
      BY <2>2, <2>8, StepEffect
    <3>2. port' = port /\ receipts' = receipts
      BY <2>8 DEF StepOp, locals
    <3>3. \A l \in Layouts : val'[l].mapped = val[l].mapped
      BY <3>1 DEF Only
    <3>4. ASSUME NEW a \in Script, a[2] = "apply"
          PROVE  /\ receipts'[a[3]] = IF a \in todo' THEN 0 ELSE 1
                 /\ a \notin todo' => <<a[3], 1>> \in val'[Route[a[3]].target].mapped
      <4>1. (a \in todo' <=> a \in todo) /\ a[3] \in Routes /\ Route[a[3]].target \in Layouts
        BY <1>0, <1>5, <3>1, <3>4 DEF PlanOK
      <4> QED
        BY <1>0, <2>1, <3>2, <3>3, <3>4, <4>1 DEF ScriptInv
    <3>5. ASSUME NEW a \in Script, a[2] = "step"
          PROVE  val'[a[3]].regions = IF a \in todo' THEN 0 ELSE 1
      <4>1. CASE a = op
        BY <3>1, <4>1
      <4>2. CASE a # op
        <5>1. a[3] # op[3] /\ a[3] \in Layouts /\ (a \in todo' <=> a \in todo)
          BY <1>0, <1>5, <3>1, <3>5, <4>2, StepsOnce
        <5> QED
          BY <1>0, <2>1, <3>1, <3>5, <5>1 DEF ScriptInv, Only
      <4> QED
        BY <4>1, <4>2
    <3>6. ~(\A a \in Script \ todo' : a[2] = "capture")
      BY <3>1
    <3> QED
      BY <1>3, <1>4, <2>3, <2>4, <2>5, <3>1, <3>2, <3>4, <3>5, <3>6 DEF ScriptInv
  <2> QED
    BY <1>7, <2>6, <2>7, <2>8
<1> QED
  BY <1>1, <1>6, <1>7

-----------------------------------------------------------------------------
(* The passes over Program maps.                                           *)

\* A region whose predecessors have run is run.
LEMMA Grows ==
  ASSUME NEW D, NEW x, x \notin D,
         \A a \in Regions, b \in D : Follows(a, b) => a \in D,
         \A S \in SUBSET D : S # {} => Least(S),
         D \cup {x} \subseteq Regions,
         \A a \in Regions : Follows(a, x) => a \in D
  PROVE  /\ \A a \in Regions, b \in D \cup {x} : Follows(a, b) => a \in D \cup {x}
         /\ \A S \in SUBSET (D \cup {x}) : S # {} => Least(S)
<1>1. \A a \in Regions, b \in D \cup {x} : Follows(a, b) => a \in D
  OBVIOUS
<1>2. ASSUME NEW S \in SUBSET (D \cup {x}), S # {} PROVE Least(S)
  <2>1. \A a \in S, b \in S : Follows(a, b) => a \in D
    BY <1>1
  <2>2. CASE S \cap D = {}
    <3>1. PICK b \in S : TRUE
      BY <1>2
    <3>2. \A a \in S : ~Follows(a, b)
      BY <2>1, <2>2, <3>1
    <3> QED
      BY <3>2 DEF Least
  <2>3. CASE S \cap D # {}
    <3>1. PICK b \in S \cap D : \A a \in S \cap D : ~Follows(a, b)
      BY <2>3 DEF Least
    <3>2. \A a \in S : ~Follows(a, b)
      BY <2>1, <3>1
    <3> QED
      BY <3>2 DEF Least
  <2> QED
    BY <2>2, <2>3
<1> QED
  BY <1>1, <1>2

\* The regions are numbered per layout.
LEMMA RegionForm ==
  ASSUME PlanOK
  PROVE  /\ \A x \in Regions : /\ x = <<x[1], x[2]>> /\ x[1] \in Layouts
                               /\ x[2] \in 1 .. (Len1(x[1]) + 1)
         /\ \A l \in Layouts : \A i \in 1 .. (Len1(l) + 1) : <<l, i>> \in Regions
BY DEF Regions, Len1

\* A pass that only moves on.
LEMMA PassSame ==
  ASSUME PassInv, pc \in Passing,
         UNCHANGED <<plan, steps, receipts, val, waiting, port, after>>
  PROVE  PassInv'
<1>1. /\ Stage' = Stage /\ Accepted' = Accepted /\ After' = After /\ Route' = Route
      /\ Regions' = Regions /\ \A l : Into(l)' = Into(l) /\ Len1(l)' = Len1(l)
      /\ \A l, i : Port(l, i)' = Port(l, i)
      /\ \A r : Peers(r)' = Peers(r)
      /\ \A a, b : Follows(a, b)' = Follows(a, b)
  BY PlanSame, PortSame
<1>2. \A l, k : Passed(l, k)' = Passed(l, k)
  BY <1>1 DEF Passed, Met
<1>3. \A l : Stands(l)' = Stands(l)
  BY <1>1, <1>2 DEF Stands
<1>4. Done' = Done
  BY <1>1 DEF Done
<1>5. \A S : Least(S)' = Least(S)
  BY <1>1 DEF Least
<1>6. (\A a \in Regions, b \in Done : Follows(a, b) => a \in Done)'
  BY <1>1, <1>4 DEF PassInv
<1>7. (\A S \in SUBSET Done : S # {} => Least(S))'
  BY <1>4, <1>5 DEF PassInv
<1>8. (\A r \in Stage : \A k \in 1 .. receipts[r] : \A l \in Peers(r) :
         \E i \in 1 .. Len1(l) : Port(l, i) = <<r, k>> /\ i <= val[l].regions)'
  BY <1>1 DEF PassInv
<1> QED
  BY <1>1, <1>3, <1>6, <1>7, <1>8 DEF PassInv

\* What has been passed stays passed.
LEMMA PassedKept ==
  ASSUME PlanOK, plan' = plan, steps' = steps, NEW l \in Layouts, NEW k, k \in Nat, k <= Len1(l),
         Passed(l, k), \A q \in Stage : receipts[q] \in Nat /\ receipts'[q] \in Nat
                                          /\ receipts[q] <= receipts'[q],
         val[l].mapped \subseteq val'[l].mapped
  PROVE  Passed(l, k)'
<1>1. Into(l)' = Into(l) /\ \A i : Port(l, i)' = Port(l, i)
  BY PlanSame, PortSame
<1>2. \A i \in 1 .. k : Port(l, i)[1] \in Stage /\ Port(l, i)[2] \in Nat
  BY DEF PlanOK
<1>3. ASSUME NEW i \in 1 .. k PROVE Met(Port(l, i))'
  <2>1. Port(l, i)[2] <= receipts[Port(l, i)[1]]
    BY <1>3 DEF Passed, Met
  <2>2. Port(l, i)[2] <= receipts'[Port(l, i)[1]]
    BY <1>2, <1>3, <2>1
  <2> QED
    BY <1>1, <2>2 DEF Met
<1> QED
  BY <1>1, <1>3 DEF Passed

\* The passes begin with no Program started.
LEMMA PassStarts ==
  ASSUME IndInv, ScriptDone, pc' \in Passing
  PROVE  PassInv'
<1>0. TypeInv /\ PlanOK /\ SchedInv /\ ScriptInv /\ plan' = plan /\ steps' = steps
  BY PlanFacts DEF IndInv, TypeInv, ScriptDone, setup, bounds
<1>1. /\ pc = "script" /\ todo = {} /\ Stage # {}
      /\ UNCHANGED <<receipts, val, waiting, port, after>>
  BY DEF ScriptDone, native, locals, Goto, Passing
<1>2. /\ Stage' = Stage /\ Accepted' = Accepted /\ After' = After /\ Route' = Route
      /\ Regions' = Regions /\ \A l : Into(l)' = Into(l) /\ Len1(l)' = Len1(l)
  BY <1>0, PlanSame, PortSame
<1>3. \A l \in Layouts : val[l].regions = 0 /\ waiting[l] = None /\ port[l] = None
  BY <1>0, <1>1 DEF ScriptInv
<1>4. \A l \in Layouts : Stands(l)'
  <2> SUFFICES ASSUME NEW l \in Layouts PROVE Stands(l)'
    OBVIOUS
  <2>1. Len1(l) \in Nat /\ Len1(l)' = Len1(l) /\ val'[l].regions = 0
    BY <1>0, <1>1, <1>2, <1>3 DEF PlanOK
  <2>2. \A k : k = 0 => Passed(l, k)'
    BY DEF Passed
  <2>3. Passed(l, val[l].regions)'
    BY <2>1 DEF Passed
  <2>4. waiting'[l] = None /\ port'[l] = None /\ val'[l].regions <= Len1(l)'
    BY <1>1, <1>3, <2>1
  <2> QED
    BY <2>3, <2>4 DEF Stands
<1>5. \A r \in Stage \cup After : receipts[r] = 0
  BY <1>0, <1>1 DEF ScriptInv
<1>6. \A r \in Accepted : receipts[r] = 1 /\ <<r, 1>> \in val[Route[r].target].mapped
  <2> SUFFICES ASSUME NEW r \in Accepted
               PROVE  receipts[r] = 1 /\ <<r, 1>> \in val[Route[r].target].mapped
    OBVIOUS
  <2>1. PICK a \in Script : a = <<1, "apply", r>>
    BY <1>0, <1>1, ScriptCovers
  <2>2. a[2] = "apply" /\ a[3] = r /\ a \notin todo
    BY <1>1, <2>1
  <2> QED
    BY <1>0, <1>1, <2>1, <2>2 DEF ScriptInv
<1>7. after = After
  BY <1>0, <1>1 DEF ScriptInv
<1>8. Done' = {}
  <2>1. \A x \in Regions : x[1] \in Layouts /\ x[2] \in Nat /\ x[2] > 0
    BY <1>0, RegionForm DEF PlanOK
  <2>2. \A x \in Regions : ~(x[2] <= val'[x[1]].regions)
    BY <1>1, <1>3, <2>1
  <2> QED
    BY <1>2, <2>2 DEF Done
<1>9. \A r \in After : val[Route[r].target].regions = 0
  BY <1>0, <1>3 DEF PlanOK
<1>10. \A r \in Stage : 1 .. receipts[r] = {}
  BY <1>5
<1> QED
  BY <1>1, <1>2, <1>4, <1>5, <1>6, <1>7, <1>8, <1>9, <1>10 DEF PassInv

\* A mapping is applied: the peers of its port, if it has one, go on.
LEMMA PassMaps ==
  ASSUME IndInv, MapRoute, pc' \in Passing
  PROVE  PassInv'
<1>0. TypeInv /\ PlanOK /\ PassInv /\ LoopInv /\ plan' = plan /\ steps' = steps
  BY PlanFacts DEF IndInv, TypeInv, MapRoute, setup, bounds
<1>1. pc \in {"after", "ports"} /\ pc \in Passing /\ pc \in Working /\ ~Leaves
  BY DEF MapRoute, Passing, Working, Leaves
<1>2. /\ Stage' = Stage /\ Accepted' = Accepted /\ After' = After /\ Route' = Route
      /\ Regions' = Regions /\ \A l : Into(l)' = Into(l) /\ Len1(l)' = Len1(l)
      /\ \A l, i : Port(l, i)' = Port(l, i)
      /\ \A r : Peers(r)' = Peers(r)
      /\ \A a, b : Follows(a, b)' = Follows(a, b)
  BY <1>0, PlanSame, PortSame
<1>3. PICK r \in todo :
        /\ r \in Routes /\ Only(Route[r].target) /\ receipts' = [receipts EXCEPT ![r] = @ + 1]
        /\ val'[Route[r].target].regions = val[Route[r].target].regions
        /\ val'[Route[r].target].mapped = val[Route[r].target].mapped \cup {<<r, receipts[r] + 1>>}
        /\ port' = [l \in Layouts |-> IF r \in Stage /\ port[l] = r THEN None ELSE port[l]]
        /\ waiting' = [l \in Layouts |-> IF r \in Stage /\ waiting[l] = r THEN None
                                                                       ELSE waiting[l]]
        /\ after' = after \ {r}
  BY <1>1, MapEffect
<1>4. PICK t \in Layouts : t = Route[r].target
  BY <1>0, <1>3 DEF PlanOK
<1>5. \A l \in Layouts : val'[l].regions = val[l].regions /\ val[l].mapped \subseteq val'[l].mapped
  BY <1>3, <1>4 DEF Only
<1>6. /\ \A q \in Routes : receipts[q] \in Nat /\ (q # r => receipts'[q] = receipts[q])
      /\ receipts'[r] = receipts[r] + 1
  BY <1>0, <1>3 DEF TypeInv
<1>7. /\ Stage \subseteq Routes /\ Accepted \subseteq Routes /\ After \subseteq Routes
      /\ r # None /\ r # Over /\ None # Over
  BY <1>0, <1>3 DEF PlanOK
<1>8. \A l \in Layouts : Stands(l) /\ val[l].regions \in Nat /\ Len1(l) \in Nat
  BY <1>0, <1>1, InAttempt, Records DEF PassInv, PlanOK
<1>9. ASSUME NEW l \in Layouts, NEW k \in Nat, k <= Len1(l), Passed(l, k) PROVE Passed(l, k)'
  BY <1>0, <1>5, <1>6, <1>7, <1>9, PassedKept
<1>10. ASSUME NEW l \in Layouts PROVE Stands(l)'
  <2>1. CASE r \in Stage /\ waiting[l] = r
    <3>1. PICK n \in 1 .. Len1(l) : /\ n = val[l].regions /\ Port(l, n) = <<r, receipts[r] + 1>>
                                    /\ port[l] = r /\ Passed(l, n - 1)
      BY <1>0, <1>7, <1>8, <2>1, Waits
    <3>2. n \in Nat /\ n - 1 \in Nat /\ n - 1 <= Len1(l) /\ n <= Len1(l)
      BY <1>8, <3>1
    <3>3. PICK m \in Nat : m = n - 1
      BY <3>2
    <3>4. Passed(l, m)'
      BY <1>9, <3>1, <3>2, <3>3
    <3>5. r \in Into(l) => Port(l, n) \in val'[l].mapped
      BY <1>3, <3>1 DEF Into
    <3>6. Port(l, n)[1] = r /\ Port(l, n)[2] <= receipts'[r]
      BY <1>3, <1>6, <3>1
    <3>11. Met(Port(l, n))'
      BY <1>2, <3>6 DEF Met
    <3>7. \A i \in 1 .. n : i \in 1 .. m \/ i = n
      BY <3>2, <3>3
    <3>8. Passed(l, n)'
      BY <1>2, <3>4, <3>5, <3>6, <3>7, <3>11 DEF Passed
    <3>9. waiting'[l] = None /\ port'[l] = None /\ val'[l].regions = n /\ n <= Len1(l)'
      BY <1>2, <1>3, <1>5, <2>1, <3>1, <3>2
    <3>10. Passed(l, val[l].regions)'
      BY <3>8, <3>9
    <3> QED
      BY <3>9, <3>10 DEF Stands
  <2>2. CASE ~(r \in Stage /\ waiting[l] = r)
    <3>1. waiting'[l] = waiting[l]
      BY <1>3, <2>2
    <3>2. ~(r \in Stage /\ port[l] = r)
      BY <1>0, <1>7, <1>8, <2>2, Waits
    <3>3. port'[l] = port[l] /\ val'[l].regions = val[l].regions
      BY <1>3, <1>5, <3>2
    <3>4. CASE waiting[l] = None
      <4>1. PICK n \in Nat : n = val[l].regions
        BY <1>8
      <4>2. port[l] = None /\ n <= Len1(l) /\ Passed(l, n)
        BY <1>0, <1>8, <3>4, <4>1, Waits
      <4>3. Passed(l, n)'
        BY <1>9, <4>2
      <4>4. Passed(l, val[l].regions)'
        BY <3>3, <4>1, <4>3
      <4> QED
        BY <1>2, <3>1, <3>3, <3>4, <4>1, <4>2, <4>4 DEF Stands
    <3>5. CASE waiting[l] = Over
      <4>1. PICK n \in Nat : n = Len1(l)
        BY <1>8
      <4>2. port[l] = None /\ val[l].regions = n + 1 /\ Passed(l, n)
        BY <1>0, <1>8, <3>5, <4>1, Waits
      <4>3. Passed(l, n)'
        BY <1>9, <4>1, <4>2
      <4>4. Passed(l, Len1(l))'
        BY <1>2, <4>1, <4>3
      <4> QED
        BY <1>2, <3>1, <3>3, <3>5, <4>1, <4>2, <4>4 DEF Stands
    <3>6. CASE waiting[l] \notin {None, Over}
      <4>1. PICK n \in 1 .. Len1(l) : /\ n = val[l].regions /\ waiting[l] = Port(l, n)[1]
                                      /\ Port(l, n) = <<waiting[l], receipts[waiting[l]] + 1>>
                                      /\ port[l] = waiting[l] /\ Passed(l, n - 1)
        BY <1>0, <1>8, <3>6, Waits
      <4>5. waiting[l] \in Stage /\ waiting[l] # r
        BY <1>0, <2>2, <4>1 DEF PlanOK
      <4>6. Port(l, n)[2] = receipts'[Port(l, n)[1]] + 1
        BY <1>6, <1>7, <4>1, <4>5
      <4>7. n = val'[l].regions /\ waiting'[l] = Port(l, n)[1] /\ port'[l] = Port(l, n)[1]
        BY <3>1, <3>3, <4>1
      <4>2. PICK m \in Nat : m = n - 1 /\ m <= Len1(l)
        BY <1>8, <4>1
      <4>3. Passed(l, m)'
        BY <1>9, <4>1, <4>2
      <4>4. Passed(l, val[l].regions - 1)'
        BY <3>3, <4>1, <4>2, <4>3
      <4> QED
        BY <1>2, <4>4, <4>6, <4>7 DEF Stands
    <3> QED
      BY <3>4, <3>5, <3>6
  <2> QED
    BY <2>1, <2>2
<1>11. ASSUME NEW q \in Stage, NEW k \in 1 .. receipts'[q], NEW l \in Peers(q)
       PROVE  \E i \in 1 .. Len1(l) : Port(l, i) = <<q, k>> /\ i <= val'[l].regions
  <2>0. l \in Layouts /\ q \in Routes /\ val'[l].regions = val[l].regions
    BY <1>0, <1>5, <1>7, <1>11 DEF PlanOK, Peers
  <2>1. CASE k \in 1 .. receipts[q]
    BY <1>0, <1>1, <1>11, <2>0, <2>1 DEF PassInv
  <2>2. CASE k \notin 1 .. receipts[q]
    <3>1. q = r /\ k = receipts[r] + 1
      BY <1>6, <1>11, <2>0, <2>2
    <3>2. pc = "ports"
      BY <1>0, <1>1, <1>3, <1>11, <3>1 DEF LoopInv, Completed, TypeInv, PlanOK
    <3>3. waiting[l] = r
      BY <1>0, <1>3, <1>11, <3>1, <3>2 DEF LoopInv, Matched, Peers
    <3>4. val[l].regions \in 1 .. Len1(l) /\ Port(l, val[l].regions) = <<r, receipts[r] + 1>>
      BY <1>0, <1>7, <1>8, <2>0, <3>3, Waits
    <3> QED
      BY <1>8, <2>0, <3>1, <3>4
  <2> QED
    BY <2>1, <2>2
<1>21. r \in Stage \/ (r \in after /\ r \in After /\ waiting[Route[r].source] = Over)
  BY <1>0, <1>1, <1>3 DEF LoopInv, Completed, Matched, TypeInv
<1>12. ASSUME NEW q \in Accepted
       PROVE  receipts'[q] = 1 /\ <<q, 1>> \in val'[Route[q].target].mapped
  <2>1. q # r /\ q \in Routes /\ Route[q].target \in Layouts
    BY <1>0, <1>7, <1>12, <1>21 DEF PlanOK
  <2>2. receipts[q] = 1 /\ <<q, 1>> \in val[Route[q].target].mapped
    BY <1>0, <1>1, <1>12 DEF PassInv
  <2> QED
    BY <1>5, <1>6, <2>1, <2>2
<1>13. ASSUME NEW q \in After \ after'
       PROVE  /\ receipts'[q] = 1 /\ <<q, 1>> \in val'[Route[q].target].mapped
              /\ waiting'[Route[q].source] = Over
  <2>0. Route[q].source \in Layouts /\ Route[q].target \in Layouts /\ q \in Routes
    BY <1>0, <1>13 DEF PlanOK
  <2>1. CASE q = r
    <3>1. r \notin Stage
      BY <1>0, <1>13, <2>1 DEF PlanOK
    <3>2. waiting[Route[r].source] = Over /\ receipts[r] = 0
      BY <1>0, <1>1, <1>21, <3>1 DEF PassInv
    <3>3. receipts'[r] = 1 /\ <<r, 1>> \in val'[Route[r].target].mapped
      BY <1>3, <1>6, <3>2
    <3> QED
      BY <1>3, <2>0, <2>1, <3>1, <3>2, <3>3
  <2>2. CASE q # r
    <3>1. q \in After \ after
      BY <1>3, <1>13, <2>2
    <3>2. /\ receipts[q] = 1 /\ <<q, 1>> \in val[Route[q].target].mapped
          /\ waiting[Route[q].source] = Over
      BY <1>0, <1>1, <3>1 DEF PassInv
    <3>3. waiting'[Route[q].source] = Over
      BY <1>3, <1>7, <2>0, <3>2
    <3> QED
      BY <1>5, <1>6, <2>0, <2>2, <3>2, <3>3
  <2> QED
    BY <2>1, <2>2
<1>14. ASSUME NEW q \in after' PROVE receipts'[q] = 0 /\ val'[Route[q].target].regions = 0
  <2>1. q \in after /\ q # r /\ q \in Routes /\ Route[q].target \in Layouts
    BY <1>0, <1>3, <1>7, <1>14 DEF PlanOK, TypeInv
  <2>2. receipts[q] = 0 /\ val[Route[q].target].regions = 0
    BY <1>0, <1>1, <2>1 DEF PassInv
  <2> QED
    BY <1>5, <1>6, <2>1, <2>2
<1>15. Done' = Done
  <2>1. \A x \in Regions : x[1] \in Layouts
    BY <1>0, RegionForm
  <2> QED
    BY <1>2, <1>5, <2>1 DEF Done
<1>16. (\A a \in Regions, b \in Done : Follows(a, b) => a \in Done)'
  BY <1>0, <1>1, <1>2, <1>15 DEF PassInv
<1>17. \A S : Least(S)' = Least(S)
  BY <1>2 DEF Least
<1>18. (\A S \in SUBSET Done : S # {} => Least(S))'
  BY <1>0, <1>1, <1>15, <1>17 DEF PassInv
<1>19. (\A q \in Stage : \A k \in 1 .. receipts[q] : \A l \in Peers(q) :
          \E i \in 1 .. Len1(l) : Port(l, i) = <<q, k>> /\ i <= val[l].regions)'
  BY <1>2, <1>11
<1>20. Stage' # {}
  BY <1>0, <1>1, <1>2 DEF PassInv
<1> QED
  BY <1>2, <1>10, <1>12, <1>13, <1>14, <1>16, <1>18, <1>19, <1>20 DEF PassInv

\* A runnable Program runs its next region: all regions it follows have run.
LEMMA PassRuns ==
  ASSUME IndInv, Region, pc' \in Passing
  PROVE  PassInv'
<1>0. TypeInv /\ PlanOK /\ PassInv /\ LoopInv /\ plan' = plan /\ steps' = steps
  BY PlanFacts DEF IndInv, TypeInv, Region, setup, bounds
<1>1. pc = "regions" /\ pc \in Passing /\ pc \in Working /\ ~Leaves /\ receipts' = receipts /\ after' = after
  BY DEF Region, Passing, Working, Leaves
<1>2. /\ Stage' = Stage /\ Accepted' = Accepted /\ After' = After /\ Route' = Route
      /\ Regions' = Regions /\ \A l : Into(l)' = Into(l) /\ Len1(l)' = Len1(l)
      /\ \A l, i : Port(l, i)' = Port(l, i)
      /\ \A r : Peers(r)' = Peers(r)
      /\ \A a, b : Follows(a, b)' = Follows(a, b)
  BY <1>0, PlanSame, PortSame
<1>3. PICK l \in todo :
        /\ l \in Layouts /\ Only(l)
        /\ val'[l].mapped = val[l].mapped /\ val'[l].regions = val[l].regions + 1
        /\ LET n == val[l].regions + 1 IN
             \/ /\ n <= Len1(l) /\ port' = [port EXCEPT ![l] = Port(l, n)[1]]
                /\ waiting' = [waiting EXCEPT ![l] = Port(l, n)[1]]
             \/ /\ n > Len1(l) /\ port' = [port EXCEPT ![l] = None]
                /\ waiting' = [waiting EXCEPT ![l] = Over]
  BY <1>1, RegionEffect
<1>4. l \notin Blocked /\ waiting[l] = None
  BY <1>0, <1>1, <1>3 DEF LoopInv, Runnable
<1>5. \A k \in Layouts : Stands(k) /\ val[k].regions \in Nat /\ Len1(k) \in Nat
  BY <1>0, <1>1, InAttempt, Records DEF PassInv, PlanOK
<1>6. PICK m \in Nat : m = val[l].regions /\ m <= Len1(l) /\ Passed(l, m)
  BY <1>0, <1>3, <1>4, <1>5, Waits
<1>7. PICK n \in Nat : n = m + 1 /\ n = val'[l].regions
  BY <1>3, <1>6
<1>8. \/ /\ n <= Len1(l) /\ port'[l] = Port(l, n)[1] /\ waiting'[l] = Port(l, n)[1]
      \/ n = Len1(l) + 1 /\ port'[l] = None /\ waiting'[l] = Over
  <2>1. port \in [Layouts -> Routes \cup {None}] /\ waiting \in [Layouts -> Routes \cup {None, Over}]
    BY <1>0 DEF TypeInv
  <2> QED
    BY <1>3, <1>5, <1>6, <1>7, <2>1
<1>9. \A k \in Layouts \ {l} : /\ val'[k] = val[k] /\ port'[k] = port[k]
                               /\ waiting'[k] = waiting[k]
  BY <1>0, <1>3 DEF Only, TypeInv
<1>10. \A k \in Layouts : val[k].regions <= val'[k].regions /\ val'[k].mapped = val[k].mapped
  BY <1>3, <1>5, <1>6, <1>7, <1>9
<1>28. \A q \in Stage : receipts[q] \in Nat
  BY <1>0 DEF TypeInv, PlanOK
<1>29. ASSUME n <= Len1(l) PROVE Port(l, n)[2] = receipts[Port(l, n)[1]] + 1
  <2>1. n \in 1 .. Len1(l)
    BY <1>5, <1>7, <1>29
  <2>2. PICK q \in Stage, k \in Nat \ {0} :
          /\ Port(l, n) = <<q, k>> /\ Port(l, n)[1] = q /\ Port(l, n)[2] = k /\ l \in Peers(q)
          /\ k > 1 => \E i \in 1 .. (n - 1) : Port(l, i) = <<q, k - 1>>
    BY <1>0, <1>3, <2>1 DEF PlanOK
  <2>3. ASSUME k <= receipts[q] PROVE FALSE
    <3>1. k \in 1 .. receipts[q]
      BY <1>28, <2>2, <2>3
    <3>2. PICK i \in 1 .. Len1(l) : Port(l, i) = <<q, k>> /\ i <= val[l].regions
      BY <1>0, <1>1, <2>2, <3>1 DEF PassInv
    <3>3. i = n
      BY <1>0, <1>3, <2>1, <2>2, <3>2 DEF PlanOK
    <3> QED
      BY <1>6, <1>7, <3>2, <3>3
  <2>4. k - 1 <= receipts[q]
    <3>1. CASE k > 1
      <4>1. PICK i \in 1 .. (n - 1) : Port(l, i) = <<q, k - 1>>
        BY <2>2, <3>1
      <4>2. i \in 1 .. m
        BY <1>7, <4>1
      <4>3. Met(<<q, k - 1>>)
        BY <1>6, <4>1, <4>2 DEF Passed
      <4> QED
        BY <4>3 DEF Met
    <3>2. CASE ~(k > 1)
      BY <1>28, <3>2
    <3> QED
      BY <3>1, <3>2
  <2> QED
    BY <1>28, <2>2, <2>3, <2>4
<1>11. ASSUME NEW k \in Layouts PROVE Stands(k)'
  <2>1. CASE k = l
    <3>1. Passed(l, m)'
      BY <1>0, <1>1, <1>3, <1>6, <1>10, <1>28, PassedKept
    <3>2. CASE n <= Len1(l) /\ port'[l] = Port(l, n)[1] /\ waiting'[l] = Port(l, n)[1]
      <4>1. Passed(l, val[l].regions - 1)'
        <5>1. val'[l].regions - 1 = m
          BY <1>7
        <5> QED
          BY <3>1, <5>1
      <4>2. /\ val'[l].regions \in 1 .. Len1(l)' /\ waiting'[l] = Port(l, val'[l].regions)[1]
            /\ port'[l] = Port(l, val'[l].regions)[1]
            /\ Port(l, val'[l].regions)[2] = receipts'[Port(l, val'[l].regions)[1]] + 1
        BY <1>1, <1>2, <1>5, <1>7, <1>29, <3>2
      <4> QED
        BY <1>2, <2>1, <4>1, <4>2 DEF Stands
    <3>3. CASE n = Len1(l) + 1 /\ port'[l] = None /\ waiting'[l] = Over
      <4>1. m = Len1(l)
        BY <1>3, <1>5, <1>7, <3>3
      <4>2. Passed(l, Len1(l))'
        BY <1>2, <3>1, <4>1
      <4> QED
        BY <1>2, <1>7, <2>1, <3>3, <4>2 DEF Stands
    <3> QED
      BY <1>8, <3>2, <3>3
  <2>2. CASE k # l
    <3>1. val'[k] = val[k] /\ port'[k] = port[k] /\ waiting'[k] = waiting[k]
      BY <1>9, <2>2
    <3>2. \A i : Passed(k, i)' = Passed(k, i)
      BY <1>1, <1>2, <3>1 DEF Passed, Met
    <3>3. Passed(k, val[k].regions)' = Passed(k, val[k].regions)
      BY <1>1, <1>2, <3>1 DEF Passed, Met
    <3>4. Passed(k, val[k].regions - 1)' = Passed(k, val[k].regions - 1)
      BY <1>1, <1>2, <3>1 DEF Passed, Met
    <3>5. Passed(k, Len1(k))' = Passed(k, Len1(k))
      BY <1>1, <1>2, <3>1 DEF Passed, Met
    <3>6. Stands(k)
      BY <1>5
    <3> QED
      BY <1>1, <1>2, <3>1, <3>3, <3>4, <3>5, <3>6 DEF Stands
  <2> QED
    BY <2>1, <2>2
<1>12. ASSUME NEW q \in Stage, NEW h \in 1 .. receipts[q], NEW k \in Peers(q)
       PROVE  \E i \in 1 .. Len1(k) : Port(k, i) = <<q, h>> /\ i <= val'[k].regions
  <2>0. k \in Layouts
    BY <1>0, <1>12 DEF PlanOK, Peers
  <2>1. PICK i \in 1 .. Len1(k) : Port(k, i) = <<q, h>> /\ i <= val[k].regions
    BY <1>0, <1>1, <1>12 DEF PassInv
  <2>2. val[k].regions <= val'[k].regions /\ val[k].regions \in Nat /\ val'[k].regions \in Nat
    BY <1>5, <1>7, <1>9, <1>10, <2>0
  <2>3. i <= val'[k].regions
    BY <1>5, <2>0, <2>1, <2>2
  <2> QED
    BY <2>1, <2>3
<1>13. ASSUME NEW q \in After \ after
       PROVE  waiting'[Route[q].source] = Over /\ Route[q].source # l
  <2>1. waiting[Route[q].source] = Over /\ Route[q].source \in Layouts /\ None # Over
    BY <1>0, <1>1, <1>13 DEF PassInv, PlanOK
  <2> QED
    BY <1>4, <1>9, <2>1
<1>14. ASSUME NEW q \in after PROVE receipts[q] = 0 /\ val'[Route[q].target].regions = 0
  <2>1. Route[q].target # l /\ Route[q].target \in Layouts
    BY <1>0, <1>4, <1>14 DEF Blocked, TypeInv, PlanOK
  <2> QED
    BY <1>0, <1>1, <1>9, <1>14, <2>1 DEF PassInv
<1>15. PICK x : x = <<l, n>>
  OBVIOUS
<1>16. x \in Regions /\ x[1] = l /\ x[2] = n /\ x \notin Done
  <2>1. n \in 1 .. (Len1(l) + 1)
    BY <1>3, <1>5, <1>6, <1>7
  <2>2. ~(n <= val[l].regions)
    BY <1>6, <1>7
  <2> QED
    BY <1>0, <1>3, <1>15, <2>1, <2>2, RegionForm DEF Done
<1>17. Done' = Done \cup {x}
  <2>1. ASSUME NEW y \in Regions PROVE y \in Done' <=> y \in Done \cup {x}
    <3>1. y = <<y[1], y[2]>> /\ y[1] \in Layouts /\ y[2] \in Nat
      BY <1>0, <1>5, <2>1, RegionForm
    <3>2. (y \in Done' <=> y[2] <= val'[y[1]].regions) /\ (y \in Done <=> y[2] <= val[y[1]].regions)
      BY <1>2, <2>1 DEF Done
    <3>3. CASE y[1] # l
      <4>1. y # x
        BY <1>16, <3>3
      <4> QED
        BY <1>9, <3>1, <3>2, <3>3, <4>1
    <3>4. CASE y[1] = l
      <4>1. y[2] <= n <=> y[2] <= m \/ y[2] = n
        BY <1>7, <3>1
      <4>2. y[2] = n <=> y = x
        BY <1>15, <3>1, <3>4
      <4> QED
        BY <1>6, <1>7, <3>2, <3>4, <4>1, <4>2
    <3> QED
      BY <3>3, <3>4
  <2>2. Done' \subseteq Regions /\ Done \cup {x} \subseteq Regions
    BY <1>2, <1>16 DEF Done
  <2> QED
    BY <2>1, <2>2
<1>18. ASSUME NEW a \in Regions, Follows(a, x) PROVE a \in Done
  <2>0. a[1] \in Layouts /\ a[2] \in 1 .. (Len1(a[1]) + 1) /\ a[2] \in Nat /\ a[2] > 0
    BY <1>0, <1>5, <1>18, RegionForm
  <2>1. CASE a[1] = l /\ a[2] < n
    <3>1. a[2] <= m
      BY <1>7, <2>0, <2>1
    <3> QED
      BY <1>6, <1>18, <2>1, <3>1 DEF Done
  <2>2. CASE n > 1 /\ a[2] <= Len1(a[1]) /\ Port(a[1], a[2]) = Port(l, m)
    <3>1. m \in 1 .. m /\ m \in 1 .. Len1(l) /\ a[2] \in 1 .. Len1(a[1])
      BY <1>3, <1>5, <1>6, <1>7, <2>0, <2>2
    <3>2. PICK q \in Stage, h \in Nat \ {0} : Port(l, m) = <<q, h>>
      BY <1>0, <1>3, <3>1 DEF PlanOK
    <3>7. Met(<<q, h>>)
      BY <1>6, <3>1, <3>2 DEF Passed
    <3>3. h \in 1 .. receipts[q]
      BY <1>28, <3>2, <3>7 DEF Met
    <3>4. a[1] \in Peers(q)
      BY <1>0, <2>0, <2>2, <3>1, <3>2 DEF PlanOK
    <3>5. PICK i \in 1 .. Len1(a[1]) : Port(a[1], i) = <<q, h>> /\ i <= val[a[1]].regions
      BY <1>0, <1>1, <3>3, <3>4 DEF PassInv
    <3>6. i = a[2]
      BY <1>0, <2>0, <2>2, <3>1, <3>2, <3>5 DEF PlanOK
    <3> QED
      BY <1>18, <3>5, <3>6 DEF Done
  <2>3. CASE \E r \in After : a[1] = Route[r].source /\ l = Route[r].target
    <3>1. PICK r \in After : a[1] = Route[r].source /\ l = Route[r].target
      BY <2>3
    <3>2. r \notin after
      BY <1>4, <3>1 DEF Blocked
    <3>3. waiting[a[1]] = Over
      BY <1>0, <1>1, <3>1, <3>2 DEF PassInv
    <3>4. val[a[1]].regions = Len1(a[1]) + 1
      BY <1>0, <1>5, <2>0, <3>3, Waits
    <3>5. a[2] <= val[a[1]].regions
      BY <1>5, <2>0, <3>4
    <3> QED
      BY <1>18, <3>5 DEF Done
  <2>4. n - 1 = m
    BY <1>7
  <2> QED
    BY <1>16, <1>18, <2>1, <2>2, <2>3, <2>4 DEF Follows, Port, Len1
<1>19. /\ \A a \in Regions, b \in Done : Follows(a, b) => a \in Done
       /\ \A S \in SUBSET Done : S # {} => Least(S)
  BY <1>0, <1>1 DEF PassInv
<1>20. /\ \A a \in Regions, b \in Done \cup {x} : Follows(a, b) => a \in Done \cup {x}
       /\ \A S \in SUBSET (Done \cup {x}) : S # {} => Least(S)
  <2>1. Done \cup {x} \subseteq Regions
    BY <1>16 DEF Done
  <2> QED
    BY <1>16, <1>18, <1>19, <2>1, Grows
<1>21. \A S : Least(S)' = Least(S)
  BY <1>2 DEF Least
<1>22. (\A a \in Regions, b \in Done : Follows(a, b) => a \in Done)'
  BY <1>2, <1>17, <1>20
<1>23. (\A S \in SUBSET Done : S # {} => Least(S))'
  BY <1>17, <1>20, <1>21
<1>24. (\A q \in Stage : \A h \in 1 .. receipts[q] : \A k \in Peers(q) :
          \E i \in 1 .. Len1(k) : Port(k, i) = <<q, h>> /\ i <= val[k].regions)'
  BY <1>1, <1>2, <1>12
<1>25. \A q \in Accepted : receipts[q] = 1 /\ <<q, 1>> \in val'[Route[q].target].mapped
  BY <1>0, <1>1, <1>10 DEF PassInv, PlanOK
<1>26. \A q \in After \ after : receipts[q] = 1 /\ <<q, 1>> \in val'[Route[q].target].mapped
  BY <1>0, <1>1, <1>10 DEF PassInv, PlanOK
<1>27. Stage' # {}
  BY <1>0, <1>1, <1>2 DEF PassInv
<1> QED
  BY <1>1, <1>2, <1>11, <1>13, <1>14, <1>22, <1>23, <1>24, <1>25, <1>26, <1>27 DEF PassInv

\* The passes keep account of what has run.
LEMMA PassStep ==
  ASSUME IndInv, Next
  PROVE  PassInv'
<1> SUFFICES ASSUME pc' \in Passing PROVE PassInv'
  BY DEF PassInv
<1>1. ScriptDone \/ Pass \/ MapRoute \/ StartRegions \/ Region \/ StartPorts \/ EndPass
  BY Control
<1>2. CASE ScriptDone
  BY <1>2, PassStarts
<1>3. CASE MapRoute
  BY <1>3, PassMaps
<1>4. CASE Region
  BY <1>4, PassRuns
<1>5. CASE Pass \/ StartRegions \/ StartPorts \/ EndPass
  <2>1. pc \in Passing /\ UNCHANGED <<plan, steps, receipts, val, waiting, port, after>>
    BY <1>5 DEF Pass, StartRegions, StartPorts, EndPass, Passing, setup, bounds, native, locals
  <2> QED
    BY <2>1, PassSame DEF IndInv
<1> QED
  BY <1>1, <1>2, <1>3, <1>4, <1>5

\* What the loops have left.
LEMMA LoopStep ==
  ASSUME IndInv, Next
  PROVE  LoopInv'
<1> SUFFICES ASSUME pc' \in Passing PROVE LoopInv'
  BY DEF LoopInv, Passing
<1>0. TypeInv /\ PlanOK /\ LoopInv /\ plan' = plan
  BY PlanFacts, Setup DEF IndInv, TypeInv
<1>1. Stage' = Stage /\ Route' = Route
  BY <1>0, PlanSame
<1>2. ScriptDone \/ Pass \/ MapRoute \/ StartRegions \/ Region \/ StartPorts \/ EndPass
  BY Control
<1>3. ~Leaves
  BY DEF Leaves, Passing
<1>4. ASSUME waiting' = waiting, after' = after
      PROVE  /\ Completed' = Completed /\ Runnable' = Runnable /\ Matched' = Matched
             /\ Blocked' = Blocked
  BY <1>1, <1>4 DEF Completed, Runnable, Matched, Blocked
<1>5. CASE ScriptDone
  <2>1. pc' = "pass" /\ progress'
    BY <1>5 DEF ScriptDone, Goto, Passing, locals, IndInv, ScriptInv
  <2> QED
    BY <2>1 DEF LoopInv
<1>6. CASE Pass
  <2>1. waiting' = waiting /\ after' = after /\ pc' = "after" /\ todo' = Completed
    BY <1>6 DEF Pass, Goto, Escape, Raise, Passing, Completed
  <2> QED
    BY <1>4, <2>1 DEF LoopInv
<1>7. CASE StartRegions
  <2>1. /\ waiting' = waiting /\ after' = after /\ pc' = "regions" /\ todo' = Runnable
        /\ progress' = progress /\ pc = "after" /\ todo = {}
    BY <1>7 DEF StartRegions, Goto, locals, Runnable
  <2> QED
    BY <1>0, <1>4, <2>1 DEF LoopInv
<1>8. CASE StartPorts
  <2>1. /\ waiting' = waiting /\ after' = after /\ pc' = "ports" /\ todo' = Matched
        /\ progress' = progress /\ pc = "regions" /\ todo = {}
    BY <1>8 DEF StartPorts, Goto, locals, Matched
  <2> QED
    BY <1>0, <1>4, <2>1 DEF LoopInv
<1>9. CASE EndPass
  <2>1. /\ waiting' = waiting /\ after' = after /\ pc' = "pass"
        /\ progress' = progress /\ pc = "ports" /\ todo = {}
    BY <1>9 DEF EndPass, Goto, locals
  <2> QED
    BY <1>0, <1>4, <2>1 DEF LoopInv
<1>10. CASE MapRoute
  <2>1. PICK r \in todo :
          /\ r \in Routes /\ pc' = pc /\ todo' = todo \ {r} /\ progress' = TRUE
          /\ waiting' = [l \in Layouts |-> IF r \in Stage /\ waiting[l] = r THEN None
                                                                         ELSE waiting[l]]
          /\ after' = after \ {r}
    BY <1>3, <1>10, MapEffect
  <2>2. /\ after \subseteq Routes /\ Stage \subseteq Routes /\ r # Over
        /\ \A q \in Routes : Route[q].source \in Layouts /\ Route[q].target \in Layouts
    BY <1>0, <2>1 DEF PlanOK, TypeInv
  <2>3. CASE pc = "after"
    <3>1. todo \subseteq Completed
      BY <1>0, <2>3 DEF LoopInv
    <3>2. todo' \subseteq Completed'
      BY <1>1, <2>1, <2>2, <3>1 DEF Completed
    <3> QED
      BY <2>1, <2>3, <3>2 DEF LoopInv
  <2>4. CASE pc = "ports"
    <3>1. todo \subseteq Matched
      BY <1>0, <2>4 DEF LoopInv
    <3>2. todo' \subseteq Matched'
      BY <1>1, <2>1, <2>2, <3>1 DEF Matched
    <3> QED
      BY <2>1, <2>4, <3>2 DEF LoopInv
  <2> QED
    BY <1>10, <2>3, <2>4 DEF MapRoute
<1>11. CASE Region
  <2>1. PICK l \in todo :
          /\ pc' = "regions" /\ todo' = todo \ {l} /\ progress' = TRUE
          /\ \/ waiting' = [waiting EXCEPT ![l] = Port(l, val[l].regions + 1)[1]]
             \/ waiting' = [waiting EXCEPT ![l] = Over]
    BY <1>3, <1>11, RegionEffect
  <2>2. after' = after /\ todo \subseteq Runnable
    BY <1>0, <1>11 DEF Region, LoopInv
  <2>3. \A k \in todo' : waiting'[k] = waiting[k]
    BY <1>0, <2>1, <2>2 DEF TypeInv, Runnable
  <2>4. Blocked' = Blocked
    BY <1>1, <2>2 DEF Blocked
  <2>5. todo' \subseteq Runnable'
    BY <2>1, <2>2, <2>3, <2>4 DEF Runnable
  <2> QED
    BY <2>1, <2>5 DEF LoopInv
<1> QED
  BY <1>2, <1>5, <1>6, <1>7, <1>8, <1>9, <1>10, <1>11

-----------------------------------------------------------------------------
(* The end of an attempt.                                                  *)

\* Without Program maps, the schedule shows that the steps can be ordered.
LEMMA ScheduleOrders ==
  ASSUME PlanOK, SchedInv, Stage = {}, pc \notin {"construct", "refused"}
  PROVE  Executable
<1>1. \A l \in Layouts : Len1(l) = 0
  BY DEF PlanOK
<1>2. \A x \in Regions : x[1] \in Layouts /\ x[2] = 1
  <2> SUFFICES ASSUME NEW x \in Regions PROVE x[1] \in Layouts /\ x[2] = 1
    OBVIOUS
  <2>1. x[1] \in Layouts /\ x[2] \in 1 .. (Len1(x[1]) + 1)
    BY RegionForm
  <2> QED
    BY <1>1, <2>1
<1>3. \A a \in Regions, b \in Regions : Follows(a, b) => Feeds(a[1], b[1])
  BY <1>2 DEF Follows, Feeds
<1>4. ASSUME NEW S \in SUBSET Regions, S # {} PROVE \E b \in S : \A a \in S : ~Follows(a, b)
  <2>1. CASE After = {}
    <3>1. \A a \in S, b \in S : ~Follows(a, b)
      BY <1>3, <2>1 DEF Feeds
    <3> QED
      BY <1>4, <3>1
  <2>2. CASE After # {}
    <3>1. Events \subseteq Emitted
      BY <2>2 DEF SchedInv, PlanOK
    <3>2. Stepped = Layouts
      BY <3>1 DEF Stepped, Events
    <3>3. PICK L : L = {x[1] : x \in S}
      OBVIOUS
    <3>4. L \subseteq Stepped /\ L # {}
      BY <1>2, <1>4, <3>2, <3>3
    <3>5. PICK l \in L : \A k \in L : ~Feeds(k, l)
      BY <3>4 DEF SchedInv, Earliest
    <3>6. PICK b \in S : b[1] = l
      BY <3>3, <3>5
    <3>7. \A a \in S : ~Follows(a, b)
      BY <1>3, <3>3, <3>5, <3>6
    <3> QED
      BY <3>7
  <2> QED
    BY <2>1, <2>2
<1>5. \A l \in Layouts : 1 .. Len(Ports(l)) = {}
  BY <1>1 DEF Len1
<1> QED
  BY <1>4, <1>5 DEF Executable

\* Passes that finish have run every region and applied every mapping.
LEMMA PassesFinish ==
  ASSUME IndInv, pc = "pass", Finished
  PROVE  /\ Executable /\ Counted = Meetings(CadenceDue)
         /\ \A l \in Layouts : port[l] = None
<1>0. TypeInv /\ PlanOK /\ PassInv /\ pc \in Passing /\ pc \in Working
  BY PlanFacts DEF IndInv, TypeInv, Passing, Working
<1>1. \A l \in Layouts : /\ Stands(l) /\ val[l].regions \in Nat /\ Len1(l) \in Nat
                         /\ waiting[l] = Over
  BY <1>0, InAttempt, Records DEF PassInv, PlanOK, Finished
<1>2. \A l \in Layouts : /\ port[l] = None /\ val[l].regions = Len1(l) + 1
                         /\ Passed(l, Len1(l))
  BY <1>0, <1>1, Waits
<1>3. ASSUME NEW l \in Layouts, NEW i \in 1 .. Len1(l)
      PROVE  /\ Port(l, i) = <<Port(l, i)[1], Port(l, i)[2]>> /\ Port(l, i)[1] \in Stage
             /\ Port(l, i)[2] \in 1 .. receipts[Port(l, i)[1]]
  <2>1. /\ Port(l, i) = <<Port(l, i)[1], Port(l, i)[2]>> /\ Port(l, i)[1] \in Stage
        /\ Port(l, i)[2] \in Nat \ {0} /\ Stage \subseteq Routes
    BY <1>0, <1>3 DEF PlanOK
  <2>2. receipts[Port(l, i)[1]] \in Nat
    BY <1>0, <2>1 DEF TypeInv
  <2>3. Port(l, i)[2] <= receipts[Port(l, i)[1]]
    BY <1>2, <1>3 DEF Passed, Met
  <2> QED
    BY <2>1, <2>2, <2>3
<1>4. ASSUME NEW r \in Stage, NEW k \in 1 .. receipts[r], NEW l \in Peers(r)
      PROVE  l \in Layouts /\ \E i \in 1 .. Len1(l) : Port(l, i) = <<r, k>>
  BY <1>0, <1>4 DEF PassInv, PlanOK, Peers
<1>5. \A r \in Routes \ Stage : receipts[r] = 1
  BY <1>0 DEF PassInv, PlanOK, Finished
<1>6. Done = Regions
  <2>1. \A x \in Regions : x[2] <= val[x[1]].regions
    <3> SUFFICES ASSUME NEW x \in Regions PROVE x[2] <= val[x[1]].regions
      OBVIOUS
    <3>1. x[1] \in Layouts /\ x[2] \in 1 .. (Len1(x[1]) + 1)
      BY <1>0, RegionForm
    <3> QED
      BY <1>1, <1>2, <3>1
  <2> QED
    BY <2>1 DEF Done
<1>7. \A S \in (SUBSET Regions) \ {{}} : \E b \in S : \A a \in S : ~Follows(a, b)
  BY <1>0, <1>6 DEF PassInv, Least
<1>8. ASSUME NEW l \in Layouts, NEW i \in 1 .. Len1(l),
             NEW k \in {Route[Port(l, i)[1]].source, Route[Port(l, i)[1]].target}
      PROVE  \E j \in 1 .. Len1(k) : Port(k, j) = Port(l, i)
  <2>3. PICK r \in Stage : \E h \in 1 .. receipts[r] : Port(l, i) = <<r, h>> /\ Port(l, i)[1] = r
    BY <1>3, <1>8
  <2>1. PICK h \in 1 .. receipts[r] : Port(l, i) = <<r, h>> /\ Port(l, i)[1] = r
    BY <2>3
  <2>2. k \in Peers(r)
    BY <1>8, <2>1 DEF Peers
  <2> QED
    BY <1>4, <2>1, <2>2
<1>9. Executable
  BY <1>7, <1>8 DEF Executable, Len1, Port
<1>10. ASSUME NEW r \in Routes, NEW k \in 1 .. receipts[r]
       PROVE  <<r, k>> \in Meetings(CadenceDue)
  <2>1. CASE r \in Stage
    <3>1. PICK l \in Layouts : \E i \in 1 .. Len1(l) : Port(l, i) = <<r, k>>
      BY <1>4, <1>10, <2>1 DEF Peers
    <3> QED
      BY <1>0, <3>1 DEF PlanOK
  <2>2. CASE r \notin Stage
    <3>1. k = 1
      BY <1>5, <1>10, <2>2
    <3> QED
      BY <1>0, <2>2, <3>1 DEF PlanOK
  <2> QED
    BY <2>1, <2>2
<1>11. ASSUME NEW x \in Meetings(CadenceDue)
       PROVE  \E r \in Routes : \E k \in 1 .. receipts[r] : x = <<r, k>>
  <2>1. CASE \E r \in Routes \ Stage : x = <<r, 1>>
    BY <1>5, <2>1
  <2>2. CASE \E l \in Layouts : \E i \in 1 .. Len1(l) : x = Port(l, i)
    <3>3. PICK l \in Layouts : \E i \in 1 .. Len1(l) : x = Port(l, i)
      BY <2>2
    <3>1. PICK i \in 1 .. Len1(l) : x = Port(l, i)
      BY <3>3
    <3>2. Stage \subseteq Routes
      BY <1>0 DEF PlanOK
    <3> QED
      BY <1>3, <3>1, <3>2
  <2> QED
    BY <1>0, <1>11, <2>1, <2>2 DEF PlanOK
<1>12. \A x : x \in Receipts <=> \E r \in Routes : \E k \in 1 .. receipts[r] : x = <<r, k>>
  BY DEF Receipts
<1>13. Receipts = Meetings(CadenceDue)
  BY <1>10, <1>11, <1>12
<1> QED
  BY <1>0, <1>2, <1>9, <1>13 DEF Counted, PassInv

\* A completed attempt stays complete until it is published.
LEMMA EndStep ==
  ASSUME IndInv, Next
  PROVE  EndInv'
<1>0. TypeInv /\ PlanOK /\ SchedInv /\ plan' = plan
  BY PlanFacts, Setup DEF IndInv, TypeInv
<1>1. Stage' = Stage /\ Routes' = Routes
  BY <1>0, PlanSame
<1>2. CASE pc' = "advanced"
  <2>1. ScriptDone \/ Pass
    BY <1>2, Control
  <2>4. steps' = steps /\ receipts' = receipts /\ port' = port
    BY <2>1 DEF ScriptDone, Pass, bounds, locals, native
  <2>5. /\ Executable' = Executable /\ Counted' = Counted
        /\ Meetings(CadenceDue)' = Meetings(CadenceDue)
    BY <1>0, <1>1, <2>4, PortSame DEF Counted, Receipts
  <2>2. CASE ScriptDone
    <3>1. pc = "script" /\ Stage = {}
      BY <1>2, <2>2 DEF ScriptDone, Goto
    <3>2. \A l \in Layouts : port[l] = None
      BY <3>1 DEF IndInv, ScriptInv
    <3>3. Executable
      BY <1>0, <3>1, ScheduleOrders
    <3>4. \A l \in Layouts : 1 .. Len1(l) = {}
      BY <1>0, <3>1 DEF PlanOK
    <3>5. \A x : x \in Meetings(CadenceDue) <=> \E r \in Routes : x = <<r, 1>>
      BY <1>0, <3>1, <3>4 DEF PlanOK
    <3>6. \A x : x \in Counted <=> \E r \in Routes : x = <<r, 1>>
      BY <3>1 DEF Counted
    <3>7. Counted = Meetings(CadenceDue)
      BY <3>5, <3>6
    <3> QED
      BY <2>4, <2>5, <3>2, <3>3, <3>7 DEF EndInv
  <2>3. CASE Pass
    <3>1. pc = "pass" /\ Finished
      BY <1>2, <2>3 DEF Pass, Goto, Escape, Raise
    <3> QED
      BY <2>4, <2>5, <3>1, PassesFinish DEF EndInv
  <2> QED
    BY <2>1, <2>2, <2>3
<1>3. CASE pc' \in {"effect", "publish"}
  <2>1. Advanced \/ Commit
    BY <1>3, Control
  <2>2. pc \in {"advanced", "effect"} /\ port' = port
    BY <2>1 DEF Advanced, Commit, native
  <2> QED
    BY <1>3, <2>2 DEF EndInv, IndInv
<1>4. CASE pc' \notin {"advanced", "effect", "publish"}
  BY <1>4 DEF EndInv
<1> QED
  BY <1>2, <1>3, <1>4

-----------------------------------------------------------------------------
(* The inductive invariant.                                                *)

\* It holds when the executor is built.
LEMMA IndInit == Init => IndInv
<1> SUFFICES ASSUME Init PROVE IndInv
  OBVIOUS
<1>0. /\ plan \in Plans /\ schedule = <<>> /\ pc = "construct" /\ raised = "none" /\ steps = 0
      /\ generation = 0 /\ attempt = 0 /\ active = None /\ saved = None /\ captured = {}
      /\ after = {} /\ progress = FALSE
      /\ val = [l \in Layouts |-> Base(0)] /\ txn = [l \in Layouts |-> None]
      /\ port = [l \in Layouts |-> None] /\ waiting = [l \in Layouts |-> None]
      /\ session = [r \in Routes |-> Idle] /\ counts = [m \in Mappings |-> 0]
      /\ receipts = [r \in Routes |-> 0] /\ fires = 0
  BY DEF Init
<1>1. PlanOK
  BY <1>0, PlanFacts
<1>2. /\ Idle \in Session /\ Idle.active = None /\ Idle.captured = 0 /\ Idle.applied = FALSE
  BY DEF Idle, Session
<1>3. Base(0) \in State /\ Base(0).regions = 0 /\ Base(0) # Torn
  BY Records
<1>4. TypeInv
  <2>1. pc \in Places
    BY <1>0 DEF Places, Outside
  <2>2. val \in [Layouts -> State \cup {Torn}] /\ session \in [Routes -> Session]
    BY <1>0, <1>2, <1>3
  <2> QED
    BY <1>0, <2>1, <2>2 DEF TypeInv
<1>5. SchedInv
  <2>1. Len(schedule) = 0 /\ DOMAIN schedule = {} /\ schedule \in Seq(SUBSET Events)
    BY <1>0
  <2>2. Emitted = {}
    BY <2>1 DEF Emitted
  <2>3. Stepped = {}
    BY <2>2 DEF Stepped
  <2> QED
    BY <1>0, <2>1, <2>3 DEF SchedInv
<1>6. LayoutInv
  <2>1. \A l \in Layouts : Rests(l)
    BY <1>0 DEF Rests, Clean
  <2> QED
    BY <1>0, <2>1 DEF LayoutInv, Working, Passing
<1>7. SessionInv
  BY <1>0, <1>2 DEF SessionInv, Unused, Outside
<1>8. CountInv
  <2>1. \A m : Evaluations(m, TRUE) \in Nat /\ Evaluations(m, FALSE) \in Nat
    BY <1>0, Finite
  <2>2. ASSUME NEW m \in Mappings PROVE Total(m) = 0 /\ counts[m] = 0
    <3>1. PICK a \in Nat, b \in Nat : a = Evaluations(m, TRUE) /\ b = Evaluations(m, FALSE)
      BY <2>1
    <3>2. 0 * a + (0 - 0) * b = 0
      OBVIOUS
    <3>3. Total(m) = fires * a + (steps - fires) * b
      BY <3>1 DEF Total
    <3> QED
      BY <1>0, <3>2, <3>3
  <2> QED
    BY <1>0, <2>2 DEF CountInv, Outside
<1>9. CopyInv
  BY <1>0, <1>2 DEF CopyInv
<1>10. NeedInv
  <2>1. \A l \in Layouts : Ran(l) = 0
    BY <1>0, <1>3 DEF Ran
  <2>2. \A l \in Layouts : \A r : ~RanPast(r, l)
    <3>1. 1 .. (0 - 1) = {}
      OBVIOUS
    <3> QED
      BY <2>1, <3>1 DEF RanPast
  <2> QED
    BY <2>2 DEF NeedInv
<1>11. ScriptInv /\ PassInv /\ LoopInv /\ EndInv
  BY <1>0 DEF ScriptInv, PassInv, LoopInv, EndInv, Passing
<1> QED
  BY <1>4, <1>5, <1>6, <1>7, <1>8, <1>9, <1>10, <1>11 DEF IndInv

\* A stuttering step changes nothing in it.
LEMMA IndStutter == IndInv /\ UNCHANGED vars => IndInv'
<1> SUFFICES ASSUME IndInv, UNCHANGED vars PROVE IndInv'
  OBVIOUS
<1>1. /\ plan' = plan /\ schedule' = schedule /\ pc' = pc /\ todo' = todo /\ raised' = raised
      /\ steps' = steps /\ val' = val /\ txn' = txn /\ port' = port /\ session' = session
      /\ generation' = generation /\ active' = active /\ attempt' = attempt /\ counts' = counts
      /\ saved' = saved /\ captured' = captured /\ waiting' = waiting /\ after' = after
      /\ progress' = progress /\ receipts' = receipts /\ fires' = fires /\ swapped' = swapped
  BY DEF vars, setup, bounds, native, coordinator, locals
<1>12. /\ CadenceDue' = CadenceDue /\ Mappings' = Mappings
       /\ \A l : Ports(l)' = Ports(l)
       /\ \A l, i : Port(l, i)' = Port(l, i)
       /\ \A v, l : Complete(v, l)' = Complete(v, l)
       /\ Meetings(CadenceDue)' = Meetings(CadenceDue)
       /\ Executable' = Executable
  BY <1>1, PortSame, PlanSame
<1>13. /\ \A m : Evaluations(m, CadenceDue)' = Evaluations(m, CadenceDue)
       /\ \A m : Total(m)' = Total(m)
       /\ Counted' = Counted
  BY <1>1, <1>12, PlanSame DEF Total, Evaluations, Meetings, Counted, Receipts
<1>2. TypeInv'
  BY <1>1 DEF IndInv, TypeInv, Routes, After, Route, Mappings
<1>3. SchedInv'
  <2>1. Events' = Events /\ (\A e : Needs(e)' = Needs(e)) /\ \A x, y : Feeds(x, y)' = Feeds(x, y)
    BY <1>1, PlanSame
  <2>2. Emitted' = Emitted /\ \A n : Upto(n)' = Upto(n)
    BY <1>1 DEF Emitted, Upto
  <2>3. Stepped' = Stepped /\ Ready' = Ready
    BY <2>1, <2>2 DEF Stepped, Ready
  <2>4. \A S : Earliest(S)' <=> Earliest(S)
    BY <2>1 DEF Earliest
  <2> QED
    BY <1>1, <2>1, <2>2, <2>3, <2>4 DEF IndInv, SchedInv
<1>4. LayoutInv'
  BY <1>1 DEF IndInv, LayoutInv, Rests, Clean, Broken, Open, Fresh, Alive, UpClosed, Base
<1>5. SessionInv' /\ CountInv'
  BY <1>1, <1>12, <1>13 DEF IndInv, SessionInv, CountInv, Unused, Routes
<1>6. CopyInv'
  BY <1>1, <1>12 DEF IndInv, CopyInv, CopyOK, Base, Routes, Route, Accepted, After, Stage
<1>7. NeedInv'
  BY <1>1, <1>12 DEF IndInv, NeedInv, RanPast, Ran, Into, Routes, Route, Stage
<1>8. ScriptInv'
  <2>1. /\ Stage' = Stage /\ After' = After /\ Accepted' = Accepted /\ Routes' = Routes
        /\ Route' = Route /\ Base(steps)' = Base(steps)
    BY <1>1, PlanSame DEF Base
  <2>2. \A n : Round(n)' = Round(n)
    BY <1>1, <2>1 DEF Round, Each
  <2>3. Script' = Script
    BY <1>1, <2>1, <2>2 DEF Script, Each
  <2> QED
    BY <1>1, <2>1, <2>3 DEF IndInv, ScriptInv
<1>9. PassInv'
  BY <1>1, PassSame DEF IndInv, PassInv
<1>10. LoopInv'
  BY <1>1 DEF IndInv, LoopInv, Completed, Runnable, Matched, Blocked, Stage, Route, Routes
<1>11. EndInv'
  BY <1>1, <1>12, <1>13 DEF IndInv, EndInv
<1> QED
  BY <1>2, <1>3, <1>4, <1>5, <1>6, <1>7, <1>8, <1>9, <1>10, <1>11 DEF IndInv

\* Every statement of the executor and of the envelope preserves the invariant.
THEOREM IndInvariant == Spec => []IndInv
<1>1. IndInv /\ [Next]_vars => IndInv'
  <2>1. ASSUME IndInv, Next PROVE IndInv'
    BY <2>1, TypeStep, SchedStep, LayoutStep, SessionStep, CountStep, CopyStep, NeedStep,
       ScriptStep, PassStep, LoopStep, EndStep DEF IndInv
  <2> QED
    BY <2>1, IndStutter
<1> QED
  BY IndInit, <1>1, PTL DEF Spec

\* A step over several layouts is atomic, whatever is rejected, raised or undone: between
\* two transactions of RuntimeInstance every layout is at the last accepted step.
THEOREM Atomicity == Spec => []StepIsAtomic
<1>1. IndInv => StepIsAtomic
  <2> SUFFICES ASSUME IndInv, pc = "idle" PROVE StepIsAtomic
    BY DEF StepIsAtomic
  <2>1. \A l \in Layouts : Rests(l)
    BY DEF IndInv, LayoutInv, Outside
  <2>2. active = None /\ saved = None
    BY DEF IndInv, SessionInv, CountInv, Outside
  <2>3. \A r \in Routes : session[r].active = None
    BY <2>2 DEF IndInv, SessionInv
  <2>4. \A m \in Mappings : counts[m] = Total(m)
    BY DEF IndInv, CountInv
  <2> QED
    BY <2>1, <2>2, <2>3, <2>4 DEF StepIsAtomic, Rests, Clean, Broken, Total
<1> QED
  BY IndInvariant, <1>1, PTL

\* Every mapping transfers its source at the declared point, and no Program runs past a
\* value it needs: the scheduler and execute_program_maps respect the synchronisation.
THEOREM Ordering == Spec => []MappingsAreOrdered
<1>1. IndInv => MappingsAreOrdered
  <2> SUFFICES ASSUME IndInv PROVE MappingsAreOrdered
    OBVIOUS
  <2>1. PlanOK /\ CopyInv /\ NeedInv
    BY PlanFacts DEF IndInv, TypeInv
  <2>2. ASSUME NEW r \in {q \in Routes : session[q].applied}
        PROVE  LET v == session[r].copy IN
                 CASE r \in Accepted -> v = Base(steps)
                   [] r \in After -> Complete(v, Route[r].source)
                   [] r \in Stage -> Ports(Route[r].source)[v.regions] = <<r, receipts[r]>>
    <3>1. CopyOK(r)
      BY <2>1, <2>2 DEF CopyInv
    <3>2. CASE r \in Accepted
      BY <2>1, <3>1, <3>2 DEF CopyOK, PlanOK
    <3>3. CASE r \in After
      BY <2>1, <3>1, <3>3 DEF CopyOK, PlanOK
    <3>4. CASE r \in Stage
      BY <2>1, <3>1, <3>4 DEF CopyOK, PlanOK, Port
    <3> QED
      BY <2>1, <2>2, <3>2, <3>3, <3>4 DEF PlanOK
  <2> QED
    BY <2>1, <2>2 DEF MappingsAreOrdered, NeedInv
<1> QED
  BY IndInvariant, <1>1, PTL

-----------------------------------------------------------------------------
(* The passes decide.                                                      *)

\* Passes without progress leave regions that each follow another of them.
LEMMA StuckCycle ==
  ASSUME IndInv, pc = "pass", Stuck
  PROVE  ~Executable
<1> SUFFICES ASSUME Executable PROVE FALSE
  OBVIOUS
<1>0. TypeInv /\ PlanOK /\ PassInv /\ pc \in Passing /\ pc \in Working
  BY PlanFacts DEF IndInv, TypeInv, Passing, Working
<1>1. Completed = {} /\ Runnable = {} /\ Matched = {} /\ ~Finished
  BY DEF IndInv, LoopInv, Stuck
<1>2. \A l \in Layouts : Stands(l) /\ val[l].regions \in Nat /\ Len1(l) \in Nat
  BY <1>0, InAttempt, Records DEF PassInv, PlanOK
<1>3. PICK S : S = Regions \ Done
  OBVIOUS
<1>4. \A x \in Regions : x \in S <=> val[x[1]].regions < x[2]
  <2> SUFFICES ASSUME NEW x \in Regions PROVE x \in S <=> val[x[1]].regions < x[2]
    OBVIOUS
  <2>1. x[1] \in Layouts /\ x[2] \in Nat
    BY <1>0, <1>2, RegionForm
  <2>2. val[x[1]].regions \in Nat
    BY <1>2, <2>1
  <2> QED
    BY <1>3, <2>1, <2>2 DEF Done
<1>5. \A l \in Layouts : waiting[l] # Over => <<l, Len1(l) + 1>> \in S
  <2> SUFFICES ASSUME NEW l \in Layouts, waiting[l] # Over PROVE <<l, Len1(l) + 1>> \in S
    OBVIOUS
  <2>1. val[l].regions <= Len1(l)
    BY <1>0, <1>2, Waits
  <2>2. <<l, Len1(l) + 1>> \in Regions
    BY <1>0, <1>2, RegionForm
  <2> QED
    BY <1>2, <1>4, <2>1, <2>2
<1>6. S # {}
  <2>1. ASSUME S = {} PROVE FALSE
    <3>1. \A l \in Layouts : waiting[l] = Over
      BY <1>5, <2>1
    <3>2. PICK r \in after : TRUE
      BY <1>1, <3>1 DEF Finished
    <3>3. r \in Completed
      BY <1>0, <3>1, <3>2 DEF Completed, TypeInv, PlanOK
    <3> QED
      BY <1>1, <3>3
  <2> QED
    BY <2>1
<1>7. PICK b \in S : \A a \in S : ~Follows(a, b)
  BY <1>3, <1>6 DEF Executable
<1>8. PICK l \in Layouts : l = b[1] /\ b \in Regions /\ b[2] \in 1 .. (Len1(l) + 1)
  BY <1>0, <1>3, <1>7, RegionForm
<1>9. PICK m \in Nat : m = val[l].regions
  BY <1>2, <1>8
<1>10. b[2] = m + 1
  <2>1. m < b[2] /\ b[2] \in Nat /\ b[2] <= Len1(l) + 1
    BY <1>2, <1>4, <1>7, <1>8, <1>9
  <2>2. ASSUME m + 1 < b[2] PROVE FALSE
    <3>1. m + 1 \in 1 .. (Len1(l) + 1)
      BY <1>2, <1>9, <2>1, <2>2
    <3>2. PICK x : x = <<l, m + 1>>
      OBVIOUS
    <3>3. x \in Regions /\ x[1] = l /\ x[2] = m + 1
      BY <1>0, <1>8, <3>1, <3>2, RegionForm
    <3>4. x \in S
      BY <1>4, <1>9, <3>3
    <3>5. Follows(x, b)
      BY <1>8, <2>2, <3>3 DEF Follows
    <3> QED
      BY <1>7, <3>4, <3>5
  <2> QED
    BY <1>9, <2>1, <2>2
<1>11. waiting[l] # Over
  <2>1. ASSUME waiting[l] = Over PROVE FALSE
    <3>1. m = Len1(l) + 1
      BY <1>0, <1>2, <1>8, <1>9, <2>1, Waits
    <3> QED
      BY <1>2, <1>8, <1>10, <3>1
  <2> QED
    BY <2>1
<1>12. CASE waiting[l] = None
  <2>1. l \in Blocked
    BY <1>1, <1>8, <1>12 DEF Runnable
  <2>2. PICK r \in after : Route[r].target = l
    BY <2>1 DEF Blocked
  <2>3. r \in After /\ Route[r].source \in Layouts /\ waiting[Route[r].source] # Over
    BY <1>0, <1>1, <2>2 DEF Completed, TypeInv, PlanOK
  <2>4. PICK a : a = <<Route[r].source, Len1(Route[r].source) + 1>>
    OBVIOUS
  <2>5. a \in S /\ a[1] = Route[r].source
    BY <1>5, <2>3, <2>4
  <2>6. Follows(a, b)
    BY <1>8, <2>2, <2>3, <2>5 DEF Follows
  <2> QED
    BY <1>7, <2>5, <2>6
<1>13. CASE waiting[l] # None
  <2>0. waiting[l] \notin {None, Over}
    BY <1>11, <1>13
  <2>1. /\ m \in 1 .. Len1(l) /\ waiting[l] = Port(l, m)[1]
        /\ Port(l, m) = <<waiting[l], receipts[waiting[l]] + 1>>
    BY <1>0, <1>2, <1>8, <1>9, <2>0, Waits
  <2>2. PICK q \in Stage : q = waiting[l] /\ l \in Peers(q) /\ q \in Routes
    BY <1>0, <1>8, <2>1 DEF PlanOK
  <2>12. Port(l, m) = <<q, receipts[q] + 1>> /\ receipts[q] \in Nat
    BY <1>0, <2>1, <2>2 DEF TypeInv
  <2>3. PICK k \in Peers(q) : waiting[k] # q
    BY <1>1, <2>2 DEF Matched, Peers
  <2>4. k \in Layouts /\ k \in {Route[q].source, Route[q].target}
    BY <1>0, <2>2, <2>3 DEF PlanOK, Peers
  <2>5. PICK j \in 1 .. Len1(k) : Port(k, j) = <<q, receipts[q] + 1>>
    <3>1. \A h \in {Route[Port(l, m)[1]].source, Route[Port(l, m)[1]].target} :
            \E i \in 1 .. Len1(h) : Port(h, i) = Port(l, m)
      BY <1>8, <2>1 DEF Executable, Port, Len1
    <3> QED
      BY <2>1, <2>2, <2>4, <2>12, <3>1
  <2>6. PICK a : a = <<k, j>>
    OBVIOUS
  <2>7. a \in Regions /\ a[1] = k /\ a[2] = j /\ j \in Nat
    BY <1>0, <1>2, <2>4, <2>5, <2>6, RegionForm
  <2>8. Follows(a, b)
    <3>1. b[2] > 1 /\ b[2] - 1 = m /\ a[2] <= Len1(a[1])
      BY <1>2, <1>9, <1>10, <2>1, <2>4, <2>5, <2>7
    <3>2. Port(a[1], a[2]) = Port(b[1], b[2] - 1)
      BY <1>8, <2>5, <2>7, <2>12, <3>1
    <3> QED
      BY <3>1, <3>2 DEF Follows, Port, Len1
  <2>9. j <= val[k].regions
    BY <1>2, <1>4, <1>7, <2>4, <2>7, <2>8
  <2>10. Met(<<q, receipts[q] + 1>>)
    <3>1. CASE waiting[k] = None
      <4>1. Passed(k, val[k].regions) /\ j \in 1 .. val[k].regions
        BY <1>0, <1>2, <2>4, <2>5, <2>9, <3>1, Waits
      <4> QED
        BY <2>5, <4>1 DEF Passed
    <3>2. CASE waiting[k] = Over
      <4>1. Passed(k, Len1(k))
        BY <1>0, <1>2, <2>4, <3>2, Waits
      <4> QED
        BY <2>5, <4>1 DEF Passed
    <3>3. CASE waiting[k] \notin {None, Over}
      <4>1. /\ val[k].regions \in 1 .. Len1(k) /\ waiting[k] = Port(k, val[k].regions)[1]
            /\ Passed(k, val[k].regions - 1)
        BY <1>0, <1>2, <2>4, <3>3, Waits
      <4>2. j # val[k].regions
        BY <2>3, <2>5, <4>1
      <4>3. j \in 1 .. (val[k].regions - 1)
        BY <1>2, <2>4, <2>5, <2>9, <4>2
      <4> QED
        BY <2>5, <4>1, <4>3 DEF Passed
    <3> QED
      BY <3>1, <3>2, <3>3
  <2>11. receipts[q] + 1 <= receipts[q]
    BY <2>10 DEF Met
  <2> QED
    BY <2>11, <2>12
<1> QED
  BY <1>12, <1>13

\* A refused plan has layouts that each follow another of them.
LEMMA RefusedCycle ==
  ASSUME IndInv, pc = "refused"
  PROVE  ~Executable
<1> SUFFICES ASSUME Executable PROVE FALSE
  OBVIOUS
<1>0. PlanOK /\ SchedInv
  BY PlanFacts DEF IndInv, TypeInv
<1>1. Events # Emitted /\ Ready = {}
  BY <1>0 DEF SchedInv
<1>2. Emitted \subseteq Events
  <2>1. schedule \in Seq(SUBSET Events) /\ DOMAIN schedule = 1 .. Len(schedule)
    BY <1>0 DEF SchedInv
  <2>2. \A n \in 1 .. Len(schedule) : schedule[n] \in SUBSET Events
    BY <2>1
  <2> QED
    BY <2>1, <2>2 DEF Emitted
<1>3. PICK U : U = Layouts \ Stepped
  OBVIOUS
<1>4. ASSUME NEW r \in Routes \ Stage, <<"apply", r>> \notin Emitted
      PROVE  r \in After /\ Route[r].source \in U
  <2>1. <<"apply", r>> \in Events
    BY <1>4 DEF Events
  <2>2. ~(Needs(<<"apply", r>>) \subseteq Emitted)
    BY <1>1, <1>4, <2>1 DEF Ready
  <2>3. r \in After /\ <<"step", Route[r].source>> \notin Emitted
    BY <2>2 DEF Needs
  <2> QED
    BY <1>0, <1>3, <1>4, <2>3 DEF Stepped, PlanOK
<1>5. ASSUME NEW l \in U PROVE \E k \in U : Feeds(k, l)
  <2>1. l \in Layouts /\ <<"step", l>> \notin Emitted
    BY <1>3, <1>5 DEF Stepped
  <2>2. <<"step", l>> \in Events
    BY <2>1 DEF Events
  <2>3. ~(Needs(<<"step", l>>) \subseteq Emitted)
    BY <1>1, <2>1, <2>2 DEF Ready
  <2>4. Needs(<<"step", l>>) = {<<"apply", r>> : r \in Into(l) \ Stage}
    BY DEF Needs
  <2>5. PICK r \in Into(l) \ Stage : <<"apply", r>> \notin Emitted
    BY <2>3, <2>4
  <2>6. r \in After /\ Route[r].source \in U /\ Route[r].target = l
    BY <1>4, <2>5 DEF Into
  <2> QED
    BY <2>6 DEF Feeds
<1>6. U # {}
  <2>1. PICK e \in Events : e \notin Emitted
    BY <1>1, <1>2
  <2>2. CASE \E r \in Routes \ Stage : e = <<"apply", r>>
    BY <1>4, <2>1, <2>2
  <2>3. CASE \E l \in Layouts : e = <<"step", l>>
    BY <1>3, <2>1, <2>3 DEF Stepped
  <2> QED
    BY <2>1, <2>2, <2>3 DEF Events
<1>7. PICK S : S = {x \in Regions : x[1] \in U}
  OBVIOUS
<1>8. ASSUME NEW l \in U PROVE \E x \in S : x[1] = l
  <2>1. l \in Layouts /\ 1 \in 1 .. (Len1(l) + 1)
    BY <1>0, <1>3, <1>8 DEF PlanOK
  <2>2. PICK x : x = <<l, 1>>
    OBVIOUS
  <2>3. x \in Regions /\ x[1] = l
    BY <1>0, <2>1, <2>2, RegionForm
  <2> QED
    BY <1>7, <1>8, <2>3
<1>9. S \in (SUBSET Regions) \ {{}}
  BY <1>6, <1>7, <1>8
<1>10. PICK b \in S : \A a \in S : ~Follows(a, b)
  BY <1>9 DEF Executable
<1>11. PICK k \in U : Feeds(k, b[1])
  BY <1>5, <1>7, <1>10
<1>12. PICK a \in S : a[1] = k
  BY <1>8, <1>11
<1>13. Follows(a, b)
  BY <1>11, <1>12 DEF Feeds, Follows
<1> QED
  BY <1>10, <1>12, <1>13

\* The scheduler and execute_program_maps complete exactly the plans whose regions can be
\* ordered: one that advances is executable, one that is given up or refused is not.
THEOREM Decision == Spec => []PassesDecide
<1>1. IndInv => PassesDecide
  BY StuckCycle, RefusedCycle DEF PassesDecide, IndInv, EndInv
<1> QED
  BY IndInvariant, <1>1, PTL
=============================================================================
