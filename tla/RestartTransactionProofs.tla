---------------------- MODULE RestartTransactionProofs ----------------------
(***************************************************************************)
(* Proofs about RestartTransaction for any number of ranks, layouts,       *)
(* restores and failures.                                                  *)
(***************************************************************************)
EXTENDS RestartTransaction, FiniteSetTheorems, TLAPS

\* Phases in which no transaction is open.
Closed == {"idle", "policy", "protocol", "preflight", "prepareOuter", "returned", "raised"}

\* The phase that a rank is in, with what it does on its own counted in: it undoes
\* its begin, or has finished the release.
Stretch(r) ==
  CASE phase[r] \in {"finalize", "returned"} -> "returned"
    [] phase[r] = "undo" -> "begin"
    [] OTHER -> phase[r]

\* What a rank holds where it has no transaction open: version v until the
\* release, then the restored one.
Version(r, v) == IF phase[r] \in {"finalize", "returned"} THEN goal ELSE v

\* Layouts whose snapshot is taken and not yet given back.
Begun(r) == IF phase[r] = "begin" /\ ~err[r] THEN 1 .. at[r] - 1 ELSE python[r]

\* A layout holds the snapshot of v, or has no transaction, or its rollback
\* raised and it refuses every later one.
Layout(r, l, v) ==
  IF l \in Begun(r) THEN l \notin broken[r] /\ snap[r][l] = v
  ELSE IF l \in broken[r] THEN snap[r][l] # None
  ELSE native[r][l] = Version(r, v) /\ snap[r][l] = None /\ l \notin sealed[r]

\* The Python snapshots at each place of the loops.
Snapshots(r) ==
  /\ phase[r] \in Closed => python[r] = {}
  /\ phase[r] = "begin" =>
       /\ err[r] => stage[r] = "world" /\ python[r] = {}
       /\ ~err[r] /\ stage[r] = "run" => at[r] \in Layouts /\ python[r] = 1 .. at[r] - 1
       /\ ~err[r] /\ stage[r] = "lane" => at[r] \in Layouts /\ python[r] = 1 .. at[r]
       /\ ~err[r] /\ stage[r] = "world" => at[r] = NumLayouts + 1 /\ python[r] = Layouts
  /\ phase[r] \in {"undo", "rollback"} =>
       /\ stage[r] = "world" => phase[r] = "rollback" /\ python[r] = {}
       /\ stage[r] # "world" => python[r] \subseteq 1 .. at[r] /\ at[r] \in 0 .. NumLayouts
       /\ stage[r] = "lane" => at[r] \in python[r]
  /\ phase[r] \in {"apply", "publish", "commit", "rollbackOuter"} => python[r] = Layouts
  /\ phase[r] = "finalize" =>
       /\ at[r] \in Layouts /\ python[r] = at[r] .. NumLayouts
       /\ python[r] \subseteq sealed[r] /\ broken[r] \subseteq {0}
  /\ phase[r] = "returned" => broken[r] = {}

\* The executor's own state and its snapshot.
Coordinator(r, v) ==
  /\ saved[r] = IF \/ phase[r] \in Closed \/ Undone(r)
                   \/ phase[r] = "begin" /\ python[r] = {}
                   \/ phase[r] = "rollback" /\ stage[r] = "world"
                  THEN None ELSE v
  /\ phase[r] \in {"publish", "commit"} => coord[r] = goal
  /\ saved[r] = None \/ phase[r] \in {"begin", "finalize"} => coord[r] = Version(r, v)

\* The Python envelope and its snapshot.
Envelope(r, v) ==
  /\ phase[r] \in {"begin", "undo", "apply", "publish", "commit", "rollbackOuter"}
       => kept[r] = v \/ 0 \in broken[r]
  /\ phase[r] = "prepareOuter" /\ stage[r] = "world" /\ ~err[r]
       => kept[r] = v \/ 0 \in broken[r]
  /\ phase[r] \in {"commit", "finalize", "returned"} => outer[r] = goal
  /\ phase[r] = "publish" /\ stage[r] = "world" /\ ~err[r] => outer[r] = goal
  /\ phase[r] = "rollbackOuter" /\ stage[r] = "world" => outer[r] = v \/ 0 \in broken[r]
  /\ phase[r] \notin {"publish", "commit", "finalize", "returned", "rollbackOuter"}
       => outer[r] = v \/ 0 \in broken[r]

\* What the restore has written.
Written(r) ==
  /\ phase[r] = "apply" =>
       /\ stage[r] = "run" => at[r] \in 1 .. NumLayouts + 1
       /\ stage[r] \in {"run", "lane"} => \A l \in Layouts : l < at[r] => native[r][l] = goal
       /\ stage[r] = "world" /\ ~err[r] =>
            coord[r] = goal /\ \A l \in Layouts : native[r][l] = goal
  /\ phase[r] \in {"publish", "commit", "finalize"} =>
       \A l \in Layouts : native[r][l] = goal
  /\ phase[r] = "commit" =>
       /\ stage[r] \in {"run", "lane"} => at[r] \in Layouts /\ 1 .. at[r] - 1 \subseteq sealed[r]
       /\ stage[r] = "world" /\ ~err[r] => Layouts \subseteq sealed[r]

\* Where a rank may wait.
Waiting(r) ==
  /\ phase[r] \in {"idle", "returned", "raised", "finalize"} => stage[r] = "run"
  /\ stage[r] = "lane" => phase[r] \in {"begin", "undo", "apply", "commit", "rollback"}
  /\ phase[r] = "idle" => goal = 0
  /\ phase[r] # "idle" => goal > 0

Solo(r, v) ==
  /\ \A l \in Layouts : Layout(r, l, v)
  /\ Snapshots(r) /\ Coordinator(r, v) /\ Envelope(r, v) /\ Written(r) /\ Waiting(r)

\* Ranks are in the same phase, up to a begin that some of them undo; v is the version
\* before the restore.
IndInv ==
  /\ TypeOK
  /\ \A r \in Ranks, s \in Ranks : Stretch(r) = Stretch(s)
  /\ \E v \in Nat : v = base /\ \A r \in Ranks : Solo(r, v)
-----------------------------------------------------------------------------
(***************************************************************************)
(* A step of one rank                                                      *)
(***************************************************************************)

\* Rank s is untouched by a step.
Same(s) ==
  /\ phase'[s] = phase[s] /\ stage'[s] = stage[s] /\ at'[s] = at[s] /\ err'[s] = err[s]
  /\ native'[s] = native[s] /\ snap'[s] = snap[s] /\ sealed'[s] = sealed[s]
  /\ python'[s] = python[s] /\ coord'[s] = coord[s] /\ saved'[s] = saved[s]
  /\ outer'[s] = outer[s] /\ kept'[s] = kept[s] /\ broken'[s] = broken[s]

\* A rank that a step leaves alone.
LEMMA SameFacts ==
  ASSUME NEW s \in Ranks, Same(s), goal' = goal
  PROVE  /\ Stretch(s)' = Stretch(s)
         /\ \A v : Solo(s, v)' <=> Solo(s, v)
<1> USE DEF Same
<1>1. Stretch(s)' = Stretch(s)
  BY DEF Stretch, Undone
<1>2. \A v : (\A l \in Layouts : Layout(s, l, v))' <=> (\A l \in Layouts : Layout(s, l, v))
  BY DEF Layout, Begun, Version, Layouts
<1>3. /\ Snapshots(s)' <=> Snapshots(s)
      /\ Written(s)' <=> Written(s)
      /\ Waiting(s)' <=> Waiting(s)
  BY DEF Snapshots, Written, Waiting, Closed, Layouts
<1>4. \A v : (Coordinator(s, v)' <=> Coordinator(s, v)) /\ (Envelope(s, v)' <=> Envelope(s, v))
  BY DEF Coordinator, Envelope, Version, Undone, Closed
<1> QED BY <1>1, <1>2, <1>3, <1>4 DEF Solo

\* A step of rank r that stays in its stretch.
LEMMA QuietStep ==
  ASSUME IndInv, TypeOK', NEW r \in Ranks, goal' = goal, base' = base,
         \A s \in Ranks \ {r} : Same(s),
         Stretch(r)' = Stretch(r),
         ASSUME NEW v \in Nat, Solo(r, v) PROVE Solo(r, v)'
  PROVE  IndInv'
<1>1. \A s \in Ranks : Stretch(s)' = Stretch(s)
  BY SameFacts
<1>2. PICK v \in Nat : v = base /\ \A s \in Ranks : Solo(s, v)
  BY DEF IndInv
<1>3. \A s \in Ranks : Solo(s, v)'
  BY <1>2, SameFacts
<1>4. \A s \in Ranks, t \in Ranks : Stretch(s)' = Stretch(t)'
  BY <1>1 DEF IndInv
<1> QED BY <1>2, <1>3, <1>4 DEF IndInv

\* Policy, protocol and preflight change nothing.
LEMMA ValidateStep ==
  ASSUME IndInv, NEW r \in Ranks, Validate(r)
  PROVE  IndInv'
<1> USE DEF Runs, Waits, Raises, engine, coordinator, envelope
<1>0. TypeOK /\ phase[r] \in {"policy", "protocol", "preflight"} /\ stage[r] = "run"
  BY DEF IndInv, Validate
<1>1. PICK fails \in BOOLEAN : MayFail(fails) /\ err' = [err EXCEPT ![r] = fails]
  BY DEF Validate
<1>2. TypeOK'
  BY <1>0, <1>1 DEF TypeOK, Validate, MayFail, Fail
<1>3. \A s \in Ranks \ {r} : Same(s)
  BY <1>0, <1>1 DEF TypeOK, Validate, Same
<1>4. /\ stage'[r] = "world"
      /\ UNCHANGED <<goal, base, alone, phase, at, native, snap, sealed, python, coord, saved,
                     outer, kept, broken>>
  BY <1>0 DEF TypeOK, Validate
<1>5. Stretch(r)' = Stretch(r)
  BY <1>0, <1>4 DEF Stretch, Undone
<1>6. ASSUME NEW v \in Nat, Solo(r, v) PROVE Solo(r, v)'
  BY <1>0, <1>4, <1>6
  DEF Solo, Layout, Begun, Version, Snapshots, Coordinator, Envelope, Written, Waiting, Closed, Undone
<1> QED BY <1>2, <1>3, <1>4, <1>5, <1>6, QuietStep

\* The envelope is captured.
LEMMA PrepareOuterStep ==
  ASSUME IndInv, NEW r \in Ranks, PrepareOuterState(r)
  PROVE  IndInv'
<1> USE DEF Runs, Waits, Raises, engine, coordinator
<1>0. TypeOK /\ phase[r] = "prepareOuter" /\ stage[r] = "run"
  BY DEF IndInv, PrepareOuterState
<1>1. PICK fails \in BOOLEAN :
        /\ MayFail(fails) /\ err' = [err EXCEPT ![r] = fails]
        /\ kept' = IF fails THEN kept ELSE [kept EXCEPT ![r] = outer[r]]
  BY DEF PrepareOuterState
<1>2. TypeOK'
  BY <1>0, <1>1 DEF TypeOK, PrepareOuterState, MayFail, Fail
<1>3. \A s \in Ranks \ {r} : Same(s)
  BY <1>0, <1>1 DEF TypeOK, PrepareOuterState, Same
<1>4. /\ stage'[r] = "world" /\ (~err'[r] => kept'[r] = outer[r])
      /\ UNCHANGED <<goal, base, alone, phase, at, native, snap, sealed, python, coord, saved, outer, broken>>
  BY <1>0, <1>1 DEF TypeOK, PrepareOuterState
<1>5. Stretch(r)' = Stretch(r)
  BY <1>0, <1>4 DEF Stretch, Undone
<1>6. ASSUME NEW v \in Nat, Solo(r, v) PROVE Solo(r, v)'
  BY <1>0, <1>4, <1>6
  DEF Solo, Layout, Begun, Version, Snapshots, Coordinator, Envelope, Written, Waiting, Closed, Undone
<1> QED BY <1>2, <1>3, <1>4, <1>5, <1>6, QuietStep

\* The envelope of the checkpoint is published.
LEMMA RestoreOuterStep ==
  ASSUME IndInv, NEW r \in Ranks, RestoreOuterState(r)
  PROVE  IndInv'
<1> USE DEF Runs, Waits, Raises, engine, coordinator
<1>0. TypeOK /\ phase[r] = "publish" /\ stage[r] = "run"
  BY DEF IndInv, RestoreOuterState
<1>1. PICK fails \in BOOLEAN :
        /\ MayFail(fails) /\ err' = [err EXCEPT ![r] = fails]
        /\ outer' = [outer EXCEPT ![r] = IF fails THEN Torn ELSE goal]
  BY DEF RestoreOuterState
<1>2. TypeOK'
  BY <1>0, <1>1 DEF TypeOK, RestoreOuterState, MayFail, Fail, Versions
<1>3. \A s \in Ranks \ {r} : Same(s)
  BY <1>0, <1>1 DEF TypeOK, RestoreOuterState, Same
<1>4. /\ stage'[r] = "world" /\ (~err'[r] => outer'[r] = goal)
      /\ UNCHANGED <<goal, base, alone, phase, at, native, snap, sealed, python, coord, saved, kept, broken>>
  BY <1>0, <1>1 DEF TypeOK, RestoreOuterState
<1>5. Stretch(r)' = Stretch(r)
  BY <1>0, <1>4 DEF Stretch, Undone
<1>6. ASSUME NEW v \in Nat, Solo(r, v) PROVE Solo(r, v)'
  BY <1>0, <1>4, <1>6
  DEF Solo, Layout, Begun, Version, Snapshots, Coordinator, Envelope, Written, Waiting, Closed, Undone
<1> QED BY <1>2, <1>3, <1>4, <1>5, <1>6, QuietStep

\* The captured envelope is put back, or marked as not restored.
LEMMA RollbackOuterStep ==
  ASSUME IndInv, NEW r \in Ranks, RollbackOuterState(r)
  PROVE  IndInv'
<1> USE DEF Runs, Waits, Raises, engine, coordinator
<1>0. TypeOK /\ phase[r] = "rollbackOuter" /\ stage[r] = "run"
  BY DEF IndInv, RollbackOuterState
<1>1. PICK fails \in BOOLEAN :
        /\ MayFail(fails) /\ err' = [err EXCEPT ![r] = fails]
        /\ outer' = [outer EXCEPT ![r] = IF fails THEN Torn ELSE kept[r]]
        /\ broken' = IF fails THEN [broken EXCEPT ![r] = @ \cup {0}] ELSE broken
  BY DEF RollbackOuterState
<1>2. TypeOK'
  <2>1. 0 \in 0 .. NumLayouts
    BY RestartAssumption
  <2>2. broken' \in [Ranks -> SUBSET (0 .. NumLayouts)]
    BY <1>0, <1>1, <2>1 DEF TypeOK
  <2> QED BY <1>0, <1>1, <2>2 DEF TypeOK, RollbackOuterState, MayFail, Fail, Versions
<1>3. \A s \in Ranks \ {r} : Same(s)
  BY <1>0, <1>1 DEF TypeOK, RollbackOuterState, Same
<1>4. /\ stage'[r] = "world" /\ (0 \in broken'[r] \/ (outer'[r] = kept[r] /\ broken'[r] = broken[r]))
      /\ broken[r] \subseteq broken'[r] /\ broken'[r] \subseteq broken[r] \cup {0}
      /\ UNCHANGED <<goal, base, alone, phase, at, native, snap, sealed, python, coord, saved, kept>>
  BY <1>0, <1>1 DEF TypeOK, RollbackOuterState
<1>5. Stretch(r)' = Stretch(r)
  BY <1>0, <1>4 DEF Stretch, Undone
<1>6. ASSUME NEW v \in Nat, Solo(r, v) PROVE Solo(r, v)'
  <2>1. \A l \in Layouts : l \in broken'[r] <=> l \in broken[r]
    BY <1>4, RestartAssumption DEF Layouts
  <2>2. \A l \in Layouts : Layout(r, l, v)'
    BY <1>0, <1>4, <1>6, <2>1 DEF Solo, Layout, Begun, Version, Layouts
  <2>3. Envelope(r, v)'
    <3>1. kept[r] = v \/ 0 \in broken[r]
      BY <1>0, <1>6 DEF Solo, Envelope
    <3>2. (kept[r] = v \/ 0 \in broken'[r]) /\ (outer'[r] = v \/ 0 \in broken'[r])
      BY <1>4, <3>1
    <3> QED BY <1>0, <1>4, <3>2 DEF Envelope
  <2>4. Coordinator(r, v)'
    BY <1>0, <1>4, <1>6 DEF Solo, Coordinator, Version, Closed, Undone
  <2> QED
    BY <1>0, <1>4, <1>6, <2>2, <2>3, <2>4 DEF Solo, Snapshots, Written, Waiting, Closed
<1> QED BY <1>2, <1>3, <1>4, <1>5, <1>6, QuietStep

\* A rank takes its Python snapshots and enters the native begin.
LEMMA BeginChildStep ==
  ASSUME IndInv, NEW r \in Ranks, BeginChild(r)
  PROVE  IndInv'
<1> USE DEF Runs, Waits, Raises, envelope
<1>0. TypeOK /\ phase[r] = "begin" /\ stage[r] = "run"
  BY DEF IndInv, BeginChild
<1>1. PICK w \in Nat : Solo(r, w)
  BY DEF IndInv
<1>2. ~err[r] /\ at[r] \in Layouts /\ python[r] = 1 .. at[r] - 1
  BY <1>0, <1>1 DEF Solo, Snapshots, TypeOK
<1>3. at[r] = 1 => saved[r] = None
  BY <1>0, <1>1, <1>2 DEF Solo, Coordinator
<1>4. PICK fails \in BOOLEAN :
        /\ Strays(r, fails)
        /\ saved' = IF at[r] = 1 THEN [saved EXCEPT ![r] = coord[r]] ELSE saved
        /\ python' = IF fails THEN python ELSE [python EXCEPT ![r] = @ \cup {at[r]}]
        /\ phase' = IF fails THEN [phase EXCEPT ![r] = "undo"] ELSE phase
        /\ stage' = IF fails THEN stage ELSE [stage EXCEPT ![r] = "lane"]
        /\ UNCHANGED <<goal, base, at, err, native, snap, sealed, coord, outer, kept, broken>>
  BY <1>0, <1>3 DEF BeginChild
<1>5. TypeOK'
  <2>1. faults' \in 0 .. MaxFaults /\ alone' \subseteq Ranks
    BY <1>0, <1>4, RestartAssumption DEF TypeOK, Strays, MayFail, Fail
  <2>2. /\ phase' \in [Ranks -> DOMAIN Succeeds \cup {"idle", "undo", "finalize", "returned", "raised"}]
        /\ stage' \in [Ranks -> {"run", "lane", "world"}]
        /\ python' \in [Ranks -> SUBSET Layouts] /\ saved' \in [Ranks -> Versions \cup {None}]
    BY <1>0, <1>2, <1>4 DEF TypeOK
  <2> QED BY <1>0, <1>4, <2>1, <2>2 DEF TypeOK
<1>6. \A s \in Ranks \ {r} : Same(s)
  BY <1>0, <1>4 DEF TypeOK, Same
<1>7. /\ saved'[r] = IF at[r] = 1 THEN coord[r] ELSE saved[r]
      /\ \/ phase'[r] = "begin" /\ stage'[r] = "lane" /\ python'[r] = 1 .. at[r]
         \/ phase'[r] = "undo" /\ stage'[r] = "run" /\ python'[r] = python[r]
  <2>1. 1 .. at[r] - 1 \cup {at[r]} = 1 .. at[r]
    BY <1>2, RestartAssumption DEF Layouts
  <2>2. CASE fails
    BY <1>0, <1>4, <2>2 DEF TypeOK
  <2>3. CASE ~fails
    BY <1>0, <1>2, <1>4, <2>1, <2>3 DEF TypeOK
  <2> QED BY <2>2, <2>3
<1>8. Stretch(r)' = Stretch(r)
  BY <1>0, <1>7 DEF Stretch
<1>9. ASSUME NEW v \in Nat, Solo(r, v) PROVE Solo(r, v)'
  <2>0. Begun(r)' = Begun(r)
    BY <1>0, <1>2, <1>4, <1>7 DEF Begun
  <2>1. \A l \in Layouts : Layout(r, l, v)'
    BY <1>0, <1>4, <1>7, <1>9, <2>0 DEF Solo, Layout, Version
  <2>2. Snapshots(r)'
    <3>1. /\ at[r] \in 0 .. NumLayouts /\ 1 .. at[r] - 1 \subseteq 1 .. at[r]
      BY <1>2, RestartAssumption DEF Layouts
    <3> QED BY <1>0, <1>2, <1>4, <1>7, <3>1 DEF Snapshots, Closed, Layouts
  <2>3. Coordinator(r, v)'
    <3>1. (phase'[r] = "begin" => 1 \in python'[r]) /\ (at[r] # 1 => 1 \in python[r])
      BY <1>2, <1>7 DEF Layouts
    <3>2. v # None
      BY RestartAssumption
    <3>3. coord[r] = v /\ (at[r] # 1 => saved[r] = v)
      BY <1>0, <1>2, <1>9, <3>1 DEF Solo, Coordinator, Version, Closed, Undone
    <3> QED BY <1>0, <1>2, <1>4, <1>7, <3>1, <3>2, <3>3 DEF Coordinator, Version, Closed, Undone
  <2> QED
    BY <1>0, <1>2, <1>4, <1>7, <1>9, <2>1, <2>2, <2>3
    DEF Solo, Envelope, Written, Waiting
<1> QED BY <1>4, <1>5, <1>6, <1>8, <1>9, QuietStep

\* A rank writes a layout before the collective part of its apply.
LEMMA ApplyChildStep ==
  ASSUME IndInv, NEW r \in Ranks, ApplyChild(r)
  PROVE  IndInv'
<1> USE DEF Runs, Waits, Raises, coordinator, envelope
<1>0. TypeOK /\ phase[r] = "apply" /\ stage[r] = "run" /\ at[r] <= NumLayouts
  BY DEF IndInv, ApplyChild
<1>1. PICK w \in Nat : Solo(r, w)
  BY DEF IndInv
<1>2. at[r] \in Layouts
  BY <1>0, <1>1, RestartAssumption DEF Solo, Written, Layouts
<1>3. PICK fails \in BOOLEAN :
        /\ Strays(r, fails) /\ err' = [err EXCEPT ![r] = fails]
        /\ stage' = [stage EXCEPT ![r] = IF fails THEN "world" ELSE "lane"]
        /\ native' = [native EXCEPT ![r] = [native[r] EXCEPT ![at[r]] = Torn]]
        /\ UNCHANGED <<goal, base, phase, at, snap, sealed, python, coord, saved, outer, kept, broken>>
  BY DEF ApplyChild
<1>4. TypeOK'
  <2>1. faults' \in 0 .. MaxFaults /\ alone' \subseteq Ranks
    BY <1>0, <1>3, RestartAssumption DEF TypeOK, Strays, MayFail, Fail
  <2> QED BY <1>0, <1>2, <1>3, <2>1 DEF TypeOK, Versions
<1>5. \A s \in Ranks \ {r} : Same(s)
  BY <1>0, <1>3 DEF TypeOK, Same
<1>6. /\ stage'[r] = "lane" \/ (stage'[r] = "world" /\ err'[r])
      /\ \A l \in Layouts : l < at[r] => native'[r][l] = native[r][l]
      /\ UNCHANGED <<goal, base, phase, at, snap, sealed, python, coord, saved, outer, kept, broken>>
  BY <1>0, <1>2, <1>3, RestartAssumption DEF TypeOK, Layouts
<1>7. Stretch(r)' = Stretch(r)
  BY <1>0, <1>6 DEF Stretch, Undone
<1>8. ASSUME NEW v \in Nat, Solo(r, v) PROVE Solo(r, v)'
  <2>1. python[r] = Layouts
    BY <1>0, <1>8 DEF Solo, Snapshots
  <2>2. \A l \in Layouts : Layout(r, l, v)'
    BY <1>0, <1>6, <1>8, <2>1 DEF Solo, Layout, Begun
  <2>3. Written(r)'
    BY <1>0, <1>6, <1>8 DEF Solo, Written
  <2>4. Coordinator(r, v)'
    BY <1>0, <1>6, <1>8 DEF Solo, Coordinator, Version, Closed, Undone
  <2> QED
    BY <1>0, <1>6, <1>8, <2>2, <2>3, <2>4 DEF Solo, Snapshots, Envelope, Waiting, Closed
<1> QED BY <1>4, <1>5, <1>6, <1>7, <1>8, QuietStep

\* The executor installs its own part.
LEMMA ApplyCoordinatorStep ==
  ASSUME IndInv, NEW r \in Ranks, ApplyCoordinator(r)
  PROVE  IndInv'
<1> USE DEF Runs, Waits, Raises, engine, envelope
<1>0. TypeOK /\ phase[r] = "apply" /\ stage[r] = "run" /\ at[r] > NumLayouts
  BY DEF IndInv, ApplyCoordinator
<1>1. PICK fails \in BOOLEAN :
        /\ MayFail(fails) /\ err' = [err EXCEPT ![r] = fails]
        /\ coord' = [coord EXCEPT ![r] = IF fails THEN Torn ELSE goal]
  BY DEF ApplyCoordinator
<1>2. TypeOK'
  BY <1>0, <1>1 DEF TypeOK, ApplyCoordinator, MayFail, Fail, Versions
<1>3. \A s \in Ranks \ {r} : Same(s)
  BY <1>0, <1>1 DEF TypeOK, ApplyCoordinator, Same
<1>4. /\ stage'[r] = "world" /\ (~err'[r] => coord'[r] = goal)
      /\ UNCHANGED <<goal, base, alone, phase, at, native, snap, sealed, python, saved, outer, kept, broken>>
  BY <1>0, <1>1 DEF TypeOK, ApplyCoordinator
<1>5. Stretch(r)' = Stretch(r)
  BY <1>0, <1>4 DEF Stretch, Undone
<1>6. ASSUME NEW v \in Nat, Solo(r, v) PROVE Solo(r, v)'
  <2>1. \A l \in Layouts : l < at[r]
    BY <1>0, RestartAssumption DEF TypeOK, Layouts
  <2>2. \A l \in Layouts : Layout(r, l, v)'
    BY <1>0, <1>4, <1>6 DEF Solo, Layout, Begun, Version
  <2>3. Written(r)'
    BY <1>0, <1>4, <1>6, <2>1 DEF Solo, Written
  <2>4. Coordinator(r, v)'
    <3>1. v # None
      BY RestartAssumption
    <3> QED BY <1>0, <1>4, <1>6, <3>1 DEF Solo, Coordinator, Version, Closed, Undone
  <2> QED
    BY <1>0, <1>4, <1>6, <2>2, <2>3, <2>4 DEF Solo, Snapshots, Envelope, Waiting, Closed
<1> QED BY <1>2, <1>3, <1>4, <1>5, <1>6, QuietStep

\* A rank enters the native commit of a layout.
LEMMA CommitChildStep ==
  ASSUME IndInv, NEW r \in Ranks, CommitChild(r)
  PROVE  IndInv'
<1> USE DEF Runs, Waits, engine, coordinator, envelope
<1>0. TypeOK /\ phase[r] = "commit" /\ stage[r] = "run"
  BY DEF IndInv, CommitChild
<1>1. TypeOK'
  BY <1>0 DEF TypeOK, CommitChild
<1>2. \A s \in Ranks \ {r} : Same(s)
  BY <1>0 DEF TypeOK, CommitChild, Same
<1>3. /\ stage'[r] = "lane"
      /\ UNCHANGED <<goal, base, alone, phase, at, err, native, snap, sealed, python, coord, saved,
                     outer, kept, broken>>
  BY <1>0 DEF TypeOK, CommitChild
<1>4. Stretch(r)' = Stretch(r)
  BY <1>0, <1>3 DEF Stretch, Undone
<1>5. ASSUME NEW v \in Nat, Solo(r, v) PROVE Solo(r, v)'
  <2>1. Coordinator(r, v)'
    BY <1>0, <1>3, <1>5 DEF Solo, Coordinator, Version, Closed, Undone
  <2> QED
    BY <1>0, <1>3, <1>5, <2>1
    DEF Solo, Layout, Begun, Version, Snapshots, Envelope, Written, Waiting, Closed
<1> QED BY <1>1, <1>2, <1>3, <1>4, <1>5, QuietStep

\* A rank enters the native rollback of a layout, or passes over one that it has
\* not begun.
LEMMA RollbackChildStep ==
  ASSUME IndInv, NEW r \in Ranks, RollbackChild(r)
  PROVE  IndInv'
<1> USE DEF Runs, Waits, Raises, engine, coordinator, envelope
<1>0. TypeOK /\ phase[r] \in {"undo", "rollback"} /\ stage[r] = "run" /\ at[r] > 0
  BY DEF IndInv, RollbackChild
<1>1. PICK w \in Nat : Solo(r, w)
  BY DEF IndInv
<1>2. at[r] \in Layouts /\ python[r] \subseteq 1 .. at[r]
  BY <1>0, <1>1, RestartAssumption DEF Solo, Snapshots, Layouts
<1>3. /\ UNCHANGED <<goal, base, alone, phase, native, snap, sealed, python, coord, saved, outer, kept, broken>>
      /\ IF at[r] \in python[r]
           THEN stage'[r] = "lane" /\ at' = at /\ err' = err
           ELSE at'[r] = at[r] - 1 /\ stage' = stage
  BY <1>0 DEF TypeOK, RollbackChild
<1>4. TypeOK'
  <2>1. at' \in [Ranks -> 0 .. NumLayouts + 1]
    <3>1. at[r] - 1 \in 0 .. NumLayouts + 1
      BY <1>2, RestartAssumption DEF Layouts
    <3>2. at' = at \/ at' = [at EXCEPT ![r] = at[r] - 1]
      BY DEF RollbackChild
    <3> QED BY <1>0, <3>1, <3>2 DEF TypeOK
  <2> QED BY <1>0, <2>1 DEF TypeOK, RollbackChild
<1>5. \A s \in Ranks \ {r} : Same(s)
  BY <1>0 DEF TypeOK, RollbackChild, Same
<1>6. Stretch(r)' = Stretch(r)
  BY <1>0, <1>3 DEF Stretch, Undone
<1>7. ASSUME NEW v \in Nat, Solo(r, v) PROVE Solo(r, v)'
  <2>1. Snapshots(r)'
    <3>1. CASE at[r] \in python[r]
      BY <1>0, <1>2, <1>3, <1>7, <3>1 DEF Solo, Snapshots, Closed
    <3>2. CASE at[r] \notin python[r]
      <4>1. at'[r] \in 0 .. NumLayouts /\ python[r] \subseteq 1 .. at'[r]
        BY <1>2, <1>3, <3>2, RestartAssumption DEF Layouts
      <4> QED BY <1>0, <1>3, <3>2, <4>1 DEF Snapshots, Closed
    <3> QED BY <3>1, <3>2
  <2>2. \A l \in Layouts : Layout(r, l, v)'
    BY <1>0, <1>3, <1>7 DEF Solo, Layout, Begun, Version
  <2>3. Coordinator(r, v)'
    BY <1>0, <1>3, <1>7 DEF Solo, Coordinator, Version, Closed, Undone
  <2> QED
    BY <1>0, <1>3, <1>7, <2>1, <2>2, <2>3 DEF Solo, Envelope, Written, Waiting
<1> QED BY <1>3, <1>4, <1>5, <1>6, <1>7, QuietStep

\* The executor puts its own snapshot back.
LEMMA RollbackCoordinatorStep ==
  ASSUME IndInv, NEW r \in Ranks, RollbackCoordinator(r)
  PROVE  IndInv'
<1> USE DEF Runs, Waits, Raises, engine, envelope
<1>0. TypeOK /\ phase[r] \in {"undo", "rollback"} /\ stage[r] = "run" /\ at[r] = 0
  BY DEF IndInv, RollbackCoordinator
<1>1. PICK w \in Nat : Solo(r, w)
  BY DEF IndInv
<1>2. python[r] = {}
  <2>1. python[r] \subseteq 1 .. 0
    BY <1>0, <1>1 DEF Solo, Snapshots
  <2> QED BY <2>1
<1>3. \A v \in Nat : v # None
  BY RestartAssumption
<1>4. \A v \in Nat : Solo(r, v) => saved[r] = v
  BY <1>0, <1>3 DEF Solo, Coordinator, Closed, Undone
<1>5. /\ phase' = [phase EXCEPT ![r] = IF phase[r] = "undo" THEN "begin" ELSE phase[r]]
      /\ err' = [err EXCEPT ![r] = (phase[r] = "undo" \/ err[r])]
      /\ stage' = [stage EXCEPT ![r] = "world"]
      /\ coord' = [coord EXCEPT ![r] = saved[r]] /\ saved' = [saved EXCEPT ![r] = None]
      /\ UNCHANGED <<goal, base, alone, at, native, snap, sealed, python, outer, kept, broken, faults>>
  BY DEF RollbackCoordinator
<1>6. TypeOK'
  <2>1. saved[r] \in Nat
    BY <1>1, <1>4
  <2>2. /\ phase' \in [Ranks -> DOMAIN Succeeds \cup {"idle", "undo", "finalize", "returned", "raised"}]
        /\ coord' \in [Ranks -> Versions] /\ saved' \in [Ranks -> Versions \cup {None}]
    BY <1>0, <1>5, <2>1 DEF TypeOK, Versions, Succeeds
  <2> QED BY <1>0, <1>5, <2>2 DEF TypeOK
<1>7. \A s \in Ranks \ {r} : Same(s)
  BY <1>0, <1>5 DEF TypeOK, Same
<1>8. /\ phase[r] = "undo" => phase'[r] = "begin" /\ err'[r]
      /\ phase[r] = "rollback" => phase'[r] = "rollback"
      /\ stage'[r] = "world" /\ coord'[r] = saved[r] /\ saved'[r] = None
  BY <1>0, <1>5 DEF TypeOK
<1>9. Stretch(r)' = Stretch(r)
  BY <1>0, <1>8 DEF Stretch, Undone
<1>10. ASSUME NEW v \in Nat, Solo(r, v) PROVE Solo(r, v)'
  <2>1. \A l \in Layouts : Layout(r, l, v)'
    BY <1>0, <1>5, <1>8, <1>10 DEF Solo, Layout, Begun, Version
  <2>2. Snapshots(r)'
    BY <1>0, <1>2, <1>5, <1>8 DEF Snapshots, Closed
  <2>3. Coordinator(r, v)'
    BY <1>0, <1>2, <1>3, <1>4, <1>5, <1>8, <1>10 DEF Coordinator, Version, Closed, Undone
  <2>4. Envelope(r, v)'
    BY <1>0, <1>5, <1>8, <1>10 DEF Solo, Envelope
  <2> QED
    BY <1>0, <1>5, <1>8, <1>10, <2>1, <2>2, <2>3, <2>4 DEF Solo, Written, Waiting
<1> QED BY <1>5, <1>6, <1>7, <1>9, <1>10, QuietStep

\* The committed transaction of one layout is released.
LEMMA FinalizeStep ==
  ASSUME IndInv, NEW r \in Ranks, Finalize(r)
  PROVE  IndInv'
<1> USE DEF Runs, envelope
<1>0. TypeOK /\ phase[r] = "finalize" /\ stage[r] = "run"
  BY DEF IndInv, Finalize
<1>1. PICK w \in Nat : Solo(r, w)
  BY DEF IndInv
<1>2. /\ at[r] \in Layouts /\ python[r] = at[r] .. NumLayouts
      /\ python[r] \subseteq sealed[r] /\ broken[r] \subseteq {0}
  BY <1>0, <1>1 DEF Solo, Snapshots
<1>3. at[r] \in sealed[r] /\ at[r] \in python[r]
  BY <1>2, RestartAssumption DEF Layouts
<1>4. /\ snap' = [snap EXCEPT ![r] = [snap[r] EXCEPT ![at[r]] = None]]
      /\ sealed' = [sealed EXCEPT ![r] = @ \ {at[r]}]
      /\ python' = [python EXCEPT ![r] = @ \ {at[r]}]
      /\ at' = [at EXCEPT ![r] = at[r] + 1]
      /\ UNCHANGED <<goal, base, alone, stage, err, native, coord, outer, kept, faults>>
  BY <1>3 DEF Finalize
<1>5. IF at[r] < NumLayouts THEN UNCHANGED <<phase, saved, broken>>
      ELSE /\ phase' = [phase EXCEPT ![r] = "returned"]
           /\ saved' = [saved EXCEPT ![r] = None]
           /\ broken' = [broken EXCEPT ![r] = @ \ {0}]
  BY DEF Finalize
<1>6. TypeOK'
  <2>1. at' \in [Ranks -> 0 .. NumLayouts + 1]
    <3>1. at[r] + 1 \in 0 .. NumLayouts + 1
      BY <1>2, RestartAssumption DEF Layouts
    <3> QED BY <1>0, <1>4, <3>1 DEF TypeOK
  <2>2. snap' \in [Ranks -> [Layouts -> Versions \cup {None}]]
    BY <1>0, <1>2, <1>4 DEF TypeOK
  <2>3. /\ phase' \in [Ranks -> DOMAIN Succeeds \cup {"idle", "undo", "finalize", "returned", "raised"}]
        /\ saved' \in [Ranks -> Versions \cup {None}]
        /\ broken' \in [Ranks -> SUBSET (0 .. NumLayouts)]
    <3>1. CASE at[r] < NumLayouts
      BY <1>0, <1>5, <3>1 DEF TypeOK
    <3>2. CASE ~(at[r] < NumLayouts)
      <4>1. broken' = [broken EXCEPT ![r] = @ \ {0}] /\ broken[r] \ {0} \subseteq 0 .. NumLayouts
        BY <1>0, <1>5, <3>2 DEF TypeOK
      <4>2. broken' \in [Ranks -> SUBSET (0 .. NumLayouts)]
        BY <1>0, <4>1 DEF TypeOK
      <4> QED BY <1>0, <1>5, <3>2, <4>2 DEF TypeOK
    <3> QED BY <3>1, <3>2
  <2> QED BY <1>0, <1>4, <2>1, <2>2, <2>3 DEF TypeOK
<1>7. \A s \in Ranks \ {r} : Same(s)
  BY <1>0, <1>4, <1>5 DEF TypeOK, Same
<1>8. /\ snap'[r][at[r]] = None /\ \A l \in Layouts \ {at[r]} : snap'[r][l] = snap[r][l]
      /\ sealed'[r] = sealed[r] \ {at[r]} /\ python'[r] = python[r] \ {at[r]}
      /\ at'[r] = at[r] + 1
  BY <1>0, <1>2, <1>4 DEF TypeOK
<1>9. \/ at[r] < NumLayouts /\ phase'[r] = "finalize" /\ saved'[r] = saved[r] /\ broken'[r] = broken[r]
      \/ at[r] = NumLayouts /\ phase'[r] = "returned" /\ saved'[r] = None /\ broken'[r] = {}
  <2>1. at[r] < NumLayouts \/ at[r] = NumLayouts
    BY <1>2, RestartAssumption DEF Layouts
  <2> QED BY <1>0, <1>2, <1>5, <2>1, RestartAssumption DEF TypeOK
<1>10. python'[r] = at'[r] .. NumLayouts
  <2>1. at[r] \in Nat /\ NumLayouts \in Nat
    BY <1>2, RestartAssumption DEF Layouts
  <2>2. (at[r] .. NumLayouts) \ {at[r]} = at[r] + 1 .. NumLayouts
    BY <2>1
  <2> QED BY <1>2, <1>8, <2>2
<1>11. Stretch(r)' = Stretch(r)
  BY <1>0, <1>9 DEF Stretch, Undone
<1>12. ASSUME NEW v \in Nat, Solo(r, v) PROVE Solo(r, v)'
  <2>1. ASSUME NEW l \in Layouts PROVE Layout(r, l, v)'
    <3>1. l \notin broken[r] /\ l \notin broken'[r]
      BY <1>2, <1>9, RestartAssumption DEF Layouts
    <3>2. native[r][l] = goal /\ Layout(r, l, v)
      BY <1>0, <1>12 DEF Solo, Written
    <3>3. (Begun(r) = python[r]) /\ (Begun(r)' = python'[r])
      BY <1>0, <1>9 DEF Begun
    <3>4. (Version(r, v) = goal) /\ (Version(r, v)' = goal)
      BY <1>0, <1>4, <1>9 DEF Version
    <3>5. CASE l = at[r]
      BY <1>4, <1>8, <3>1, <3>2, <3>3, <3>4, <3>5 DEF Layout
    <3>6. CASE l # at[r]
      BY <1>4, <1>8, <3>1, <3>2, <3>3, <3>4, <3>6 DEF Layout
    <3> QED BY <3>5, <3>6
  <2>2. Snapshots(r)'
    <3>1. CASE at[r] < NumLayouts
      <4>1. at'[r] \in Layouts /\ python'[r] \subseteq sealed'[r]
        BY <1>2, <1>8, <3>1, RestartAssumption DEF Layouts
      <4> QED BY <1>2, <1>9, <1>10, <3>1, <4>1, RestartAssumption DEF Snapshots, Closed
    <3>2. CASE at[r] = NumLayouts
      <4>1. python'[r] = {}
        BY <1>2, <1>8, <3>2, RestartAssumption DEF Layouts
      <4> QED BY <1>9, <3>2, <4>1, RestartAssumption DEF Snapshots, Closed
    <3> QED BY <1>9, <3>1, <3>2
  <2>3. Coordinator(r, v)'
    BY <1>0, <1>4, <1>9, <1>12, RestartAssumption DEF Solo, Coordinator, Version, Closed, Undone
  <2>4. Envelope(r, v)'
    BY <1>0, <1>4, <1>9, <1>12 DEF Solo, Envelope
  <2> QED
    BY <1>0, <1>4, <1>9, <1>12, <2>1, <2>2, <2>3, <2>4 DEF Solo, Written, Waiting
<1> QED BY <1>4, <1>6, <1>7, <1>11, <1>12, QuietStep
-----------------------------------------------------------------------------
(***************************************************************************)
(* Steps of all ranks                                                      *)
(***************************************************************************)

\* What a collective step has to show when it keeps the base version.
LEMMA JointStep ==
  ASSUME IndInv, TypeOK', goal' = goal, base' = base,
         \A r \in Ranks, s \in Ranks : Stretch(r)' = Stretch(s)',
         ASSUME NEW v \in Nat, NEW r \in Ranks, Solo(r, v) PROVE Solo(r, v)'
  PROVE  IndInv'
<1>1. PICK v \in Nat : v = base /\ \A s \in Ranks : Solo(s, v)
  BY DEF IndInv
<1>2. \A s \in Ranks : Solo(s, v)'
  BY <1>1
<1> QED BY <1>1, <1>2 DEF IndInv

\* All ranks open the transaction of a layout, or all start to undo.
LEMMA NativeBeginStep ==
  ASSUME IndInv, NEW l \in Layouts, NativeBegin(l)
  PROVE  IndInv'
<1> USE DEF coordinator, envelope
<1>0. TypeOK /\ \A r \in Ranks : stage[r] = "lane" /\ at[r] = l /\ phase[r] = "begin"
  BY DEF IndInv, NativeBegin, Meet
<1>1. PICK w \in Nat : \A r \in Ranks : Solo(r, w)
  BY DEF IndInv
<1>2. \A r \in Ranks : ~err[r] /\ python[r] = 1 .. l
  BY <1>0, <1>1 DEF Solo, Snapshots, TypeOK
<1>3. PICK fails \in BOOLEAN :
        /\ MayFail(fails)
        /\ IF fails \/ BeginRefused(l)
             THEN /\ python' = [r \in Ranks |-> python[r] \ {l}]
                  /\ phase' = [r \in Ranks |-> "undo"] /\ stage' = [r \in Ranks |-> "run"]
                  /\ UNCHANGED <<snap, at, err>>
             ELSE /\ snap' = [r \in Ranks |-> [snap[r] EXCEPT ![l] = native[r][l]]]
                  /\ Onward(l) /\ UNCHANGED python
  BY DEF NativeBegin
<1>4. UNCHANGED <<goal, base, alone, native, sealed, coord, saved, outer, kept, broken>>
  BY DEF NativeBegin
<1>5. l \in Nat /\ NumLayouts \in Nat /\ l >= 1 /\ l <= NumLayouts
  BY RestartAssumption DEF Layouts
<1>6. faults' \in 0 .. MaxFaults
  BY <1>0, <1>3, RestartAssumption DEF TypeOK, MayFail, Fail
<1>7. CASE fails \/ BeginRefused(l)
  <2>1. /\ python' = [r \in Ranks |-> python[r] \ {l}]
        /\ phase' = [r \in Ranks |-> "undo"] /\ stage' = [r \in Ranks |-> "run"]
        /\ UNCHANGED <<snap, at, err>>
    BY <1>3, <1>7
  <2>2. TypeOK'
    BY <1>0, <1>4, <1>6, <2>1 DEF TypeOK
  <2>3. \A r \in Ranks : Stretch(r)' = "begin"
    BY <2>1 DEF Stretch
  <2>4. ASSUME NEW v \in Nat, NEW r \in Ranks, Solo(r, v) PROVE Solo(r, v)'
    <3>1. (1 .. l) \ {l} = 1 .. l - 1
      BY <1>5
    <3>2. python'[r] = 1 .. l - 1 /\ phase'[r] = "undo" /\ stage'[r] = "run"
      BY <1>2, <2>1, <3>1
    <3>3. Begun(r) = 1 .. l - 1 /\ Begun(r)' = 1 .. l - 1
      BY <1>0, <1>2, <3>2 DEF Begun
    <3>4. \A m \in Layouts : Layout(r, m, v)'
      BY <1>0, <1>4, <2>1, <2>4, <3>2, <3>3 DEF Solo, Layout, Version
    <3>5. Snapshots(r)'
      BY <1>0, <1>5, <2>1, <3>2 DEF Snapshots, Closed
    <3>6. Coordinator(r, v)'
      <4>1. 1 \in python[r]
        BY <1>2, <1>5
      <4> QED BY <1>0, <1>2, <1>4, <2>1, <2>4, <3>2, <4>1, RestartAssumption
              DEF Solo, Coordinator, Version, Closed, Undone
    <3>7. Envelope(r, v)'
      BY <1>0, <1>4, <2>4, <3>2 DEF Solo, Envelope
    <3> QED BY <1>0, <1>4, <2>4, <3>2, <3>4, <3>5, <3>6, <3>7 DEF Solo, Written, Waiting
  <2> QED BY <1>4, <2>2, <2>3, <2>4, JointStep
<1>8. CASE ~(fails \/ BeginRefused(l))
  <2>1. /\ snap' = [r \in Ranks |-> [snap[r] EXCEPT ![l] = native[r][l]]]
        /\ at' = [r \in Ranks |-> l + 1]
        /\ stage' = [r \in Ranks |-> IF l = NumLayouts THEN "world" ELSE "run"]
        /\ UNCHANGED <<phase, err, python>>
    BY <1>0, <1>3, <1>8 DEF Onward
  <2>2. TypeOK'
    <3>1. at' \in [Ranks -> 0 .. NumLayouts + 1]
      BY <1>5, <2>1
    <3>2. snap' \in [Ranks -> [Layouts -> Versions \cup {None}]]
      BY <1>0, <2>1 DEF TypeOK
    <3> QED BY <1>0, <1>4, <1>6, <2>1, <3>1, <3>2 DEF TypeOK
  <2>3. \A r \in Ranks : Stretch(r)' = "begin"
    BY <1>0, <1>2, <2>1 DEF Stretch, Undone
  <2>4. ASSUME NEW v \in Nat, NEW r \in Ranks, Solo(r, v) PROVE Solo(r, v)'
    <3>1. snap[r][l] = None
      BY <1>8 DEF BeginRefused
    <3>2. Begun(r) = 1 .. l - 1 /\ Begun(r)' = 1 .. l
      BY <1>0, <1>2, <1>5, <2>1 DEF Begun
    <3>3. l \notin Begun(r) /\ native[r][l] = v /\ l \notin broken[r]
      BY <1>0, <1>5, <2>4, <3>1, <3>2 DEF Solo, Layout, Version
    <3>4. ASSUME NEW m \in Layouts PROVE Layout(r, m, v)'
      <4>1. CASE m = l
        BY <1>0, <1>4, <1>5, <2>1, <3>2, <3>3, <4>1 DEF Layout, TypeOK
      <4>2. CASE m # l
        <5>1. m \in Begun(r)' <=> m \in Begun(r)
          BY <1>5, <3>2, <4>2 DEF Layouts
        <5>2. snap'[r][m] = snap[r][m] /\ Version(r, v)' = Version(r, v) /\ Layout(r, m, v)
          BY <1>0, <1>4, <2>1, <2>4, <4>2 DEF TypeOK, Version, Solo
        <5> QED BY <1>4, <5>1, <5>2 DEF Layout
      <4> QED BY <4>1, <4>2
    <3>5. Snapshots(r)'
      <4>1. CASE l = NumLayouts
        <5>1. python'[r] = Layouts /\ at'[r] = NumLayouts + 1 /\ stage'[r] = "world"
          BY <1>2, <2>1, <4>1 DEF Layouts
        <5> QED BY <1>0, <1>2, <2>1, <5>1 DEF Snapshots, Closed
      <4>2. CASE l # NumLayouts
        <5>1. /\ python'[r] = 1 .. at'[r] - 1 /\ at'[r] \in Layouts /\ stage'[r] = "run"
          BY <1>2, <1>5, <2>1, <4>2 DEF Layouts
        <5> QED BY <1>0, <1>2, <2>1, <5>1 DEF Snapshots, Closed
      <4> QED BY <4>1, <4>2
    <3>6. Coordinator(r, v)'
      BY <1>0, <1>2, <1>4, <2>1, <2>4 DEF Solo, Coordinator, Version, Closed, Undone
    <3>7. Envelope(r, v)'
      BY <1>0, <1>4, <2>1, <2>4 DEF Solo, Envelope
    <3> QED BY <1>0, <1>4, <2>1, <2>4, <3>4, <3>5, <3>6, <3>7 DEF Solo, Written, Waiting
  <2> QED BY <1>4, <2>2, <2>3, <2>4, JointStep
<1> QED BY <1>7, <1>8

\* A loop goes on to the next layout or to the consensus.
LEMMA LoopTypes ==
  ASSUME TypeOK, NEW l \in Layouts, Stops \/ Onward(l)
  PROVE  /\ at' \in [Ranks -> 0 .. NumLayouts + 1] /\ err' \in [Ranks -> BOOLEAN]
         /\ stage' \in [Ranks -> {"run", "lane", "world"}]
<1>1. l + 1 \in 0 .. NumLayouts + 1
  BY RestartAssumption DEF Layouts
<1>2. CASE Stops
  BY <1>2 DEF Stops, TypeOK
<1>3. CASE Onward(l)
  BY <1>1, <1>3 DEF Onward, TypeOK
<1> QED BY <1>2, <1>3

\* All ranks install a layout, or none of them goes on.
LEMMA NativeApplyStep ==
  ASSUME IndInv, NEW l \in Layouts, NativeApply(l)
  PROVE  IndInv'
<1> USE DEF coordinator, envelope
<1>0. TypeOK /\ \A r \in Ranks : stage[r] = "lane" /\ at[r] = l /\ phase[r] = "apply"
  BY DEF IndInv, NativeApply, Meet
<1>1. PICK fails \in BOOLEAN :
        /\ MayFail(fails)
        /\ IF fails THEN Stops /\ UNCHANGED native
           ELSE Onward(l) /\ native' = [r \in Ranks |-> [native[r] EXCEPT ![l] = goal]]
  BY DEF NativeApply
<1>2. UNCHANGED <<goal, base, alone, phase, snap, sealed, python, coord, saved, outer, kept, broken>>
  BY <1>1 DEF NativeApply, Stops, Onward
<1>3. l \in Nat /\ NumLayouts \in Nat /\ l >= 1 /\ l <= NumLayouts
  BY RestartAssumption DEF Layouts
<1>4. TypeOK'
  <2>1. /\ at' \in [Ranks -> 0 .. NumLayouts + 1] /\ err' \in [Ranks -> BOOLEAN]
        /\ stage' \in [Ranks -> {"run", "lane", "world"}]
    BY <1>0, <1>1, LoopTypes
  <2>2. native' \in [Ranks -> [Layouts -> Versions]]
    <3>1. goal \in Versions
      BY <1>0 DEF TypeOK, Versions
    <3>2. native' = native \/ native' = [r \in Ranks |-> [native[r] EXCEPT ![l] = goal]]
      BY <1>1
    <3>3. native \in [Ranks -> [Layouts -> Versions]]
      BY <1>0 DEF TypeOK
    <3>4. CASE native' = [r \in Ranks |-> [native[r] EXCEPT ![l] = goal]]
      BY <3>1, <3>3, <3>4
    <3> QED BY <3>2, <3>3, <3>4
  <2> QED BY <1>0, <1>1, <1>2, <2>1, <2>2 DEF TypeOK, MayFail, Fail
<1>5. \A r \in Ranks : Stretch(r)' = "apply"
  BY <1>0, <1>2 DEF Stretch, Undone
<1>6. ASSUME NEW v \in Nat, NEW r \in Ranks, Solo(r, v) PROVE Solo(r, v)'
  <2>1. python[r] = Layouts
    BY <1>0, <1>6 DEF Solo, Snapshots
  <2>2. \A m \in Layouts : Layout(r, m, v)'
    BY <1>0, <1>2, <1>6, <2>1 DEF Solo, Layout, Begun
  <2>3. stage'[r] \in {"run", "world"} /\ (stage'[r] = "world" => err'[r])
    BY <1>0, <1>1 DEF Stops, Onward
  <2>4. Written(r)'
    <3>1. ASSUME stage'[r] = "run"
          PROVE  at'[r] = l + 1 /\ \A m \in Layouts : m <= l => native'[r][m] = goal
      <4>1. /\ at' = [s \in Ranks |-> l + 1]
            /\ native' = [s \in Ranks |-> [native[s] EXCEPT ![l] = goal]]
        BY <1>1, <3>1 DEF Stops, Onward
      <4>2. \A m \in Layouts : m < l => native[r][m] = goal
        BY <1>0, <1>6 DEF Solo, Written
      <4>3. \A m \in Layouts : m <= l => m < l \/ m = l
        BY <1>3 DEF Layouts
      <4> QED BY <1>0, <4>1, <4>2, <4>3 DEF TypeOK
    <3>2. \A m \in Layouts : m < l + 1 => m <= l
      BY <1>3 DEF Layouts
    <3> QED BY <1>0, <1>2, <1>3, <2>3, <3>1, <3>2 DEF Written
  <2>5. Coordinator(r, v)'
    BY <1>0, <1>2, <1>6 DEF Solo, Coordinator, Version, Closed, Undone
  <2> QED
    BY <1>0, <1>2, <1>6, <2>2, <2>3, <2>4, <2>5 DEF Solo, Snapshots, Envelope, Waiting, Closed
<1> QED BY <1>2, <1>4, <1>5, <1>6, JointStep

\* All ranks commit a layout, or none of them goes on.
LEMMA NativeCommitStep ==
  ASSUME IndInv, NEW l \in Layouts, NativeCommit(l)
  PROVE  IndInv'
<1> USE DEF coordinator, envelope
<1>0. TypeOK /\ \A r \in Ranks : stage[r] = "lane" /\ at[r] = l /\ phase[r] = "commit"
  BY DEF IndInv, NativeCommit, Meet
<1>1. PICK fails \in BOOLEAN :
        /\ MayFail(fails)
        /\ \/ Stops /\ UNCHANGED sealed
           \/ Onward(l) /\ sealed' = [r \in Ranks |-> sealed[r] \cup {l}]
  BY DEF NativeCommit
<1>2. UNCHANGED <<goal, base, alone, phase, native, snap, python, coord, saved, outer, kept, broken>>
  BY <1>1 DEF NativeCommit, Stops, Onward
<1>3. l \in Nat /\ NumLayouts \in Nat /\ l >= 1 /\ l <= NumLayouts
  BY RestartAssumption DEF Layouts
<1>4. TypeOK'
  <2>1. /\ at' \in [Ranks -> 0 .. NumLayouts + 1] /\ err' \in [Ranks -> BOOLEAN]
        /\ stage' \in [Ranks -> {"run", "lane", "world"}]
    BY <1>0, <1>1, LoopTypes
  <2>2. sealed' \in [Ranks -> SUBSET Layouts]
    BY <1>0, <1>1 DEF TypeOK
  <2> QED BY <1>0, <1>1, <1>2, <2>1, <2>2 DEF TypeOK, MayFail, Fail
<1>5. \A r \in Ranks : Stretch(r)' = "commit"
  BY <1>0, <1>2 DEF Stretch, Undone
<1>6. ASSUME NEW v \in Nat, NEW r \in Ranks, Solo(r, v) PROVE Solo(r, v)'
  <2>1. python[r] = Layouts
    BY <1>0, <1>6 DEF Solo, Snapshots
  <2>2. \A m \in Layouts : Layout(r, m, v)'
    BY <1>0, <1>2, <1>6, <2>1 DEF Solo, Layout, Begun
  <2>3. \/ stage'[r] = "world" /\ err'[r]
        \/ /\ stage'[r] = (IF l = NumLayouts THEN "world" ELSE "run")
           /\ at'[r] = l + 1 /\ sealed'[r] = sealed[r] \cup {l}
    BY <1>0, <1>1 DEF Stops, Onward
  <2>4. Written(r)'
    <3>1. 1 .. l - 1 \subseteq sealed[r] /\ \A m \in Layouts : native[r][m] = goal
      BY <1>0, <1>6 DEF Solo, Written
    <3>2. ASSUME sealed'[r] = sealed[r] \cup {l} PROVE 1 .. l \subseteq sealed'[r]
      BY <1>3, <3>1, <3>2
    <3>3. CASE stage'[r] = "world" /\ err'[r]
      BY <1>0, <1>2, <3>1, <3>3 DEF Written
    <3>4. CASE stage'[r] = "world" /\ l = NumLayouts /\ 1 .. l \subseteq sealed'[r]
      BY <1>0, <1>2, <3>1, <3>4 DEF Written, Layouts
    <3>5. CASE stage'[r] = "run" /\ l # NumLayouts /\ at'[r] = l + 1 /\ 1 .. l \subseteq sealed'[r]
      <4>1. at'[r] \in Layouts /\ 1 .. at'[r] - 1 \subseteq sealed'[r]
        BY <1>3, <3>5 DEF Layouts
      <4> QED BY <1>0, <1>2, <3>1, <3>5, <4>1 DEF Written
    <3> QED BY <2>3, <3>2, <3>3, <3>4, <3>5
  <2>5. Coordinator(r, v)'
    BY <1>0, <1>2, <1>6 DEF Solo, Coordinator, Version, Closed, Undone
  <2> QED
    BY <1>0, <1>2, <1>6, <2>2, <2>3, <2>4, <2>5 DEF Solo, Snapshots, Envelope, Waiting, Closed
<1> QED BY <1>2, <1>4, <1>5, <1>6, JointStep

\* All ranks restore the snapshot of a layout; where that raises the layout is
\* marked and keeps its transaction.
LEMMA NativeRollbackStep ==
  ASSUME IndInv, NEW l \in Layouts, NativeRollback(l)
  PROVE  IndInv'
<1> USE DEF coordinator, envelope
<1>0. TypeOK /\ \A r \in Ranks : stage[r] = "lane" /\ at[r] = l /\ phase[r] \in {"undo", "rollback"}
  BY DEF IndInv, NativeRollback, Meet
<1>1. PICK w \in Nat : \A r \in Ranks : Solo(r, w)
  BY DEF IndInv
<1>2. l \in Nat /\ NumLayouts \in Nat /\ l >= 1 /\ l <= NumLayouts /\ w # None
  BY RestartAssumption DEF Layouts
<1>3. \A r \in Ranks : l \in python[r] /\ python[r] \subseteq 1 .. l
  <2> SUFFICES ASSUME NEW r \in Ranks PROVE l \in python[r] /\ python[r] \subseteq 1 .. l
    OBVIOUS
  <2>1. Snapshots(r) /\ stage[r] = "lane" /\ at[r] = l /\ phase[r] \in {"undo", "rollback"}
    BY <1>0, <1>1 DEF Solo
  <2> QED BY ONLY <2>1 DEF Snapshots
<1>4. \A r \in Ranks : Begun(r) = python[r]
  BY <1>0 DEF Begun
<1>5. \A r \in Ranks : snap[r][l] = w
  BY <1>1, <1>3, <1>4 DEF Solo, Layout
<1>6. PICK F \in SUBSET Ranks :
        /\ Fail(Cardinality(F))
        /\ native' = [r \in Ranks |-> [native[r] EXCEPT ![l] = IF r \in F THEN Torn ELSE snap[r][l]]]
        /\ snap' = [r \in Ranks |-> [snap[r] EXCEPT ![l] =
                        IF r \notin Keeping(l, F) THEN None ELSE IF l \in AMRLayouts THEN @ ELSE Torn]]
        /\ sealed' = [r \in Ranks |-> IF r \in F /\ l \notin AMRLayouts
                                      THEN sealed[r] ELSE sealed[r] \ {l}]
        /\ broken' = [r \in Ranks |-> broken[r] \cup (IF r \in Keeping(l, F) THEN {l} ELSE {})]
        /\ err' = [r \in Ranks |-> err[r] \/ r \in Keeping(l, F)]
  BY <1>2, <1>5 DEF NativeRollback
<1>7. /\ UNCHANGED <<goal, base, alone, phase, coord, saved, outer, kept>>
      /\ python' = [r \in Ranks |-> python[r] \ {l}]
      /\ at' = [r \in Ranks |-> l - 1] /\ stage' = [r \in Ranks |-> "run"]
  BY DEF NativeRollback, Remaining
<1>8. F \subseteq Keeping(l, F) /\ Keeping(l, F) \subseteq Ranks
  BY DEF Keeping
<1>9. TypeOK'
  <2>1. faults' \in 0 .. MaxFaults
    <3>1. IsFiniteSet(F)
      BY RestartAssumption, FS_Subset
    <3>2. Cardinality(F) \in Nat
      BY <3>1, FS_CardinalityType
    <3> QED BY <1>0, <1>6, <3>2, RestartAssumption DEF TypeOK, Fail
  <2>2. at' \in [Ranks -> 0 .. NumLayouts + 1]
    BY <1>2, <1>7
  <2>3. native' \in [Ranks -> [Layouts -> Versions]]
    BY <1>0, <1>2, <1>5, <1>6 DEF TypeOK, Versions
  <2>4. snap' \in [Ranks -> [Layouts -> Versions \cup {None}]]
    BY <1>0, <1>6 DEF TypeOK, Versions
  <2>5. sealed' \in [Ranks -> SUBSET Layouts] /\ err' \in [Ranks -> BOOLEAN]
    BY <1>0, <1>6 DEF TypeOK
  <2>6. broken' \in [Ranks -> SUBSET (0 .. NumLayouts)]
    <3>1. l \in 0 .. NumLayouts
      BY <1>2
    <3> QED BY <1>0, <1>6, <3>1 DEF TypeOK
  <2> QED BY <1>0, <1>7, <2>1, <2>2, <2>3, <2>4, <2>5, <2>6 DEF TypeOK
<1>10. \A r \in Ranks : Stretch(r)' = Stretch(r)
  BY <1>0, <1>7 DEF Stretch, Undone
<1>11. ASSUME NEW v \in Nat, NEW r \in Ranks, Solo(r, v) PROVE Solo(r, v)'
  <2>1. python'[r] = python[r] \ {l} /\ at'[r] = l - 1 /\ stage'[r] = "run" /\ phase'[r] = phase[r]
    BY <1>7
  <2>2. Begun(r)' = python[r] \ {l}
    BY <1>0, <2>1 DEF Begun
  <2>3. broken'[r] = broken[r] \cup (IF r \in Keeping(l, F) THEN {l} ELSE {})
    BY <1>6
  <2>4. snap[r][l] = v /\ l \notin broken[r] /\ v # None
    BY <1>3, <1>4, <1>11, RestartAssumption DEF Solo, Layout
  <2>5. (Version(r, v) = v) /\ (Version(r, v)' = v)
    BY <1>0, <1>7 DEF Version
  <2>6. ASSUME NEW m \in Layouts PROVE Layout(r, m, v)'
    <3>1. CASE m # l
      <4>1. native'[r][m] = native[r][m] /\ snap'[r][m] = snap[r][m]
        BY <1>0, <1>6, <3>1 DEF TypeOK
      <4>2. (m \in sealed'[r] <=> m \in sealed[r]) /\ (m \in broken'[r] <=> m \in broken[r])
        BY <1>6, <3>1
      <4>3. m \in Begun(r)' <=> m \in Begun(r)
        BY <1>4, <2>2, <3>1
      <4>4. Layout(r, m, v)
        BY <1>11 DEF Solo
      <4> QED BY <2>5, <4>1, <4>2, <4>3, <4>4 DEF Layout
    <3>2. CASE m = l /\ r \in Keeping(l, F)
      <4>1. snap'[r][l] \in {v, Torn} /\ l \in broken'[r] /\ Torn # None
        BY <1>0, <1>6, <2>3, <2>4, <3>2, RestartAssumption DEF TypeOK
      <4> QED BY <2>2, <2>4, <3>2, <4>1 DEF Layout
    <3>3. CASE m = l /\ r \notin Keeping(l, F)
      <4>0. snap'[r] = [snap[r] EXCEPT ![l] = None]
        BY <1>6, <3>3
      <4>1. snap'[r][l] = None /\ native'[r][l] = v /\ l \notin sealed'[r]
        BY <1>0, <1>6, <1>8, <2>4, <3>3, <4>0 DEF TypeOK
      <4>2. l \notin broken'[r]
        BY <2>3, <2>4, <3>3
      <4> QED BY <2>2, <2>5, <3>3, <4>1, <4>2 DEF Layout
    <3> QED BY <3>1, <3>2, <3>3
  <2>7. Snapshots(r)'
    <3>1. python'[r] \subseteq 1 .. at'[r] /\ at'[r] \in 0 .. NumLayouts
      BY <1>2, <1>3, <2>1
    <3> QED BY <1>0, <2>1, <3>1 DEF Snapshots, Closed
  <2>8. Coordinator(r, v)'
    BY <1>0, <1>7, <1>11, <2>1, <2>5 DEF Solo, Coordinator, Closed, Undone
  <2>9. Envelope(r, v)'
    <3>1. 0 \in broken'[r] <=> 0 \in broken[r]
      BY <1>2, <2>3
    <3> QED BY <1>0, <1>7, <1>11, <2>1, <3>1 DEF Solo, Envelope
  <2> QED
    BY <1>0, <1>7, <1>11, <2>1, <2>6, <2>7, <2>8, <2>9 DEF Solo, Written, Waiting
<1>12. \A r \in Ranks, s \in Ranks : Stretch(r)' = Stretch(s)'
  BY <1>10 DEF IndInv
<1> QED BY <1>7, <1>9, <1>11, <1>12, JointStep

\* The decisions of the consensus, phase by phase.
LEMMA PhaseTable ==
  /\ DOMAIN Succeeds = {"policy", "protocol", "preflight", "prepareOuter", "begin",
                        "apply", "publish", "commit", "rollbackOuter", "rollback"}
  /\ Succeeds["policy"] = "protocol" /\ Succeeds["protocol"] = "preflight"
  /\ Succeeds["preflight"] = "prepareOuter" /\ Succeeds["prepareOuter"] = "begin"
  /\ Succeeds["begin"] = "apply" /\ Succeeds["apply"] = "publish"
  /\ Succeeds["publish"] = "commit" /\ Succeeds["commit"] = "finalize"
  /\ Succeeds["rollbackOuter"] = "rollback" /\ Succeeds["rollback"] = "raised"
  /\ \A p \in {"policy", "protocol", "preflight", "prepareOuter", "rollback"} : Fails[p] = "raised"
  /\ \A p \in {"publish", "commit"} : Fails[p] = "rollbackOuter"
  /\ \A p \in {"begin", "apply", "rollbackOuter"} : Fails[p] = "rollback"
BY DEF Succeeds, Fails

\* The consensus: every rank goes on to the same phase, the one it would choose
\* alone if no other rank had failed, or the compensation of its phase.
LEMMA ConsensusStep ==
  ASSUME IndInv, Consensus
  PROVE  IndInv'
<1> USE DEF engine, coordinator, envelope
<1>0. TypeOK /\ \A r \in Ranks : stage[r] = "world"
  BY DEF IndInv, Consensus
<1>1. PICK w \in Nat : \A r \in Ranks : Solo(r, w)
  BY DEF IndInv
<1>2. PICK failed \in BOOLEAN :
        /\ \A r \in Ranks : err[r] => failed
        /\ phase' = [r \in Ranks |-> IF failed THEN Fails[phase[r]] ELSE Succeeds[phase[r]]]
        /\ stage' = [r \in Ranks |-> IF failed /\ Undone(r) THEN "world" ELSE "run"]
        /\ at' = [r \in Ranks |-> IF (IF failed THEN Fails[phase[r]] ELSE Succeeds[phase[r]]) = "rollback"
                                  THEN NumLayouts ELSE 1]
        /\ faults' \in 0 .. MaxFaults
  <2>1. PICK differ \in BOOLEAN :
          /\ MayFail(differ)
          /\ LET failed == differ \/ \E r \in Ranks : err[r]
                 next(r) == IF failed THEN Fails[phase[r]] ELSE Succeeds[phase[r]]
             IN  /\ phase' = [r \in Ranks |-> next(r)]
                 /\ stage' = [r \in Ranks |-> IF failed /\ Undone(r) THEN "world" ELSE "run"]
                 /\ at' = [r \in Ranks |-> IF next(r) = "rollback" THEN NumLayouts ELSE 1]
    BY DEF Consensus
  <2>2. faults' \in 0 .. MaxFaults
    BY <1>0, <2>1, RestartAssumption DEF TypeOK, MayFail, Fail
  <2>3. (differ \/ \E r \in Ranks : err[r]) \in BOOLEAN
    OBVIOUS
  <2> QED BY <2>1, <2>2, <2>3
<1>3. /\ err' = [r \in Ranks |-> FALSE]
      /\ UNCHANGED <<goal, base, alone, native, snap, sealed, python, coord, saved, outer, kept, broken>>
  BY DEF Consensus
<1>4. \A r \in Ranks : phase[r] \in {"policy", "protocol", "preflight", "prepareOuter", "begin",
                                     "apply", "publish", "commit", "rollbackOuter", "rollback"}
  <2> SUFFICES ASSUME NEW r \in Ranks
               PROVE  phase[r] \in {"policy", "protocol", "preflight", "prepareOuter", "begin",
                                    "apply", "publish", "commit", "rollbackOuter", "rollback"}
    OBVIOUS
  <2>1. Waiting(r) /\ Snapshots(r)
    BY <1>1 DEF Solo
  <2> QED BY <1>0, <2>1 DEF TypeOK, Succeeds, Waiting, Snapshots
<1>5. \A r \in Ranks :
        /\ phase'[r] = (IF failed THEN Fails[phase[r]] ELSE Succeeds[phase[r]])
        /\ stage'[r] = (IF failed /\ Undone(r) THEN "world" ELSE "run")
        /\ at'[r] = (IF phase'[r] = "rollback" THEN NumLayouts ELSE 1)
        /\ ~err'[r]
  BY <1>2, <1>3
<1>6. TypeOK'
  <2>1. phase' \in [Ranks -> DOMAIN Succeeds \cup {"idle", "undo", "finalize", "returned", "raised"}]
    <3>1. \A r \in Ranks : phase'[r] \in DOMAIN Succeeds \cup {"finalize", "raised"}
      BY <1>4, <1>5, PhaseTable
    <3> QED BY <1>2, <3>1
  <2>2. at' \in [Ranks -> 0 .. NumLayouts + 1]
    <3>1. 1 \in 0 .. NumLayouts + 1 /\ NumLayouts \in 0 .. NumLayouts + 1
      BY RestartAssumption
    <3> QED BY <1>2, <3>1
  <2>3. stage' \in [Ranks -> {"run", "lane", "world"}] /\ err' \in [Ranks -> BOOLEAN]
    BY <1>2, <1>3
  <2> QED BY <1>0, <1>2, <1>3, <2>1, <2>2, <2>3 DEF TypeOK
<1>7. \A r \in Ranks, s \in Ranks : Stretch(r)' = Stretch(s)'
  <2>1. \A r \in Ranks : Stretch(r) = phase[r]
    BY <1>4 DEF Stretch
  <2>2. \A r \in Ranks, s \in Ranks : phase[r] = phase[s]
    BY <2>1 DEF IndInv
  <2>3. \A r \in Ranks, s \in Ranks : phase'[r] = phase'[s]
    BY <1>5, <2>2
  <2> QED BY <1>5, <2>3 DEF Stretch, Undone
<1>8. ASSUME NEW v \in Nat, NEW r \in Ranks, Solo(r, v) PROVE Solo(r, v)'
  <2>0. /\ phase'[r] = (IF failed THEN Fails[phase[r]] ELSE Succeeds[phase[r]])
        /\ stage'[r] = (IF failed /\ Undone(r) THEN "world" ELSE "run")
        /\ at'[r] = (IF phase'[r] = "rollback" THEN NumLayouts ELSE 1)
        /\ ~err'[r] /\ stage[r] = "world" /\ v # None /\ (err[r] => failed)
    BY <1>0, <1>2, <1>5, RestartAssumption
  <2>1. CASE phase[r] \in {"policy", "protocol", "preflight", "prepareOuter"}
    <3>1. /\ phase'[r] \in {"protocol", "preflight", "prepareOuter", "begin", "raised"}
          /\ (phase'[r] = "begin" => phase[r] = "prepareOuter" /\ ~err[r])
          /\ stage'[r] = "run" /\ at'[r] = 1
      BY <2>0, <2>1, PhaseTable DEF Undone
    <3>2. python[r] = {} /\ saved[r] = None /\ coord[r] = v /\ (outer[r] = v \/ 0 \in broken[r])
      BY <1>8, <2>1 DEF Solo, Snapshots, Coordinator, Envelope, Version, Closed
    <3>3. 1 \in Layouts /\ 1 .. 0 = {} /\ 1 - 1 = 0
      BY RestartAssumption DEF Layouts
    <3>4. Begun(r) = {} /\ Begun(r)' = {}
      BY <1>3, <2>1, <3>1, <3>2, <3>3 DEF Begun
    <3>5. \A m \in Layouts : Layout(r, m, v)'
      BY <1>3, <1>8, <2>1, <3>1, <3>4 DEF Solo, Layout, Version
    <3>6. Snapshots(r)'
      BY <1>3, <2>0, <3>1, <3>2, <3>3 DEF Snapshots, Closed
    <3>7. Coordinator(r, v)'
      BY <1>3, <2>0, <3>1, <3>2 DEF Coordinator, Version, Closed, Undone
    <3>8. Envelope(r, v)'
      BY <1>3, <1>8, <2>0, <2>1, <3>1, <3>2 DEF Solo, Envelope
    <3> QED BY <1>3, <1>8, <2>1, <3>1, <3>5, <3>6, <3>7, <3>8 DEF Solo, Written, Waiting
  <2>2. CASE phase[r] = "begin" /\ err[r]
    <3>1. phase'[r] = "rollback" /\ stage'[r] = "world" /\ python[r] = {}
      BY <1>8, <2>0, <2>2, PhaseTable DEF Undone, Solo, Snapshots
    <3>2. saved[r] = None /\ coord[r] = v /\ (outer[r] = v \/ 0 \in broken[r])
      BY <1>8, <2>2 DEF Solo, Coordinator, Envelope, Version, Undone
    <3>3. Begun(r) = {} /\ Begun(r)' = {}
      BY <1>3, <2>2, <3>1 DEF Begun
    <3>4. \A m \in Layouts : Layout(r, m, v)'
      BY <1>3, <1>8, <2>2, <3>1, <3>3 DEF Solo, Layout, Version
    <3>5. Snapshots(r)' /\ Coordinator(r, v)' /\ Envelope(r, v)'
      BY <1>3, <2>0, <3>1, <3>2 DEF Snapshots, Coordinator, Envelope, Version, Closed, Undone
    <3> QED BY <1>3, <1>8, <2>2, <3>1, <3>4, <3>5 DEF Solo, Written, Waiting
  <2>3. CASE /\ phase[r] \in {"begin", "apply", "publish", "commit", "rollbackOuter"}
             /\ ~(phase[r] = "begin" /\ err[r])
    <3>1. python[r] = Layouts /\ stage'[r] = "run"
      BY <1>8, <2>0, <2>3 DEF Solo, Snapshots, Undone
    <3>2. Begun(r) = Layouts /\ Begun(r)' = Layouts
      <4>1. phase'[r] # "begin"
        BY <2>0, <2>3, PhaseTable
      <4>2. phase[r] = "begin" => 1 .. at[r] - 1 = Layouts
        BY <1>8, <2>0, <2>3, RestartAssumption DEF Solo, Snapshots, Layouts
      <4> QED BY <1>3, <2>3, <3>1, <4>1, <4>2 DEF Begun
    <3>3. \A m \in Layouts : Layout(r, m, v)'
      BY <1>3, <1>8, <3>2 DEF Solo, Layout
    <3>4. saved[r] = v /\ (kept[r] = v \/ 0 \in broken[r])
      <4>1. 1 \in python[r]
        BY <3>1, RestartAssumption DEF Layouts
      <4> QED BY <1>8, <2>0, <2>3, <4>1 DEF Solo, Coordinator, Envelope, Closed, Undone
    <3>5. CASE phase'[r] = "rollback"
      <4>1. outer[r] = v \/ 0 \in broken[r]
        BY <1>8, <2>0, <2>3, <3>5, PhaseTable DEF Solo, Envelope
      <4>2. python[r] \subseteq 1 .. at'[r] /\ at'[r] \in 0 .. NumLayouts
        BY <2>0, <3>1, <3>5, RestartAssumption DEF Layouts
      <4>3. Snapshots(r)' /\ Coordinator(r, v)' /\ Envelope(r, v)'
        BY <1>3, <2>0, <3>1, <3>4, <3>5, <4>1, <4>2
        DEF Snapshots, Coordinator, Envelope, Version, Closed, Undone
      <4> QED BY <1>3, <1>8, <2>3, <3>1, <3>3, <3>5, <4>3 DEF Solo, Written, Waiting
    <3>6. CASE phase'[r] = "rollbackOuter"
      <4>1. Snapshots(r)' /\ Coordinator(r, v)' /\ Envelope(r, v)'
        BY <1>3, <2>0, <3>1, <3>4, <3>6
        DEF Snapshots, Coordinator, Envelope, Version, Closed, Undone
      <4> QED BY <1>3, <1>8, <2>3, <3>1, <3>3, <3>6, <4>1 DEF Solo, Written, Waiting
    <3>7. CASE phase'[r] = "apply"
      <4>1. phase[r] = "begin" /\ (outer[r] = v \/ 0 \in broken[r])
        BY <1>8, <2>0, <2>3, <3>7, PhaseTable DEF Solo, Envelope
      <4>2. at'[r] = 1 /\ 1 \in 1 .. NumLayouts + 1 /\ \A m \in Layouts : ~(m < 1)
        BY <2>0, <3>7, RestartAssumption DEF Layouts
      <4>3. Snapshots(r)' /\ Coordinator(r, v)' /\ Envelope(r, v)'
        BY <1>3, <2>0, <3>1, <3>4, <3>7, <4>1
        DEF Snapshots, Coordinator, Envelope, Version, Closed, Undone
      <4> QED BY <1>3, <1>8, <2>3, <3>1, <3>3, <3>7, <4>2, <4>3 DEF Solo, Written, Waiting
    <3>8. CASE phase'[r] = "publish"
      <4>1. phase[r] = "apply" /\ ~err[r]
        BY <2>0, <2>3, <3>8, PhaseTable
      <4>2. coord[r] = goal /\ \A m \in Layouts : native[r][m] = goal
        BY <1>8, <2>0, <4>1 DEF Solo, Written
      <4>3. Snapshots(r)' /\ Coordinator(r, v)' /\ Envelope(r, v)'
        BY <1>3, <2>0, <3>1, <3>4, <3>8, <4>2
        DEF Snapshots, Coordinator, Envelope, Version, Closed, Undone
      <4> QED BY <1>3, <1>8, <2>3, <3>1, <3>3, <3>8, <4>2, <4>3 DEF Solo, Written, Waiting
    <3>9. CASE phase'[r] = "commit"
      <4>1. phase[r] = "publish" /\ ~err[r]
        BY <2>0, <2>3, <3>9, PhaseTable
      <4>2. coord[r] = goal /\ outer[r] = goal /\ \A m \in Layouts : native[r][m] = goal
        BY <1>8, <2>0, <4>1 DEF Solo, Written, Coordinator, Envelope
      <4>3. at'[r] \in Layouts /\ 1 .. at'[r] - 1 \subseteq sealed'[r]
        BY <2>0, <3>9, RestartAssumption DEF Layouts
      <4>4. Snapshots(r)' /\ Coordinator(r, v)' /\ Envelope(r, v)'
        BY <1>3, <2>0, <3>1, <3>4, <3>9, <4>2
        DEF Snapshots, Coordinator, Envelope, Version, Closed, Undone
      <4> QED BY <1>3, <1>8, <2>3, <3>1, <3>3, <3>9, <4>2, <4>3, <4>4 DEF Solo, Written, Waiting
    <3>10. CASE phase'[r] = "finalize"
      <4>1. phase[r] = "commit" /\ ~err[r]
        BY <2>0, <2>3, <3>10, PhaseTable
      <4>2. /\ coord[r] = goal /\ outer[r] = goal /\ Layouts \subseteq sealed[r]
            /\ \A m \in Layouts : native[r][m] = goal
        BY <1>8, <2>0, <4>1 DEF Solo, Written, Coordinator, Envelope
      <4>3. broken[r] \subseteq {0}
        <5>1. broken[r] \subseteq 0 .. NumLayouts /\ \A m \in Layouts : m \notin broken[r]
          BY <1>0, <1>8, <3>2 DEF TypeOK, Solo, Layout
        <5> QED BY <5>1, RestartAssumption DEF Layouts
      <4>4. at'[r] = 1 /\ 1 \in Layouts /\ Layouts = 1 .. NumLayouts
        BY <2>0, <3>10, RestartAssumption DEF Layouts
      <4>5. Snapshots(r)' /\ Coordinator(r, v)' /\ Envelope(r, v)'
        BY <1>3, <2>0, <3>1, <3>4, <3>10, <4>2, <4>3, <4>4
        DEF Snapshots, Coordinator, Envelope, Version, Closed, Undone
      <4> QED BY <1>3, <1>8, <2>3, <3>1, <3>3, <3>10, <4>2, <4>5 DEF Solo, Written, Waiting
    <3> QED BY <2>0, <2>3, <3>5, <3>6, <3>7, <3>8, <3>9, <3>10, PhaseTable
  <2>4. CASE phase[r] = "rollback"
    <3>1. phase'[r] = "raised" /\ stage'[r] = "run" /\ python[r] = {}
      BY <1>8, <2>0, <2>4, PhaseTable DEF Solo, Snapshots, Undone
    <3>2. saved[r] = None /\ coord[r] = v /\ (outer[r] = v \/ 0 \in broken[r])
      BY <1>8, <2>0, <2>4 DEF Solo, Coordinator, Envelope, Version
    <3>3. Begun(r) = {} /\ Begun(r)' = {}
      BY <1>3, <2>4, <3>1 DEF Begun
    <3>4. \A m \in Layouts : Layout(r, m, v)'
      BY <1>3, <1>8, <2>4, <3>1, <3>3 DEF Solo, Layout, Version
    <3>5. Snapshots(r)' /\ Coordinator(r, v)' /\ Envelope(r, v)'
      BY <1>3, <2>0, <3>1, <3>2 DEF Snapshots, Coordinator, Envelope, Version, Closed, Undone
    <3> QED BY <1>3, <1>8, <2>4, <3>1, <3>4, <3>5 DEF Solo, Written, Waiting
  <2> QED BY <1>4, <2>1, <2>2, <2>3, <2>4
<1> QED BY <1>3, <1>6, <1>7, <1>8, JointStep

\* Ranks rest together.
LEMMA SameRest ==
  ASSUME IndInv, Resting
  PROVE  (\A r \in Ranks : phase[r] = "returned") \/ (\A r \in Ranks : phase[r] # "returned")
<1>1. \A r \in Ranks : Stretch(r) = phase[r]
  BY DEF Resting, Stretch, Undone
<1> QED BY <1>1 DEF IndInv

\* A new call starts from the version that the last one left.
LEMMA CallStep ==
  ASSUME IndInv, Call
  PROVE  IndInv'
<1> USE DEF engine, coordinator, envelope
<1>0. TypeOK /\ Resting /\ goal \in Nat
  BY DEF IndInv, Call, TypeOK
<1>1. PICK w \in Nat : w = base /\ \A r \in Ranks : Solo(r, w)
  BY DEF IndInv
<1>2. /\ goal' = goal + 1 /\ phase' = [r \in Ranks |-> "policy"] /\ alone' = {}
      /\ base' = IF \A r \in Ranks : phase[r] = "returned" THEN goal ELSE base
      /\ UNCHANGED <<stage, at, err, native, snap, sealed, python, coord, saved, outer, kept, broken>>
  BY DEF Call
<1>3. TypeOK'
  <2>1. goal' \in 0 .. MaxRestores /\ base' \in 0 .. MaxRestores
    BY <1>0, <1>2, RestartAssumption DEF Call, TypeOK
  <2>2. phase' \in [Ranks -> DOMAIN Succeeds \cup {"idle", "undo", "finalize", "returned", "raised"}]
    BY <1>2, PhaseTable
  <2> QED BY <1>0, <1>2, <2>1, <2>2 DEF TypeOK, Call
<1>4. \A r \in Ranks : Stretch(r)' = "policy"
  BY <1>2 DEF Stretch, Undone
<1>5. ASSUME NEW r \in Ranks, NEW v \in Nat, v = Version(r, w) PROVE Solo(r, v)'
  <2>1. phase[r] \in {"idle", "returned", "raised"} /\ phase'[r] = "policy" /\ stage[r] = "run"
    BY <1>0, <1>1, <1>2 DEF Resting, Solo, Waiting
  <2>2. python[r] = {} /\ saved[r] = None /\ coord[r] = v /\ (outer[r] = v \/ 0 \in broken[r])
    BY <1>1, <1>5, <2>1 DEF Solo, Snapshots, Coordinator, Envelope, Version, Closed
  <2>3. Begun(r) = {} /\ Begun(r)' = {}
    BY <1>2, <2>1, <2>2 DEF Begun
  <2>4. \A l \in Layouts : Layout(r, l, w)
    BY <1>1 DEF Solo
  <2>5. Version(r, v)' = v
    BY <2>1 DEF Version
  <2>6. \A l \in Layouts : Layout(r, l, v)'
    BY <1>2, <1>5, <2>3, <2>4, <2>5 DEF Layout
  <2>7. Snapshots(r)' /\ Coordinator(r, v)' /\ Envelope(r, v)'
    BY <1>2, <2>1, <2>2, <2>5 DEF Snapshots, Coordinator, Envelope, Closed, Undone
  <2>8. Written(r)' /\ Waiting(r)'
    BY <1>0, <1>2, <2>1 DEF Written, Waiting
  <2> QED BY <2>6, <2>7, <2>8 DEF Solo
<1>6. CASE \A r \in Ranks : phase[r] = "returned"
  <2>0. PICK g \in Nat : g = goal
    BY <1>0
  <2>1. \A r \in Ranks : Version(r, w) = g
    BY <1>6, <2>0 DEF Version
  <2>2. \A r \in Ranks : Solo(r, g)'
    BY <1>5, <2>1
  <2>3. g = base'
    BY <1>2, <1>6, <2>0
  <2> QED BY <1>3, <1>4, <2>2, <2>3 DEF IndInv
<1>7. CASE \A r \in Ranks : phase[r] # "returned"
  <2>1. \A r \in Ranks : Version(r, w) = w
    BY <1>0, <1>7 DEF Version, Resting
  <2>2. \A r \in Ranks : Solo(r, w)'
    BY <1>5, <2>1
  <2>3. w = base'
    <3>1. PICK r \in Ranks : TRUE
      BY RestartAssumption
    <3> QED BY <1>1, <1>2, <1>7, <3>1
  <2> QED BY <1>3, <1>4, <2>2, <2>3 DEF IndInv
<1> QED BY <1>0, <1>6, <1>7, SameRest
-----------------------------------------------------------------------------
(***************************************************************************)
(* The theorems                                                            *)
(***************************************************************************)

\* Before the first call every part holds version 0.
LEMMA IndInit == Init => IndInv
<1> SUFFICES ASSUME Init PROVE IndInv
  OBVIOUS
<1>1. TypeOK
  <2>1. /\ 0 \in 0 .. MaxRestores /\ 0 \in 0 .. MaxFaults /\ 1 \in 0 .. NumLayouts + 1
        /\ 0 \in Versions
    BY RestartAssumption DEF Versions
  <2> QED BY <2>1, PhaseTable DEF Init, TypeOK
<1>2. \A r \in Ranks : Stretch(r) = "idle"
  BY DEF Init, Stretch, Undone
<1>3. ASSUME NEW r \in Ranks PROVE Solo(r, 0)
  <2>1. \A l \in Layouts : Layout(r, l, 0)
    BY DEF Init, Layout, Begun, Version
  <2>2. Snapshots(r) /\ Coordinator(r, 0) /\ Envelope(r, 0)
    BY DEF Init, Snapshots, Coordinator, Envelope, Version, Closed, Undone
  <2> QED BY <2>1, <2>2 DEF Init, Solo, Written, Waiting
<1>4. base = 0
  BY DEF Init
<1> QED BY <1>1, <1>2, <1>3, <1>4 DEF IndInv

\* Every step keeps the invariant.
LEMMA IndStep == IndInv /\ [Next]_vars => IndInv'
<1> SUFFICES ASSUME IndInv, [Next]_vars PROVE IndInv'
  OBVIOUS
<1>1. CASE Call
  BY <1>1, CallStep
<1>2. CASE Collective
  BY <1>2, ConsensusStep, NativeBeginStep, NativeApplyStep, NativeCommitStep, NativeRollbackStep
  DEF Collective
<1>3. ASSUME NEW r \in Ranks, Local(r) PROVE IndInv'
  BY <1>3, ValidateStep, PrepareOuterStep, RestoreOuterStep, RollbackOuterStep, BeginChildStep,
     ApplyChildStep, ApplyCoordinatorStep, CommitChildStep, RollbackChildStep,
     RollbackCoordinatorStep, FinalizeStep
  DEF Local
<1>4. CASE UNCHANGED vars
  <2>1. goal' = goal /\ base' = base /\ \A s \in Ranks : Same(s)
    BY <1>4 DEF vars, engine, coordinator, envelope, Same
  <2>2. TypeOK'
    BY <1>4 DEF IndInv, TypeOK, vars, engine, coordinator, envelope
  <2>3. \A s \in Ranks : Stretch(s)' = Stretch(s) /\ \A v : Solo(s, v)' <=> Solo(s, v)
    BY <2>1, SameFacts
  <2>4. PICK v \in Nat : v = base /\ \A s \in Ranks : Solo(s, v)
    BY DEF IndInv
  <2>5. \A s \in Ranks : Solo(s, v)'
    BY <2>3, <2>4
  <2>6. \A s \in Ranks, t \in Ranks : Stretch(s)' = Stretch(t)'
    BY <2>3 DEF IndInv
  <2> QED BY <2>1, <2>2, <2>4, <2>5, <2>6 DEF IndInv
<1> QED BY <1>1, <1>2, <1>3, <1>4 DEF Next, Restore

\* The executor's loops stay within the layouts, every version is one that a
\* restore installed, and no rollback restores a snapshot that was never taken.
THEOREM TypeCorrect == Spec => []TypeOK
<1>1. IndInv => TypeOK
  BY DEF IndInv
<1> QED BY <1>1, IndInit, IndStep, PTL DEF Spec

\* For any number of ranks, layouts, restores and failures: a restore returns on
\* every rank with the checkpoint in every part, or raises on every rank with the
\* state before it in every part that could be rolled back.
THEOREM RestoresAreAtomic == Spec => []RestoreIsAtomic
<1>1. IndInv => RestoreIsAtomic
  <2> SUFFICES ASSUME IndInv, Resting PROVE RestoreIsAtomic
    BY DEF RestoreIsAtomic
  <2>1. PICK v \in Nat : v = base /\ \A r \in Ranks : Solo(r, v)
    BY DEF IndInv
  <2>2. goal \in Nat /\ \A r \in Ranks : python[r] = {} /\ saved[r] = None
    BY <2>1 DEF IndInv, TypeOK, Solo, Snapshots, Coordinator, Resting, Closed
  <2>3. \A r \in Ranks : Begun(r) = {}
    BY <2>2 DEF Begun, Resting
  <2>4. \A r \in Ranks : \A l \in Layouts \ broken[r] :
          native[r][l] = Version(r, v) /\ snap[r][l] = None /\ l \notin sealed[r]
    BY <2>1, <2>3 DEF Solo, Layout
  <2>5. CASE \A r \in Ranks : phase[r] = "returned"
    <3>1. \A r \in Ranks : coord[r] = goal /\ outer[r] = goal /\ broken[r] = {} /\ Version(r, v) = goal
      BY <2>1, <2>2, <2>5 DEF Solo, Snapshots, Coordinator, Envelope, Version
    <3>2. Holds(goal)
      BY <2>2, <2>4, <3>1 DEF Holds
    <3> QED BY <2>5, <3>1, <3>2 DEF RestoreIsAtomic
  <2>6. CASE \A r \in Ranks : phase[r] # "returned"
    <3>1. \A r \in Ranks : phase[r] \in {"idle", "raised"} /\ Version(r, v) = v
      BY <2>6 DEF Resting, Version
    <3>2. \A r \in Ranks : coord[r] = v /\ (outer[r] = v \/ 0 \in broken[r])
      BY <2>1, <2>2, <3>1 DEF Solo, Coordinator, Envelope
    <3>3. Holds(v)
      BY <2>2, <2>4, <3>1, <3>2 DEF Holds
    <3> QED BY <2>1, <3>1, <3>3 DEF RestoreIsAtomic
  <2> QED BY <2>5, <2>6, SameRest
<1> QED BY <1>1, IndInit, IndStep, PTL DEF Spec
=============================================================================
