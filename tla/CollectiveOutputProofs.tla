----------------------- MODULE CollectiveOutputProofs -----------------------
(***************************************************************************)
(* Proofs about CollectiveOutput for any number of ranks, samples,         *)
(* attempts and failures, in each parallel mode.                           *)
(***************************************************************************)
EXTENDS CollectiveOutput, FiniteSetTheorems, WellFoundedInduction, TLAPS

Staging == {"snapshot", "validate", "plan", "temporary", "owner",
            "descriptors", "native", "verify", "construct"}
Early == {"writer", "authority", "session", "snapshot", "validate", "plan"}
Cleaning == {"cleanup", "remove", "removed"}
Labels == {"preflight", "refused", "idle", "stage", "series", "finalize"}
          \cup Early \cup Staging \cup Cleaning \cup FileCalls

Types ==
  /\ mode \in {"root", "per_rank", "collective"} /\ sample \in Nat
  /\ label \in [Ranks -> Labels] /\ stage \in [Ranks -> {"run", "root"} \cup Blocked]
  /\ err \in [Ranks -> BOOLEAN] /\ staged \in [Ranks -> BOOLEAN]
  /\ created \in [Ranks -> BOOLEAN] /\ withdrawn \in [Ranks -> BOOLEAN]
  /\ temp \subseteq Owners /\ accepted \subseteq 0 .. sample

\* Ranks decide alike because they decide from the same evidence.
Alike(r) ==
  /\ label[r] = label[Root] /\ spent[r] = spent[Root] /\ withdrawn[r] = withdrawn[Root]
  /\ fin[r] = fin[Root]
  /\ mode = "collective" => staged[r] = staged[Root]

\* The finalizers of a rank are a record with these fields.
Shaped(r) == fin[r] = [queue |-> fin[r].queue, kept |-> fin[r].kept, after |-> fin[r].after]

\* Where a rank may wait, and where its peers may be then.
Place(r) ==
  /\ label[r] \notin FileCalls => stage[r] \in {"run", "gather"}
  /\ stage[r] = "root" => r = Root
  /\ stage[r] \in {"in", "root", "cast", "out"} => Meets(r)
  /\ label[r] \in Staging \cup Cleaning => mode = "collective"
  /\ label[r] \in {"cleanup", "removed"} => stage[r] = "gather"
  /\ label[r] = "stage" /\ mode = "collective" => stage[r] = "gather"

Meeting(r, s) ==
  /\ stage[r] = "in" => stage[s] \in {"run", "in"}
  /\ stage[r] \in {"root", "cast"} => stage[s] \in {"root", "cast"}
  /\ stage[r] = "out" => stage[s] = "out"
  /\ stage[r] = "gather" =>
       IF label[r] \in FileCalls /\ Meets(r) THEN stage[s] = "gather" ELSE stage[s] \in {"run", "gather"}

\* The rank has executed its call.
Acted(r) == stage[r] \in {"cast", "out", "gather"}

\* Who may have a temporary.
Temporaries(r) ==
  /\ label[r] \in {"preflight", "refused", "idle", "series", "finalize", "cleanup", "removed"} \cup Early
       => r \notin temp
  /\ label[r] = "temporary" =>
       /\ stage[r] = "run" => r \notin temp
       /\ stage[r] = "gather" /\ err[r] => r = Root /\ r \notin temp
  /\ label[r] = "remove" /\ stage[r] = "gather" => r \notin temp
  /\ label[r] = "stage" /\ r \in temp => staged[r] /\ stage[r] = "gather"
  /\ label[r] \in FileCalls /\ r \in temp => staged[r]
  /\ label[r] \in {"abort", "discard", "rollback"} /\ Acted(r) => r \notin temp
  /\ label[r] = "publish" /\ Acted(r) /\ ~err[r] => r \notin temp

\* What the rank's session promises.
Session(r) ==
  /\ label[r] = "stage" /\ stage[r] = "gather" /\ ~err[r] /\ r \in Owners => staged[r]
  /\ label[r] \in {"publish", "rollback"} /\ r \in Owners => staged[r]
  /\ mode # "collective" /\ staged[r] => r \in Owners
  /\ label[r] = "publish" /\ ~Acted(r) => ~created[r]
  /\ label[r] \notin {"publish", "rollback", "idle", "series", "finalize"} => ~created[r]
  /\ label[r] \in {"series", "finalize"} /\ fin[r].after = "prepare" => ~created[r]

\* All files of an accepted sample, none of another one.
Settled(s) ==
  IF s \in accepted THEN \A r \in Owners : <<s, r>> \in disk
  ELSE s \in dirty \/ \A r \in Ranks : <<s, r>> \notin disk

\* The file of a rank while its sample is being published or withdrawn.
Artifact(r) ==
  /\ label[r] = "publish" /\ Acted(r) /\ ~err[r] /\ r \in Owners => <<sample, r>> \in disk
  /\ label[r] \in {"publish", "rollback"} /\ <<sample, r>> \in disk => created[r] \/ sample \in dirty
  /\ label[r] = "rollback" /\ Acted(r) /\ ~err[r] /\ <<sample, r>> \in disk => sample \in dirty

Files ==
  /\ \A s \in Nat, r \in Ranks : <<s, r>> \in disk => r \in Owners
  /\ \A s \in Nat \ {sample} : Settled(s)
  /\ label[Root] \notin {"publish", "rollback"} => Settled(sample)
  /\ sample \in accepted =>
       \/ label[Root] = "idle"
       \/ label[Root] \in {"series", "finalize"} /\ fin[Root].after # "prepare"

IndInv ==
  /\ Types /\ Files
  /\ \A r \in Ranks :
       /\ Alike(r) /\ Shaped(r) /\ Place(r) /\ Temporaries(r) /\ Session(r) /\ Artifact(r)
       /\ \A s \in Ranks : Meeting(r, s)

\* The finalizers that the root still owns, the one it runs included.
Finalizers == [sample : Nat, series : BOOLEAN, writer : BOOLEAN]
Owned == Range(fin[Root].queue) \cup Range(fin[Root].kept)
Finalizing == {"series", "finalize"}

Records ==
  /\ index \in Seq(Nat) /\ dirty \subseteq 0 .. sample /\ disk \subseteq (0 .. sample) \X Ranks
  /\ fin[Root].queue \in Seq(Finalizers) /\ fin[Root].kept \in Seq(Finalizers)
  /\ fin[Root].queue # <<>> <=> label[Root] \in Finalizing
  /\ label[Root] = "series" => ~Head(fin[Root].queue).series
  /\ \A f \in Owned : ~f.series => HasSeries

\* What the catalogue says and, for an accepted sample that it does not list, who
\* will list it and that the list can still be extended by it.
Catalogue ==
  /\ \A i, j \in 1 .. Len(index) : i < j => index[i] < index[j]
  /\ \A s \in Listed : <<s, Root>> \in disk /\ s \in accepted \cup dirty
  /\ \A s \in accepted \ Listed : \A t \in Listed : t < s
  /\ HasSeries => \A s \in accepted \ Listed : \E f \in Owned : f.sample = s /\ ~f.series
  /\ label[Root] \in {"publish", "rollback"} /\ created[Root] => sample \notin Listed

\* A rank that has executed the call on the series: only the root can have failed.
SeriesCall(r) ==
  label[r] = "series" /\ stage[r] = "gather" =>
    IF r = Root THEN err[r] \/ Head(fin[r].queue).sample \in Listed ELSE ~err[r]

CatInv == Records /\ Catalogue /\ \A r \in Ranks : SeriesCall(r)
-----------------------------------------------------------------------------
(***************************************************************************)
(* A step of one rank                                                      *)
(***************************************************************************)

\* Everybody meets in a file call, or nobody does.
LEMMA MeetsAlike ==
  ASSUME IndInv, NEW r \in Ranks, NEW s \in Ranks
  PROVE  (Meets(r) <=> Meets(s)) /\ label[r] = label[s]
BY OutputAssumption DEF IndInv, Alike, Meets

\* Rank r waits for its peers after its own work, which leaves the rest of the
\* world and the state of its peers alone.
Works(r) ==
  /\ UNCHANGED <<mode, sample, label, spent, withdrawn, fin, accepted, dirty>>
  /\ \A s \in Ranks \ {r} :
       /\ stage'[s] = stage[s] /\ err'[s] = err[s]
       /\ staged'[s] = staged[s] /\ created'[s] = created[s]
       /\ s \in temp' <=> s \in temp
       /\ \A x \in Nat : <<x, s>> \in disk' <=> <<x, s>> \in disk
  /\ \A x \in Nat \ {sample} : <<x, r>> \in disk' <=> <<x, r>> \in disk
  /\ label[r] \notin {"publish", "rollback"} => disk' = disk
  /\ mode = "collective" => staged'[r] = staged[r]
  /\ \/ /\ stage[r] = "run" /\ stage'[r] = "gather"
        /\ ~(label[r] \in FileCalls /\ Meets(r))
     \/ stage[r] = "run" /\ stage'[r] = "in" /\ label[r] \in FileCalls /\ Meets(r)
     \/ stage[r] = "root" /\ stage'[r] = "cast"

\* A local call of one rank keeps the invariant when it keeps what is said of that rank.
LEMMA QuietStep ==
  ASSUME IndInv, Types', NEW r \in Ranks, Works(r),
         Temporaries(r)', Session(r)', Artifact(r)',
         \A x \in Nat : <<x, r>> \in disk' => r \in Owners
  PROVE  IndInv'
<1> USE DEF Works
<1>0. Types /\ Files /\ Root \in Ranks
  BY OutputAssumption DEF IndInv
<1>1. Owners' = Owners
  BY DEF Owners
<1>2. \A s \in Ranks : Meets(s)' <=> Meets(s)
  <2>1. CASE mode = "collective"
    BY <2>1 DEF Meets
  <2>2. CASE mode # "collective"
    BY <2>2 DEF Meets
  <2> QED BY <2>1, <2>2
<1>3. \A s \in Ranks : Alike(s)' /\ Shaped(s)'
  BY <1>0 DEF IndInv, Alike, Shaped
<1>4. ASSUME NEW s \in Ranks PROVE Place(s)'
  <2>1. Place(s)
    BY DEF IndInv
  <2>2. CASE s # r
    BY <1>2, <2>1, <2>2 DEF Place
  <2>3. CASE s = r
    BY <1>2, <2>1, <2>3, <1>0 DEF Place, Types
  <2> QED BY <2>2, <2>3
<1>5. ASSUME NEW s \in Ranks, NEW t \in Ranks PROVE Meeting(s, t)'
  <2>1. Meeting(s, t) /\ Meeting(t, s) /\ Place(s) /\ Place(t)
    BY DEF IndInv
  <2>2. (Meets(s) <=> Meets(t)) /\ label[s] = label[t]
    BY MeetsAlike
  <2>3. stage[s] \in {"run", "root"} \cup Blocked /\ stage[t] \in {"run", "root"} \cup Blocked
    BY <1>0 DEF Types
  <2>4. CASE s # r /\ t # r
    BY <1>2, <2>1, <2>4 DEF Meeting
  <2>5. CASE s = r /\ t = r
    BY <1>2, <2>5 DEF Meeting
  <2>6. CASE s = r /\ t # r
    BY <1>2, <2>1, <2>2, <2>3, <2>6 DEF Meeting, Place, Blocked
  <2>7. CASE s # r /\ t = r
    BY <1>2, <2>1, <2>2, <2>3, <2>7 DEF Meeting, Place, Blocked
  <2> QED BY <2>4, <2>5, <2>6, <2>7
<1>6. ASSUME NEW s \in Ranks PROVE Temporaries(s)' /\ Session(s)' /\ Artifact(s)'
  <2>1. CASE s = r
    BY <2>1
  <2>2. CASE s # r
    <3>1. Temporaries(s) /\ Session(s) /\ Artifact(s)
      BY DEF IndInv
    <3>2. <<sample, s>> \in disk' <=> <<sample, s>> \in disk
      BY <1>0, <2>2 DEF Types
    <3>3. Acted(s)' <=> Acted(s)
      BY <2>2 DEF Acted
    <3>4. Temporaries(s)'
      BY <2>2, <3>1, <3>3 DEF Temporaries
    <3>5. Session(s)'
      BY <1>1, <2>2, <3>1, <3>3 DEF Session
    <3>6. Artifact(s)'
      BY <1>1, <2>2, <3>1, <3>2, <3>3 DEF Artifact
    <3> QED BY <3>4, <3>5, <3>6
  <2> QED BY <2>1, <2>2
<1>7. Files'
  <2>1. \A x \in Nat, s \in Ranks : <<x, s>> \in disk' => s \in Owners'
    BY <1>0, <1>1 DEF Files
  <2>2. Owners \subseteq Ranks
    BY <1>0 DEF Owners
  <2>3. \A x \in Nat \ {sample} : \A s \in Ranks : <<x, s>> \in disk' <=> <<x, s>> \in disk
    OBVIOUS
  <2>4. \A x \in Nat \ {sample'} : Settled(x)'
    BY <1>0, <1>1, <2>2, <2>3 DEF Files, Settled
  <2>5. label[Root] = label[r]
    BY DEF IndInv, Alike
  <2>6. label'[Root] \notin {"publish", "rollback"} => Settled(sample)'
    BY <1>0, <1>1, <2>2, <2>5 DEF Files, Settled
  <2>7. (sample \in accepted =>
          \/ label[Root] = "idle"
          \/ label[Root] \in {"series", "finalize"} /\ fin[Root].after # "prepare")'
    BY <1>0 DEF Files
  <2> QED BY <2>1, <2>4, <2>6, <2>7 DEF Files
<1> QED BY <1>3, <1>4, <1>5, <1>6, <1>7 DEF IndInv

\* The names of the staging steps.
LEMMA StageNames == Range(StageSteps) = Staging
<1>1. DOMAIN StageSteps = {1, 2, 3, 4, 5, 6, 7, 8, 9}
  <2>1. DOMAIN StageSteps = 1 .. 9
    BY DEF StageSteps
  <2> QED BY <2>1
<1> QED BY <1>1 DEF Range, StageSteps, Staging

\* Calls that only read.
LEMMA CheckStep ==
  ASSUME IndInv, NEW r \in Ranks, Check(r)
  PROVE  IndInv'
<1> USE DEF session, files, verdicts
<1>0. Types /\ Files /\ Temporaries(r) /\ Session(r) /\ Place(r)
  BY DEF IndInv
<1>1. PICK l \in {"preflight", "writer", "authority", "session"} \cup (Staging \ {"temporary"}),
           fails \in BOOLEAN :
        label[r] = l /\ stage[r] = "run" /\ err' = [err EXCEPT ![r] = fails]
  BY StageNames DEF Check, Runs, Raises
<1>2. /\ stage' = [stage EXCEPT ![r] = "gather"]
      /\ UNCHANGED <<mode, sample, label, spent, staged, created, withdrawn, fin, temp, disk,
                     accepted, dirty>>
  BY DEF Check, Waits
<1>3. label[r] \notin FileCalls \cup {"stage", "remove", "temporary", "publish", "rollback"}
  BY <1>1 DEF FileCalls, Staging
<1>4. Types'
  BY <1>0, <1>1, <1>2 DEF Types, Owners, Blocked
<1>5. Works(r)
  BY <1>0, <1>1, <1>2, <1>3 DEF Works, Types
<1>6. Temporaries(r)' /\ Session(r)' /\ Artifact(r)'
  BY <1>0, <1>2, <1>3 DEF Temporaries, Session, Artifact, Owners, FileCalls
<1>7. \A x \in Nat : <<x, r>> \in disk' => r \in Owners
  BY <1>0, <1>2 DEF Files
<1> QED BY <1>4, <1>5, <1>6, <1>7, QuietStep

\* The root creates the shared temporary.
LEMMA CreateTemporaryStep ==
  ASSUME IndInv, NEW r \in Ranks, CreateTemporary(r)
  PROVE  IndInv'
<1> USE DEF session, verdicts
<1>0. Types /\ Files /\ Temporaries(r) /\ Session(r) /\ Place(r)
  BY DEF IndInv
<1>1. PICK fails \in BOOLEAN :
        /\ (fails => r = Root) /\ err' = [err EXCEPT ![r] = fails]
        /\ temp' = IF r = Root /\ ~fails THEN temp \cup {r} ELSE temp
  BY DEF CreateTemporary, Raises
<1>2. /\ label[r] = "temporary" /\ stage[r] = "run" /\ stage' = [stage EXCEPT ![r] = "gather"]
      /\ UNCHANGED <<mode, sample, label, spent, staged, created, withdrawn, fin, disk,
                     accepted, dirty>>
  BY DEF CreateTemporary, Waits, Runs
<1>3. mode = "collective"
  BY <1>0, <1>2 DEF Place, Staging
<1>4. Types'
  BY <1>0, <1>1, <1>2, <1>3 DEF Types, Owners, Blocked
<1>5. Works(r)
  BY <1>0, <1>1, <1>2 DEF Works, Types, FileCalls
<1>6. Temporaries(r)'
  <2>1. err'[r] = fails /\ (fails => r \notin temp')
    BY <1>0, <1>1, <1>2 DEF Types, Temporaries
  <2> QED BY <1>0, <1>1, <1>2, <2>1 DEF Temporaries, Types, FileCalls, Early
<1>7. Session(r)' /\ Artifact(r)'
  BY <1>0, <1>2 DEF Session, Artifact, Owners
<1>8. \A x \in Nat : <<x, r>> \in disk' => r \in Owners
  BY <1>0, <1>2 DEF Files
<1> QED BY <1>4, <1>5, <1>6, <1>7, <1>8, QuietStep

\* The root removes it after a failure.
LEMMA CollectiveRemoveStep ==
  ASSUME IndInv, NEW r \in Ranks, CollectiveRemove(r)
  PROVE  IndInv'
<1> USE DEF session, verdicts
<1>0. Types /\ Files /\ Temporaries(r) /\ Session(r) /\ Place(r)
  BY DEF IndInv
<1>1. PICK fails \in BOOLEAN :
        /\ err' = [err EXCEPT ![r] = fails]
        /\ temp' = IF r = Root THEN temp \ {r} ELSE temp
  BY DEF CollectiveRemove, Raises, Removed
<1>2. /\ label[r] = "remove" /\ stage[r] = "run" /\ stage' = [stage EXCEPT ![r] = "gather"]
      /\ UNCHANGED <<mode, sample, label, spent, staged, created, withdrawn, fin, disk,
                     accepted, dirty>>
  BY DEF CollectiveRemove, Waits, Runs
<1>3. Owners = {Root}
  BY <1>0, <1>2 DEF Place, Cleaning, Owners
<1>4. Types'
  BY <1>0, <1>1, <1>2 DEF Types, Owners, Blocked
<1>5. Works(r)
  BY <1>0, <1>1, <1>2 DEF Works, Types, FileCalls
<1>6. Temporaries(r)'
  <2>1. r \notin temp'
    BY <1>0, <1>1, <1>3 DEF Types
  <2> QED BY <1>2, <2>1 DEF Temporaries, FileCalls, Early
<1>7. Session(r)' /\ Artifact(r)'
  BY <1>0, <1>2 DEF Session, Artifact, Owners
<1>8. \A x \in Nat : <<x, r>> \in disk' => r \in Owners
  BY <1>0, <1>2 DEF Files
<1> QED BY <1>4, <1>5, <1>6, <1>7, <1>8, QuietStep

\* A writer without a communicator stages its file.
LEMMA StageFileStep ==
  ASSUME IndInv, NEW r \in Ranks, StageFile(r)
  PROVE  IndInv'
<1> USE DEF verdicts
<1>0. Types /\ Files /\ Temporaries(r) /\ Session(r) /\ Place(r)
  BY DEF IndInv
<1>1. PICK fails \in BOOLEAN :
        /\ err' = [err EXCEPT ![r] = fails]
        /\ temp' = IF r \in Owners /\ ~fails THEN temp \cup {r} ELSE temp
        /\ staged' = [staged EXCEPT ![r] = (r \in Owners /\ ~fails)]
  BY DEF StageFile, Raises
<1>2. /\ label[r] = "stage" /\ stage[r] = "run" /\ stage' = [stage EXCEPT ![r] = "gather"]
      /\ UNCHANGED <<mode, sample, label, spent, created, withdrawn, fin, disk, accepted, dirty>>
  BY DEF StageFile, Waits, Runs
<1>3. mode # "collective" /\ r \notin temp
  BY <1>0, <1>2 DEF Place, Temporaries
<1>4. Types'
  BY <1>0, <1>1, <1>2 DEF Types, Owners, Blocked
<1>5. Works(r)
  BY <1>0, <1>1, <1>2, <1>3 DEF Works, Types, FileCalls
<1>6. /\ stage'[r] = "gather" /\ err'[r] = fails /\ staged'[r] = (r \in Owners /\ ~fails)
      /\ r \in temp' <=> r \in Owners /\ ~fails
  BY <1>0, <1>1, <1>2, <1>3 DEF Types
<1>7. Temporaries(r)'
  BY <1>0, <1>2, <1>6 DEF Temporaries, FileCalls, Early
<1>8. Session(r)' /\ Artifact(r)'
  BY <1>0, <1>2, <1>6 DEF Session, Artifact, Owners
<1>9. \A x \in Nat : <<x, r>> \in disk' => r \in Owners
  BY <1>0, <1>2 DEF Files
<1> QED BY <1>4, <1>5, <1>7, <1>8, <1>9, QuietStep

\* A rank enters the barrier of a call on the shared file.
LEMMA EnterBarrierStep ==
  ASSUME IndInv, NEW r \in Ranks, EnterBarrier(r)
  PROVE  IndInv'
<1> USE DEF session, files, verdicts
<1>0. Types /\ Files /\ Temporaries(r) /\ Session(r) /\ Artifact(r)
  BY DEF IndInv
<1>1. /\ label[r] \in FileCalls /\ Meets(r) /\ stage[r] = "run"
      /\ stage' = [stage EXCEPT ![r] = "in"]
      /\ UNCHANGED <<mode, sample, label, err, spent, staged, created, withdrawn, fin, temp, disk,
                     accepted, dirty>>
  BY DEF EnterBarrier, Waits, Runs
<1>2. Types'
  BY <1>0, <1>1 DEF Types, Owners, Blocked
<1>3. Works(r)
  BY <1>0, <1>1 DEF Works, Types
<1>4. stage'[r] = "in" /\ ~Acted(r)' /\ ~Acted(r) /\ Owners' = Owners
  BY <1>0, <1>1 DEF Types, Acted, Owners
<1>5. Temporaries(r)' /\ Session(r)' /\ Artifact(r)'
  <2>1. Temporaries(r)'
    BY <1>0, <1>1, <1>4 DEF Temporaries, FileCalls
  <2>2. Session(r)'
    BY <1>0, <1>1, <1>4 DEF Session, FileCalls
  <2>3. Artifact(r)'
    BY <1>0, <1>1, <1>4 DEF Artifact
  <2> QED BY <2>1, <2>2, <2>3
<1>6. \A x \in Nat : <<x, r>> \in disk' => r \in Owners
  BY <1>0, <1>1 DEF Files
<1> QED BY <1>2, <1>3, <1>5, <1>6, QuietStep

\* A rank that executes a file call waits for the broadcast or for the gather.
LEMMA ActsFacts ==
  ASSUME IndInv, NEW r \in Ranks, NEW l \in FileCalls, Acts(r, l)
  PROVE  /\ label[r] = l /\ stage'[r] \in {"cast", "gather"} /\ Acted(r)' /\ ~Acted(r)
         /\ stage' \in [Ranks -> {"run", "root"} \cup Blocked]
         /\ \A s \in Ranks \ {r} : stage'[s] = stage[s]
         /\ \/ /\ stage[r] = "run" /\ stage'[r] = "gather"
               /\ ~(label[r] \in FileCalls /\ Meets(r))
            \/ stage[r] = "root" /\ stage'[r] = "cast"
BY DEF IndInv, Types, Acts, Waits, Acted, Blocked

\* Nothing is staged on the rank.
LEMMA SkipStep ==
  ASSUME IndInv, NEW r \in Ranks, Skip(r)
  PROVE  IndInv'
<1> USE DEF session, files, verdicts
<1>0. Types /\ Files /\ Temporaries(r) /\ Session(r) /\ Artifact(r) /\ Place(r)
  BY DEF IndInv
<1>1. PICK l \in FileCalls : Acts(r, l)
  BY DEF Skip
<1>2. /\ ~staged[r] /\ err' = [err EXCEPT ![r] = FALSE]
      /\ UNCHANGED <<mode, sample, label, spent, staged, created, withdrawn, fin, temp, disk,
                     accepted, dirty>>
  BY DEF Skip, Raises
<1>3. Types'
  BY <1>0, <1>1, <1>2, ActsFacts DEF Types, Owners
<1>4. Works(r)
  BY <1>0, <1>1, <1>2, ActsFacts DEF Works, Types
<1>5. r \notin temp /\ (label[r] \in {"publish", "rollback"} => r \notin Owners)
  BY <1>0, <1>1, <1>2, ActsFacts DEF Temporaries, Session
<1>6. Owners' = Owners /\ Owners \subseteq Ranks
  BY <1>2, OutputAssumption DEF Owners
<1>7. label[r] \in {"publish", "rollback"} => <<sample, r>> \notin disk
  BY <1>0, <1>5 DEF Files, Types
<1>8. Temporaries(r)' /\ Session(r)' /\ Artifact(r)'
  BY <1>0, <1>1, <1>2, <1>5, <1>6, <1>7, ActsFacts DEF Temporaries, Session, Artifact, FileCalls
<1>9. \A x \in Nat : <<x, r>> \in disk' => r \in Owners
  BY <1>0, <1>2 DEF Files
<1> QED BY <1>3, <1>4, <1>8, <1>9, QuietStep

\* A staged file is discarded, or its removal fails and is reported.
LEMMA DiscardStep ==
  ASSUME IndInv, NEW r \in Ranks, Discard(r)
  PROVE  IndInv'
<1> USE DEF session, verdicts
<1>0. Types /\ Files /\ Temporaries(r) /\ Session(r) /\ Artifact(r) /\ Place(r)
  BY DEF IndInv
<1>1. PICK l \in {"abort", "discard"} : Acts(r, l)
  BY DEF Discard
<1>2. l \in FileCalls
  BY DEF FileCalls
<1>3. PICK fails \in BOOLEAN : err' = [err EXCEPT ![r] = fails] /\ temp' = temp \ {r}
  BY DEF Discard, Raises, Removed
<1>4. UNCHANGED <<mode, sample, label, spent, staged, created, withdrawn, fin, disk,
                  accepted, dirty>>
  BY DEF Discard
<1>5. Types'
  BY <1>0, <1>1, <1>2, <1>3, <1>4, ActsFacts DEF Types, Owners
<1>6. Works(r)
  BY <1>0, <1>1, <1>2, <1>3, <1>4, ActsFacts DEF Works, Types
<1>7. Temporaries(r)' /\ Session(r)' /\ Artifact(r)'
  BY <1>0, <1>1, <1>2, <1>3, <1>4, ActsFacts DEF Temporaries, Session, Artifact, Owners
<1>8. \A x \in Nat : <<x, r>> \in disk' => r \in Owners
  BY <1>0, <1>4 DEF Files
<1> QED BY <1>5, <1>6, <1>7, <1>8, QuietStep

\* Only a writer has a staged file that it executes calls on.
LEMMA ActorOwns ==
  ASSUME IndInv, NEW r \in Ranks, NEW l \in FileCalls, Acts(r, l), staged[r]
  PROVE  r \in Owners
<1>1. CASE mode = "collective"
  <2>1. Meets(r)
    BY <1>1 DEF Meets
  <2>2. stage[r] = "root" /\ r = Root
    BY <2>1 DEF Acts, IndInv, Place
  <2> QED BY <1>1, <2>2 DEF Owners
<1>2. CASE mode # "collective"
  BY <1>2 DEF IndInv, Session
<1> QED BY <1>1, <1>2

\* The file is linked at its target, or the call fails before or after that.
LEMMA PublishStep ==
  ASSUME IndInv, NEW r \in Ranks, Publish(r)
  PROVE  IndInv'
<1> USE DEF verdicts
<1>0. Types /\ Files /\ Temporaries(r) /\ Session(r) /\ Artifact(r) /\ Place(r)
  BY DEF IndInv
<1>1. Acts(r, "publish") /\ staged[r] /\ "publish" \in FileCalls
  BY DEF Publish, FileCalls
<1>2. r \in Owners
  BY <1>1, ActorOwns
<1>3. PICK fate \in {"done", "verify", "removal", "evidence"} :
        /\ err' = [err EXCEPT ![r] = fate # "done"]
        /\ IF fate = "verify"
           THEN UNCHANGED <<disk, created>>
           ELSE /\ disk' = disk \cup {<<sample, r>>}
                /\ created' = [created EXCEPT ![r] = <<sample, r>> \notin disk]
        /\ temp' = IF fate \in {"verify", "removal"} THEN temp ELSE temp \ {r}
  BY DEF Publish, Raises
<1>4. UNCHANGED <<mode, sample, label, spent, staged, withdrawn, fin, accepted, dirty>>
  BY DEF Publish
<1>5. /\ label[r] = "publish" /\ stage'[r] \in {"cast", "gather"} /\ Acted(r)' /\ ~Acted(r)
      /\ stage' \in [Ranks -> {"run", "root"} \cup Blocked]
      /\ \A s \in Ranks \ {r} : stage'[s] = stage[s]
      /\ \/ /\ stage[r] = "run" /\ stage'[r] = "gather"
            /\ ~(label[r] \in FileCalls /\ Meets(r))
         \/ stage[r] = "root" /\ stage'[r] = "cast"
  BY <1>1, ActsFacts
<1>6. Types'
  BY <1>0, <1>3, <1>4, <1>5 DEF Types, Owners
<1>7. Works(r)
  <2>1. \A s \in Ranks \ {r} : created'[s] = created[s] /\ err'[s] = err[s] /\ (s \in temp' <=> s \in temp)
    BY <1>0, <1>3 DEF Types
  <2>2. disk' = disk \/ disk' = disk \cup {<<sample, r>>}
    BY <1>3
  <2>3. \A s \in Ranks \ {r} : \A x \in Nat : <<x, s>> \in disk' <=> <<x, s>> \in disk
    BY <2>2
  <2>4. \A x \in Nat \ {sample} : <<x, r>> \in disk' <=> <<x, r>> \in disk
    BY <2>2
  <2> QED BY <1>4, <1>5, <2>1, <2>3, <2>4 DEF Works
<1>8. Temporaries(r)'
  BY <1>0, <1>1, <1>3, <1>4, <1>5 DEF Temporaries, Types, Early
<1>9. Session(r)'
  <2>1. Owners' = Owners
    BY <1>4 DEF Owners
  <2> QED BY <1>1, <1>2, <1>4, <1>5, <2>1 DEF Session
<1>10. Artifact(r)'
  <2>1. (err'[r] <=> fate # "done") /\ (fate # "verify" => (created'[r] <=> <<sample, r>> \notin disk))
    BY <1>0, <1>3 DEF Types
  <2>2. <<sample, r>> \in disk => created[r] \/ sample \in dirty
    BY <1>0, <1>5 DEF Artifact
  <2>3. CASE fate = "verify"
    BY <1>3, <1>4, <1>5, <2>1, <2>2, <2>3 DEF Artifact
  <2>4. CASE fate # "verify"
    <3>1. <<sample, r>> \in disk => sample \in dirty
      BY <1>0, <1>5, <2>2 DEF Session
    <3> QED BY <1>3, <1>4, <1>5, <2>1, <2>4, <3>1 DEF Artifact
  <2> QED BY <2>3, <2>4
<1>11. \A x \in Nat : <<x, r>> \in disk' => r \in Owners
  BY <1>2
<1> QED BY <1>6, <1>7, <1>8, <1>9, <1>10, <1>11, QuietStep

\* A target the session created is withdrawn, and its temporary with it; what
\* cannot be removed is reported.
LEMMA RollbackStep ==
  ASSUME IndInv, NEW r \in Ranks, Rollback(r)
  PROVE  IndInv'
<1> USE DEF session, verdicts
<1>0. Types /\ Files /\ Temporaries(r) /\ Session(r) /\ Artifact(r) /\ Place(r)
  BY DEF IndInv
<1>1. Acts(r, "rollback") /\ staged[r] /\ "rollback" \in FileCalls
  BY DEF Rollback, FileCalls
<1>2. PICK keepsTarget \in BOOLEAN, keepsTemp \in BOOLEAN :
        /\ err' = [err EXCEPT ![r] = (keepsTarget \/ keepsTemp)]
        /\ temp' = temp \ {r}
        /\ disk' = IF created[r] /\ ~keepsTarget THEN disk \ {<<sample, r>>} ELSE disk
  BY DEF Rollback, Raises, Removed
<1>3. UNCHANGED <<mode, sample, label, spent, staged, created, withdrawn, fin, accepted, dirty>>
  BY DEF Rollback
<1>4. /\ label[r] = "rollback" /\ stage'[r] \in {"cast", "gather"} /\ Acted(r)'
      /\ stage' \in [Ranks -> {"run", "root"} \cup Blocked]
      /\ \A s \in Ranks \ {r} : stage'[s] = stage[s]
      /\ \/ /\ stage[r] = "run" /\ stage'[r] = "gather"
            /\ ~(label[r] \in FileCalls /\ Meets(r))
         \/ stage[r] = "root" /\ stage'[r] = "cast"
  BY <1>1, ActsFacts
<1>5. Types'
  BY <1>0, <1>2, <1>3, <1>4 DEF Types, Owners
<1>6. Works(r)
  <2>1. \A s \in Ranks \ {r} : err'[s] = err[s] /\ (s \in temp' <=> s \in temp)
    BY <1>0, <1>2 DEF Types
  <2>2. disk' = disk \/ disk' = disk \ {<<sample, r>>}
    BY <1>2
  <2>3. \A s \in Ranks \ {r} : \A x \in Nat : <<x, s>> \in disk' <=> <<x, s>> \in disk
    BY <2>2
  <2>4. \A x \in Nat \ {sample} : <<x, r>> \in disk' <=> <<x, r>> \in disk
    BY <2>2
  <2> QED BY <1>3, <1>4, <2>1, <2>3, <2>4 DEF Works
<1>7. Temporaries(r)' /\ Session(r)'
  BY <1>0, <1>1, <1>2, <1>3, <1>4 DEF Temporaries, Session, Types, Early, Owners
<1>8. Artifact(r)'
  <2>1. err'[r] <=> keepsTarget \/ keepsTemp
    BY <1>0, <1>2 DEF Types
  <2>2. <<sample, r>> \in disk => created[r] \/ sample \in dirty
    BY <1>0, <1>4 DEF Artifact
  <2> QED BY <1>2, <1>3, <1>4, <2>1, <2>2 DEF Artifact
<1>9. \A x \in Nat : <<x, r>> \in disk' => r \in Owners
  BY <1>0, <1>2 DEF Files
<1> QED BY <1>5, <1>6, <1>7, <1>8, <1>9, QuietStep

\* The finalizers touch no file of a sample.
LEMMA FinalizerStep ==
  ASSUME IndInv, NEW r \in Ranks, PublishSeries(r) \/ FinalizeWriter(r)
  PROVE  IndInv'
<1> USE DEF session, files, verdicts
<1>0. Types /\ Files /\ Temporaries(r) /\ Session(r) /\ Place(r)
  BY DEF IndInv
<1>1. PICK fails \in BOOLEAN : err' = [err EXCEPT ![r] = fails]
  <2>1. CASE PublishSeries(r)
    <3>1. CASE r # Root
      BY <2>1, <3>1 DEF PublishSeries, Raises
    <3>2. CASE r = Root
      <4>1. \E fate \in {"done", "before", "late"} : err' = [err EXCEPT ![r] = fate # "done"]
        BY <2>1, <3>2 DEF PublishSeries, Raises
      <4> QED BY <4>1
    <3> QED BY <3>1, <3>2
  <2>2. CASE FinalizeWriter(r)
    BY <2>2 DEF FinalizeWriter, Raises
  <2> QED BY <2>1, <2>2
<1>2. /\ label[r] \in {"series", "finalize"} /\ stage[r] = "run"
      /\ stage' = [stage EXCEPT ![r] = "gather"]
      /\ UNCHANGED <<mode, sample, label, spent, staged, created, withdrawn, fin, temp, disk,
                     accepted, dirty>>
  BY DEF PublishSeries, FinalizeWriter, Waits, Runs
<1>3. Types'
  BY <1>0, <1>1, <1>2 DEF Types, Owners, Blocked
<1>4. Works(r)
  BY <1>0, <1>1, <1>2 DEF Works, Types, FileCalls
<1>5. Temporaries(r)' /\ Session(r)' /\ Artifact(r)'
  BY <1>0, <1>2 DEF Temporaries, Session, Artifact, Owners, FileCalls
<1>6. \A x \in Nat : <<x, r>> \in disk' => r \in Owners
  BY <1>0, <1>2 DEF Files
<1> QED BY <1>3, <1>4, <1>5, <1>6, QuietStep
-----------------------------------------------------------------------------
(***************************************************************************)
(* The barriers and the broadcast of a call on the shared file             *)
(***************************************************************************)

\* The ranks leave a collective of a file call for the next one.
LEMMA BarrierStep ==
  ASSUME IndInv, NEW l \in FileCalls, NEW w \in {"in", "cast", "out"}, All(l, w),
         UNCHANGED <<mode, sample, label, spent, staged, created, withdrawn, fin, temp, disk,
                     accepted, dirty>>,
         stage' \in [Ranks -> {"root"} \cup Blocked], err' \in [Ranks -> BOOLEAN],
         err'[Root] = err[Root],
         \/ /\ w = "in" /\ stage'[Root] = "root"
            /\ \A r \in Ranks \ {Root} : stage'[r] = "cast"
         \/ w # "in" /\ \A r \in Ranks : stage'[r] = "out"
         \/ w # "in" /\ \A r \in Ranks : stage'[r] = "gather"
  PROVE  IndInv'
<1>0. Types /\ Files /\ Root \in Ranks
  BY OutputAssumption DEF IndInv
<1>1. \A r \in Ranks : label[r] = l /\ stage[r] = w /\ Meets(r) /\ (Meets(r)' <=> Meets(r))
  BY DEF All, IndInv, Place, Meets
<1>2. mode = "collective" /\ Owners = {Root} /\ Owners' = Owners
  BY <1>0, <1>1 DEF Meets, Owners
<1>3. Types'
  BY <1>0, <1>2 DEF Types
<1>4. Files'
  BY <1>0, <1>2 DEF Files, Settled
<1>5. \A r \in Ranks : Alike(r)' /\ Shaped(r)'
  BY DEF IndInv, Alike, Shaped
<1>6. ASSUME NEW r \in Ranks PROVE Place(r)'
  BY <1>0, <1>1, <1>2 DEF Place, FileCalls, Staging, Cleaning
<1>7. ASSUME NEW r \in Ranks, NEW s \in Ranks PROVE Meeting(r, s)'
  BY <1>1 DEF Meeting
<1>8. ASSUME NEW r \in Ranks PROVE Temporaries(r)' /\ Session(r)' /\ Artifact(r)'
  <2>1. Temporaries(r) /\ Session(r) /\ Artifact(r) /\ label[r] = l /\ stage[r] = w
    BY <1>1 DEF IndInv
  <2>2. r # Root => r \notin temp /\ <<sample, r>> \notin disk
    BY <1>0, <1>2 DEF Types, Files
  <2>3. r = Root => (Acted(r) <=> Acted(r)') /\ err'[r] = err[r]
    BY <2>1 DEF Acted
  <2>4. Acted(r) => Acted(r)'
    BY <2>1 DEF Acted
  <2>5. Temporaries(r)'
    BY <2>1, <2>2, <2>3, <2>4 DEF Temporaries, FileCalls
  <2>6. Session(r)'
    BY <1>2, <2>1, <2>4 DEF Session, FileCalls
  <2>7. Artifact(r)'
    BY <1>2, <2>1, <2>2, <2>3, <2>4 DEF Artifact
  <2> QED BY <2>5, <2>6, <2>7
<1> QED BY <1>3, <1>4, <1>5, <1>6, <1>7, <1>8 DEF IndInv

\* The barriers and the broadcast of a shared file.
LEMMA SharedStep ==
  ASSUME IndInv, MeetBarrier \/ Broadcast \/ LeaveBarrier
  PROVE  IndInv'
<1> USE DEF session, files, verdicts
<1>0. Types /\ Root \in Ranks
  BY OutputAssumption DEF IndInv
<1>1. CASE MeetBarrier
  <2>1. PICK l \in FileCalls : All(l, "in")
    BY <1>1 DEF MeetBarrier
  <2>2. /\ stage' = [r \in Ranks |-> IF r = Root THEN "root" ELSE "cast"]
        /\ UNCHANGED <<mode, sample, label, err, spent, staged, created, withdrawn, fin, temp, disk,
                       accepted, dirty>>
    BY <1>1 DEF MeetBarrier
  <2>3. stage' \in [Ranks -> {"root"} \cup Blocked] /\ err' \in [Ranks -> BOOLEAN]
    BY <1>0, <2>2 DEF Types, Blocked
  <2> QED BY <1>0, <2>1, <2>2, <2>3, BarrierStep
<1>2. CASE Broadcast
  <2>1. PICK l \in FileCalls :
          /\ All(l, "cast")
          /\ stage' = [r \in Ranks |-> IF l = "publish" /\ err[Root] THEN "gather" ELSE "out"]
    BY <1>2 DEF Broadcast
  <2>2. /\ err' = [r \in Ranks |-> err[Root]]
        /\ UNCHANGED <<mode, sample, label, spent, staged, created, withdrawn, fin, temp, disk,
                       accepted, dirty>>
    BY <1>2 DEF Broadcast
  <2>3. stage' \in [Ranks -> {"root"} \cup Blocked] /\ err' \in [Ranks -> BOOLEAN]
    BY <1>0, <2>1, <2>2 DEF Types, Blocked
  <2>4. CASE l = "publish" /\ err[Root]
    BY <1>0, <2>1, <2>2, <2>3, <2>4, BarrierStep
  <2>5. CASE ~(l = "publish" /\ err[Root])
    BY <1>0, <2>1, <2>2, <2>3, <2>5, BarrierStep
  <2> QED BY <2>4, <2>5
<1>3. CASE LeaveBarrier
  <2>1. PICK l \in FileCalls : All(l, "out")
    BY <1>3 DEF LeaveBarrier
  <2>2. /\ stage' = [r \in Ranks |-> "gather"]
        /\ UNCHANGED <<mode, sample, label, err, spent, staged, created, withdrawn, fin, temp, disk,
                       accepted, dirty>>
    BY <1>3 DEF LeaveBarrier
  <2>3. stage' \in [Ranks -> {"root"} \cup Blocked] /\ err' \in [Ranks -> BOOLEAN]
    BY <1>0, <2>2 DEF Types, Blocked
  <2> QED BY <1>0, <2>1, <2>2, <2>3, BarrierStep
<1> QED BY <1>1, <1>2, <1>3
-----------------------------------------------------------------------------
(***************************************************************************)
(* The gathers: every rank reads the same rows and moves to the same call  *)
(***************************************************************************)

Together(m, w) == label' = [r \in Ranks |-> m] /\ stage' = [r \in Ranks |-> w]

\* Where the ranks may be when they move together.
Allowed(m, w) ==
  /\ m \in Staging \cup Cleaning => mode = "collective"
  /\ m \in {"cleanup", "removed"} => w = "gather"
  /\ m = "stage" /\ mode = "collective" => w = "gather"
  /\ m \in FileCalls => w = "run"

\* Ranks that move together stay at places where they may meet.
LEMMA TogetherStep ==
  ASSUME NEW m, NEW w \in {"run", "gather"}, Together(m, w), Allowed(m, w), mode' = mode
  PROVE  \A r \in Ranks : Place(r)' /\ \A s \in Ranks : Meeting(r, s)'
<1>1. \A r \in Ranks : label'[r] = m /\ stage'[r] = w
  BY DEF Together
<1> QED BY <1>1 DEF Allowed, Place, Meeting

\* A move before the publication, or after the staged file was dropped.
LEMMA QuietMove ==
  ASSUME IndInv,
         NEW l \in Labels \ {"publish", "rollback", "idle", "series", "finalize"}, All(l, "gather"),
         NEW m \in Labels \ {"rollback", "series", "finalize"}, NEW w \in {"run", "gather"},
         NEW e \in BOOLEAN, Together(m, w), Allowed(m, w), err' = [r \in Ranks |-> e],
         \A r \in Ranks : spent'[r] = spent'[Root],
         UNCHANGED <<mode, sample, created, withdrawn, fin, temp, disk, accepted, dirty>>,
         staged' \in [Ranks -> BOOLEAN],
         mode = "collective" => \A r \in Ranks : staged'[r] = staged'[Root],
         \A r \in Ranks :
           /\ mode # "collective" /\ staged'[r] => staged[r]
           /\ m = "stage" /\ w = "gather" /\ ~e /\ r \in Owners => staged'[r]
           /\ m = "publish" /\ r \in Owners => staged'[r],
         \A r \in Ranks : Temporaries(r)'
  PROVE  IndInv'
<1>0. Types /\ Files /\ Root \in Ranks
  BY OutputAssumption DEF IndInv
<1>1. \A r \in Ranks : label[r] = l /\ label'[r] = m /\ stage'[r] = w /\ err'[r] = e
  BY DEF All, Together
<1>2. Owners' = Owners
  BY DEF Owners
<1>3. Types'
  BY <1>0, <1>2 DEF Types, Together, Blocked
<1>4. sample \notin accepted /\ Settled(sample)
  BY <1>0, <1>1 DEF Files
<1>5. Files'
  BY <1>0, <1>1, <1>2, <1>4 DEF Files, Settled
<1>6. \A r \in Ranks : Alike(r)' /\ Shaped(r)'
  BY <1>0, <1>1 DEF IndInv, Alike, Shaped
<1>7. ASSUME NEW r \in Ranks PROVE Session(r)'
  <2>1. ~created[r] /\ (mode # "collective" /\ staged[r] => r \in Owners)
    BY <1>1 DEF IndInv, Session
  <2> QED BY <1>1, <1>2, <2>1 DEF Session
<1>8. ASSUME NEW r \in Ranks PROVE Artifact(r)'
  <2>1. m = "publish" => w = "run"
    BY DEF Allowed, FileCalls
  <2> QED BY <1>1, <1>4, <2>1 DEF Artifact, Settled, Acted
<1> QED BY <1>3, <1>5, <1>6, <1>7, <1>8, TogetherStep DEF IndInv

\* A step of the staging sequence is followed by the next one.
LEMMA NextStage ==
  ASSUME NEW k \in 1 .. 8
  PROVE  Follows(StageSteps[k]) = StageSteps[k + 1]
<1>1. Len(StageSteps) = 9
  BY DEF StageSteps
<1>2. ASSUME NEW n \in 1 .. 9, StageSteps[n] = StageSteps[k] PROVE n = k
  BY <1>2 DEF StageSteps
<1>3. (CHOOSE n \in 1 .. Len(StageSteps) : StageSteps[n] = StageSteps[k]) = k
  BY <1>1, <1>2
<1>4. StageSteps[k] \in Staging \ {"construct"}
  BY DEF StageSteps, Staging
<1> QED BY <1>3, <1>4 DEF Follows, Staging

\* The call that follows each call.
LEMMA FollowsFacts ==
  /\ Follows("preflight") = "idle" /\ Follows("writer") = "authority"
  /\ Follows("authority") = "session" /\ Follows("construct") = "stage"
  /\ Follows("session") = IF mode = "collective" THEN "snapshot" ELSE "stage"
  /\ Follows("snapshot") = "validate" /\ Follows("validate") = "plan"
  /\ Follows("plan") = "temporary" /\ Follows("temporary") = "owner"
  /\ Follows("owner") = "descriptors" /\ Follows("descriptors") = "native"
  /\ Follows("native") = "verify" /\ Follows("verify") = "construct"
<1>1. /\ StageSteps[1] = "snapshot" /\ StageSteps[2] = "validate" /\ StageSteps[3] = "plan"
      /\ StageSteps[4] = "temporary" /\ StageSteps[5] = "owner" /\ StageSteps[6] = "descriptors"
      /\ StageSteps[7] = "native" /\ StageSteps[8] = "verify" /\ StageSteps[9] = "construct"
  BY DEF StageSteps
<1>2. /\ Follows("preflight") = "idle" /\ Follows("writer") = "authority"
      /\ Follows("authority") = "session" /\ Follows("construct") = "stage"
      /\ Follows("session") = IF mode = "collective" THEN "snapshot" ELSE "stage"
  BY <1>1 DEF Follows
<1>3. /\ Follows(StageSteps[1]) = StageSteps[2] /\ Follows(StageSteps[2]) = StageSteps[3]
      /\ Follows(StageSteps[3]) = StageSteps[4] /\ Follows(StageSteps[4]) = StageSteps[5]
  BY NextStage
<1>4. /\ Follows(StageSteps[5]) = StageSteps[6] /\ Follows(StageSteps[6]) = StageSteps[7]
      /\ Follows(StageSteps[7]) = StageSteps[8] /\ Follows(StageSteps[8]) = StageSteps[9]
  BY NextStage
<1> QED BY <1>1, <1>2, <1>3, <1>4

\* What the ranks read from the rows of a gather.
SomeFailed == \E s \in Ranks : err[s]

\* The ranks that read a failure go on alike, and so do the ranks that read none.
LEMMA PrepareMoves ==
  ASSUME IndInv, NEW l, NEW r \in Ranks
  PROVE  (IF Failed(r) THEN FailsTo(r, l) ELSE Follows(l))
           = (IF SomeFailed THEN FailsTo(Root, l) ELSE Follows(l))
<1>1. (Failed(r) <=> SomeFailed) /\ spent[r] = spent[Root]
  BY DEF Failed, SomeFailed, IndInv, Alike
<1> QED BY <1>1 DEF FailsTo, Retried

\* The gather that ends the preparation.
LEMMA PrepareGatherStep ==
  ASSUME IndInv, PrepareGather
  PROVE  IndInv'
<1> USE DEF files, verdicts
<1>0. Types /\ Files /\ Root \in Ranks
  BY OutputAssumption DEF IndInv
<1>1. PICK l \in {"preflight", "writer", "authority", "session"} \cup Staging :
        LET to == [r \in Ranks |-> IF Failed(r) THEN FailsTo(r, l) ELSE Follows(l)] IN
        /\ All(l, "gather")
        /\ Moves(to, IF l \in Staging THEN {"stage", "cleanup"} ELSE {}, \E r \in Ranks : Failed(r))
        /\ staged' = IF l = "construct" THEN [r \in Ranks |-> Holds(r)] ELSE staged
  BY StageNames DEF PrepareGather
<1>2. PICK m : m = IF SomeFailed THEN FailsTo(Root, l) ELSE Follows(l)
  OBVIOUS
<1>3. PICK e \in BOOLEAN : e = (l \in Staging /\ m \in {"stage", "cleanup"} /\ SomeFailed)
  OBVIOUS
<1>4. PICK w \in {"run", "gather"} :
        w = IF l \in Staging /\ m \in {"stage", "cleanup"} THEN "gather" ELSE "run"
  OBVIOUS
<1>5. UNCHANGED <<mode, sample, created, withdrawn, fin, temp, disk, accepted, dirty>>
  BY DEF PrepareGather
<1>6. \A r \in Ranks : (IF Failed(r) THEN FailsTo(r, l) ELSE Follows(l)) = m
  BY <1>2, PrepareMoves
<1>7. Together(m, w)
  BY <1>1, <1>4, <1>6 DEF Moves, Together
<1>8. err' = [r \in Ranks |-> e]
  <2>1. (\E r \in Ranks : Failed(r)) <=> SomeFailed
    BY <1>0 DEF Failed, SomeFailed
  <2> QED BY <1>1, <1>3, <1>6, <2>1 DEF Moves
<1>9. \A r \in Ranks : spent'[r] = spent'[Root]
  <2>1. \A r \in Ranks : spent[r] = spent[Root]
    BY DEF IndInv, Alike
  <2>2. spent' = [r \in Ranks |-> IF m = "writer" THEN spent[r] + 1 ELSE spent[r]]
    BY <1>1, <1>6 DEF Moves
  <2> QED BY <1>0, <2>1, <2>2
<1>10. /\ SomeFailed /\ l = "preflight" => m = "refused"
       /\ SomeFailed /\ l \in {"writer", "authority", "session"} => m \in {"writer", "idle"}
       /\ SomeFailed /\ l \in {"snapshot", "validate", "plan"} => m = "stage"
       /\ SomeFailed /\ l = "temporary" => m = "cleanup"
       /\ SomeFailed /\ l \in {"owner", "descriptors", "native", "verify", "construct"} => m = "remove"
  BY <1>2 DEF FailsTo, Retried
<1>11. ~SomeFailed => m = Follows(l)
  BY <1>2
<1>12. l \in Staging => mode = "collective"
  BY <1>0, <1>1 DEF All, IndInv, Place
<1>13. m \in Labels \ {"rollback", "series", "finalize", "publish", "discard", "abort"}
  BY <1>10, <1>11, FollowsFacts DEF Labels, Early, Staging, Cleaning
<1>14. Allowed(m, w)
  BY <1>4, <1>10, <1>11, <1>12, <1>13, FollowsFacts DEF Allowed, Staging, Cleaning, FileCalls
<1>15. l \in Labels \ {"publish", "rollback", "idle", "series", "finalize"}
  BY DEF Labels, Early, Staging
<1>16. /\ staged' \in [Ranks -> BOOLEAN]
       /\ l = "construct" => \A r \in Ranks : staged'[r] = ~SomeFailed
       /\ l # "construct" => staged' = staged
  BY <1>0, <1>1 DEF Types, Holds, Failed, SomeFailed
<1>17. mode = "collective" => \A r \in Ranks : staged'[r] = staged'[Root]
  BY <1>0, <1>16 DEF IndInv, Alike
<1>18. ASSUME NEW r \in Ranks
       PROVE  /\ mode # "collective" /\ staged'[r] => staged[r]
              /\ m = "stage" /\ w = "gather" /\ ~e /\ r \in Owners => staged'[r]
              /\ m = "publish" /\ r \in Owners => staged'[r]
  <2>1. m = "stage" /\ w = "gather" /\ ~e => l = "construct" /\ ~SomeFailed
    BY <1>3, <1>4, <1>10, <1>11, FollowsFacts DEF Staging
  <2> QED BY <1>12, <1>13, <1>16, <2>1 DEF Staging
<1>19. ASSUME NEW r \in Ranks PROVE Temporaries(r)'
  <2>1. Temporaries(r) /\ label[r] = l /\ stage[r] = "gather"
    BY <1>1 DEF IndInv, All
  <2>2. label'[r] = m /\ stage'[r] = w
    BY <1>7 DEF Together
  <2>3. l = "temporary" /\ SomeFailed => temp = {}
    <3>1. SUFFICES ASSUME l = "temporary", SomeFailed PROVE temp = {}
      OBVIOUS
    <3>2. PICK s \in Ranks : err[s]
      BY <3>1 DEF SomeFailed
    <3>3. Temporaries(s) /\ label[s] = l /\ stage[s] = "gather"
      BY <1>1 DEF IndInv, All
    <3>4. Root \notin temp
      BY <3>1, <3>2, <3>3 DEF Temporaries
    <3>5. Owners = {Root}
      BY <1>12, <3>1 DEF Owners, Staging
    <3> QED BY <1>0, <3>4, <3>5 DEF Types
  <2>4. l \in Early \cup {"preflight"} => r \notin temp
    BY <2>1 DEF Temporaries
  <2>5. m \in {"preflight", "refused", "idle", "cleanup", "removed", "temporary"} \cup Early
          => l \in Early \cup {"preflight"} \/ (l = "temporary" /\ SomeFailed)
    BY <1>10, <1>11, FollowsFacts DEF Early, Staging
  <2>6. m \in {"preflight", "refused", "idle", "cleanup", "removed", "temporary"} \cup Early
          => r \notin temp
    BY <2>3, <2>4, <2>5
  <2>7. m = "stage" /\ r \in temp => staged'[r] /\ w = "gather"
    <3>1. m = "stage" => l \in Early \/ (l = "construct" /\ ~SomeFailed)
      BY <1>10, <1>11, FollowsFacts DEF Early, Staging
    <3> QED BY <1>4, <1>16, <2>4, <3>1 DEF Staging
  <2>8. m = "remove" \/ m = "temporary" => w = "run"
    BY <1>4
  <2> QED BY <1>5, <1>13, <2>2, <2>6, <2>7, <2>8 DEF Temporaries, FileCalls
<1>20. m \in Labels \ {"rollback", "series", "finalize"}
  BY <1>13
<1>21. All(l, "gather")
  BY <1>1
<1> QED BY <1>5, <1>7, <1>8, <1>9, <1>14, <1>15, <1>16, <1>17, <1>18, <1>19, <1>20, <1>21, QuietMove

\* The ranks move together to m when each of them does.
LEMMA MovesFacts ==
  ASSUME IndInv, NEW m, NEW blocked, NEW raised \in BOOLEAN,
         Moves([r \in Ranks |-> m], blocked, raised)
  PROVE  /\ Together(m, IF m \in blocked THEN "gather" ELSE "run")
         /\ err' = [r \in Ranks |-> (m \in blocked /\ raised)]
         /\ \A r \in Ranks : spent'[r] = spent'[Root]
<1>1. Root \in Ranks /\ \A r \in Ranks : spent[r] = spent[Root]
  BY OutputAssumption DEF IndInv, Alike
<1>2. Together(m, IF m \in blocked THEN "gather" ELSE "run")
  BY DEF Moves, Together
<1>3. err' = [r \in Ranks |-> (m \in blocked /\ raised)]
  BY DEF Moves
<1>4. spent' = [r \in Ranks |-> IF m = "writer" THEN spent[r] + 1 ELSE spent[r]]
  BY DEF Moves
<1> QED BY <1>1, <1>2, <1>3, <1>4

\* All ranks move to a call that begins with local work.
LEMMA MovesToRun ==
  ASSUME IndInv, NEW m, Moves([r \in Ranks |-> m], {}, FALSE)
  PROVE  /\ Together(m, "run") /\ err' = [r \in Ranks |-> FALSE]
         /\ \A r \in Ranks : spent'[r] = spent'[Root]
<1>1. /\ Together(m, IF m \in {} THEN "gather" ELSE "run")
      /\ err' = [r \in Ranks |-> (m \in {} /\ FALSE)]
      /\ \A r \in Ranks : spent'[r] = spent'[Root]
  BY MovesFacts
<1> QED BY <1>1

\* The gather of the cleanup.
LEMMA CleanupGatherStep ==
  ASSUME IndInv, CleanupGather
  PROVE  IndInv'
<1> USE DEF session, files, verdicts
<1>0. Types /\ Files /\ Root \in Ranks
  BY OutputAssumption DEF IndInv
<1>1. PICK l \in Cleaning :
        /\ All(l, "gather")
        /\ Moves([r \in Ranks |-> IF l = "remove" THEN "removed" ELSE "stage"], {"removed", "stage"}, TRUE)
  BY DEF CleanupGather, Cleaning
<1>2. PICK m \in {"removed", "stage"} : m = IF l = "remove" THEN "removed" ELSE "stage"
  OBVIOUS
<1>3. Moves([r \in Ranks |-> m], {"removed", "stage"}, TRUE)
  BY <1>1, <1>2
<1>4. /\ Together(m, "gather") /\ err' = [r \in Ranks |-> TRUE]
      /\ \A r \in Ranks : spent'[r] = spent'[Root]
  <2>1. /\ Together(m, IF m \in {"removed", "stage"} THEN "gather" ELSE "run")
        /\ err' = [r \in Ranks |-> (m \in {"removed", "stage"} /\ TRUE)]
        /\ \A r \in Ranks : spent'[r] = spent'[Root]
    BY <1>3, MovesFacts
  <2> QED BY <1>2, <2>1
<1>5. UNCHANGED <<mode, sample, staged, created, withdrawn, fin, temp, disk, accepted, dirty>>
  BY DEF CleanupGather
<1>6. mode = "collective"
  BY <1>0, <1>1 DEF All, IndInv, Place
<1>7. Allowed(m, "gather")
  BY <1>2, <1>6 DEF Allowed, FileCalls
<1>8. l \in Labels \ {"publish", "rollback", "idle", "series", "finalize"}
  BY DEF Labels, Cleaning
<1>9. m \in Labels \ {"rollback", "series", "finalize"}
  BY DEF Labels, Cleaning
<1>10. staged' \in [Ranks -> BOOLEAN] /\ \A r \in Ranks : staged'[r] = staged'[Root]
  BY <1>0, <1>5, <1>6 DEF Types, IndInv, Alike
<1>11. ASSUME NEW r \in Ranks PROVE Temporaries(r)'
  <2>1. Temporaries(r) /\ label[r] = l /\ stage[r] = "gather"
    BY <1>1 DEF IndInv, All
  <2>2. r \notin temp
    BY <2>1 DEF Temporaries, Cleaning
  <2>3. label'[r] = m
    BY <1>4 DEF Together
  <2> QED BY <1>5, <2>2, <2>3 DEF Temporaries, FileCalls
<1>12. All(l, "gather")
  BY <1>1
<1>13. m # "publish" /\ TRUE \in BOOLEAN /\ "gather" \in {"run", "gather"}
  BY <1>2
<1> QED BY <1>4, <1>5, <1>6, <1>7, <1>8, <1>9, <1>10, <1>11, <1>12, <1>13, QuietMove

\* The gather of the staging.
LEMMA StageGatherStep ==
  ASSUME IndInv, StageGather
  PROVE  IndInv'
<1> USE DEF session, files, verdicts
<1>0. Types /\ Files /\ Root \in Ranks
  BY OutputAssumption DEF IndInv
<1>1. PICK next \in {"publish", "discard"} :
        Moves([r \in Ranks |-> IF Failed(r) THEN "abort" ELSE next], {}, FALSE)
  BY DEF StageGather
<1>2. PICK m \in {"publish", "discard", "abort"} : m = IF SomeFailed THEN "abort" ELSE next
  OBVIOUS
<1>3. Moves([r \in Ranks |-> m], {}, FALSE)
  BY <1>1, <1>2 DEF Failed, SomeFailed
<1>4. /\ Together(m, "run") /\ err' = [r \in Ranks |-> FALSE]
      /\ \A r \in Ranks : spent'[r] = spent'[Root]
  BY <1>3, MovesToRun
<1>5. UNCHANGED <<mode, sample, staged, created, withdrawn, fin, temp, disk, accepted, dirty>>
  BY DEF StageGather
<1>6. Allowed(m, "run")
  BY <1>2 DEF Allowed, Staging, Cleaning
<1>7. "stage" \in Labels \ {"publish", "rollback", "idle", "series", "finalize"}
  BY DEF Labels
<1>8. m \in Labels \ {"rollback", "series", "finalize"}
  BY DEF Labels, FileCalls
<1>9. /\ staged' \in [Ranks -> BOOLEAN]
      /\ mode = "collective" => \A r \in Ranks : staged'[r] = staged'[Root]
  BY <1>0, <1>5 DEF Types, IndInv, Alike
<1>10. All("stage", "gather")
  BY DEF StageGather
<1>11. ASSUME NEW r \in Ranks PROVE m = "publish" /\ r \in Owners => staged'[r]
  <2>1. Session(r) /\ label[r] = "stage" /\ stage[r] = "gather"
    BY <1>10 DEF IndInv, All
  <2> QED BY <1>2, <1>5, <2>1 DEF Session, SomeFailed
<1>12. ASSUME NEW r \in Ranks PROVE Temporaries(r)'
  <2>1. Temporaries(r) /\ label[r] = "stage" /\ stage[r] = "gather"
    BY <1>10 DEF IndInv, All
  <2>2. label'[r] = m /\ ~Acted(r)'
    BY <1>4 DEF Together, Acted
  <2> QED BY <1>5, <2>1, <2>2 DEF Temporaries, FileCalls, Early
<1> QED BY <1>4, <1>5, <1>6, <1>7, <1>8, <1>9, <1>10, <1>11, <1>12, QuietMove

\* The gather of the abort.
LEMMA AbortGatherStep ==
  ASSUME IndInv, AbortGather
  PROVE  IndInv'
<1> USE DEF files, verdicts
<1>0. Types /\ Files /\ Root \in Ranks
  BY OutputAssumption DEF IndInv
<1>1. PICK m \in {"writer", "idle"} : m = Retried(Root)
  BY DEF Retried
<1>2. Moves([r \in Ranks |-> m], {}, FALSE)
  <2>1. \A r \in Ranks : Retried(r) = m
    BY <1>1 DEF IndInv, Alike, Retried
  <2> QED BY <2>1 DEF AbortGather
<1>3. /\ Together(m, "run") /\ err' = [r \in Ranks |-> FALSE]
      /\ \A r \in Ranks : spent'[r] = spent'[Root]
  BY <1>2, MovesToRun
<1>4. UNCHANGED <<mode, sample, created, withdrawn, fin, temp, disk, accepted, dirty>>
  BY DEF AbortGather
<1>5. staged' = [r \in Ranks |-> FALSE] /\ All("abort", "gather")
  BY DEF AbortGather
<1>6. Allowed(m, "run")
  BY <1>1 DEF Allowed, Staging, Cleaning
<1>7. /\ "abort" \in Labels \ {"publish", "rollback", "idle", "series", "finalize"}
      /\ m \in Labels \ {"rollback", "series", "finalize"}
  BY DEF Labels, FileCalls, Early
<1>8. ASSUME NEW r \in Ranks PROVE Temporaries(r)'
  <2>1. Temporaries(r) /\ label[r] = "abort" /\ Acted(r)
    BY <1>5 DEF IndInv, All, Acted
  <2>2. label'[r] = m
    BY <1>3 DEF Together
  <2> QED BY <1>4, <2>1, <2>2 DEF Temporaries, FileCalls
<1> QED BY <1>0, <1>1, <1>3, <1>4, <1>5, <1>6, <1>7, <1>8, QuietMove

\* The gather of the discard.
LEMMA DiscardGatherStep ==
  ASSUME IndInv, DiscardGather
  PROVE  IndInv'
<1> USE DEF session, files, verdicts
<1>0. Types /\ Files /\ Root \in Ranks
  BY OutputAssumption DEF IndInv
<1>1. Moves([r \in Ranks |-> "idle"], {}, FALSE) /\ All("discard", "gather")
  BY DEF DiscardGather
<1>2. /\ Together("idle", "run") /\ err' = [r \in Ranks |-> FALSE]
      /\ \A r \in Ranks : spent'[r] = spent'[Root]
  BY <1>1, MovesToRun
<1>3. UNCHANGED <<mode, sample, staged, created, withdrawn, fin, temp, disk, accepted, dirty>>
  BY DEF DiscardGather
<1>4. Allowed("idle", "run")
  BY DEF Allowed, Staging, Cleaning
<1>5. /\ "discard" \in Labels \ {"publish", "rollback", "idle", "series", "finalize"}
      /\ "idle" \in Labels \ {"rollback", "series", "finalize"}
  BY DEF Labels, FileCalls
<1>6. /\ staged' \in [Ranks -> BOOLEAN]
      /\ mode = "collective" => \A r \in Ranks : staged'[r] = staged'[Root]
  BY <1>0, <1>3 DEF Types, IndInv, Alike
<1>7. ASSUME NEW r \in Ranks PROVE Temporaries(r)'
  <2>1. Temporaries(r) /\ label[r] = "discard" /\ Acted(r)
    BY <1>1 DEF IndInv, All, Acted
  <2>2. label'[r] = "idle"
    BY <1>2 DEF Together
  <2> QED BY <1>3, <2>1, <2>2 DEF Temporaries, FileCalls
<1> QED BY <1>1, <1>2, <1>3, <1>4, <1>5, <1>6, <1>7, QuietMove

\* What the loop over the finalizers leads to.
LEMMA LoopFacts ==
  ASSUME NEW q, NEW k, NEW a
  PROVE  /\ Loop(q, k, a).label \in {"series", "finalize", "writer", "idle"}
         /\ Loop(q, k, a).fin = [queue |-> Loop(q, k, a).fin.queue, kept |-> Loop(q, k, a).fin.kept,
                                 after |-> Loop(q, k, a).fin.after]
         /\ Loop(q, k, a).label = "writer" => a = "prepare"
         /\ Loop(q, k, a).fin.after \in {a, "rest"}
<1>1. CASE q # <<>>
  <2>1. Loop(q, k, a) = [label |-> Owes(Head(q)), fin |-> [queue |-> q, kept |-> k, after |-> a]]
    BY <1>1 DEF Loop
  <2>2. Owes(Head(q)) \in {"series", "finalize"}
    BY DEF Owes
  <2> QED BY <2>1, <2>2
<1>2. CASE q = <<>> /\ a = "seal" /\ k # <<>>
  <2>1. Loop(q, k, a) = [label |-> Owes(Head(k)), fin |-> [queue |-> k, kept |-> <<>>, after |-> "rest"]]
    BY <1>2 DEF Loop
  <2>2. Owes(Head(k)) \in {"series", "finalize"}
    BY DEF Owes
  <2> QED BY <2>1, <2>2
<1>3. CASE q = <<>> /\ a = "prepare"
  <2>1. Loop(q, k, a) = [label |-> "writer", fin |-> [queue |-> <<>>, kept |-> k, after |-> "rest"]]
    BY <1>3 DEF Loop
  <2> QED BY <1>3, <2>1
<1>4. CASE q = <<>> /\ ~(a = "seal" /\ k # <<>>) /\ a # "prepare"
  <2>1. Loop(q, k, a) = [label |-> "idle", fin |-> [queue |-> <<>>, kept |-> k, after |-> "rest"]]
    BY <1>4 DEF Loop
  <2> QED BY <2>1
<1> QED BY <1>1, <1>2, <1>3, <1>4

\* All files are at their targets and the step commits, or all of them go.
LEMMA PublishGatherStep ==
  ASSUME IndInv, PublishGather
  PROVE  IndInv'
<1> USE DEF files
<1>0. Types /\ Files /\ Root \in Ranks
  BY OutputAssumption DEF IndInv
<1>1. PICK commits \in BOOLEAN :
        LET seals(r) == commits /\ ~Failed(r)
            where(r) == IF seals(r) THEN Loop(<<Finalizer(sample)>>, fin[r].kept, "seal")
                                    ELSE [label |-> "rollback", fin |-> fin[r]]
        IN  /\ Moves([r \in Ranks |-> where(r).label], {}, FALSE)
            /\ fin' = [r \in Ranks |-> where(r).fin]
            /\ withdrawn' = [r \in Ranks |-> ~Failed(r) /\ ~commits]
            /\ accepted' = IF \A r \in Ranks : seals(r) THEN accepted \cup {sample} ELSE accepted
  BY DEF PublishGather
<1>2. UNCHANGED <<mode, sample, staged, created, temp, disk, dirty>> /\ Owners' = Owners
  BY DEF PublishGather, Owners
<1>3. ASSUME NEW r \in Ranks
      PROVE  /\ label[r] = "publish" /\ stage[r] = "gather" /\ Acted(r)
             /\ Alike(r) /\ Shaped(r) /\ Temporaries(r) /\ Session(r) /\ Artifact(r)
  BY DEF IndInv, PublishGather, All, Acted
<1>4. \A r \in Ranks : Failed(r) <=> SomeFailed
  BY DEF Failed, SomeFailed
<1>5. sample \notin accepted
  BY <1>0, <1>3 DEF Files
<1>6. withdrawn' = [r \in Ranks |-> ~SomeFailed /\ ~commits]
  BY <1>1, <1>4
<1>7. CASE commits /\ ~SomeFailed
  <2>1. PICK k : \A r \in Ranks : fin[r].kept = k
    BY <1>3 DEF Alike
  <2>2. PICK q : q = <<Finalizer(sample)>>
    OBVIOUS
  <2>3. PICK m : m = Loop(q, k, "seal").label
    OBVIOUS
  <2>4. PICK f : f = Loop(q, k, "seal").fin
    OBVIOUS
  <2>5. Loop(q, k, "seal") = [label |-> Owes(Head(q)), fin |-> [queue |-> q, kept |-> k, after |-> "seal"]]
    BY <2>2 DEF Loop
  <2>6. m \in {"series", "finalize"} /\ f = [queue |-> q, kept |-> k, after |-> "seal"]
    BY <2>3, <2>4, <2>5 DEF Owes
  <2>7. Moves([r \in Ranks |-> m], {}, FALSE) /\ fin' = [r \in Ranks |-> f]
    BY <1>1, <1>4, <1>7, <2>1, <2>2, <2>3, <2>4
  <2>8. accepted' = accepted \cup {sample}
    BY <1>1, <1>4, <1>7
  <2>9. /\ Together(m, "run") /\ err' = [r \in Ranks |-> FALSE]
        /\ \A r \in Ranks : spent'[r] = spent'[Root]
    BY <2>7, MovesToRun
  <2>10. \A r \in Ranks : label'[r] = m /\ stage'[r] = "run" /\ fin'[r] = f
    BY <2>7, <2>9 DEF Together
  <2>11. Types'
    <3>1. label' \in [Ranks -> Labels]
      BY <2>6, <2>9 DEF Together, Labels
    <3>2. stage' \in [Ranks -> {"run", "root"} \cup Blocked]
      BY <2>9 DEF Together
    <3>3. withdrawn' \in [Ranks -> BOOLEAN] /\ err' \in [Ranks -> BOOLEAN]
      BY <1>6, <2>9
    <3>4. accepted' \subseteq 0 .. sample'
      BY <1>0, <1>2, <2>8 DEF Types
    <3> QED BY <1>0, <1>2, <3>1, <3>2, <3>3, <3>4 DEF Types
  <2>12. Files'
    <3>1. \A r \in Owners : <<sample, r>> \in disk
      <4>1. Owners \subseteq Ranks
        BY <1>0 DEF Owners
      <4> QED BY <1>3, <1>7, <4>1 DEF Artifact, SomeFailed
    <3>2. \A x \in Nat \ {sample'} : Settled(x)'
      BY <1>0, <1>2, <2>8 DEF Files, Settled
    <3>3. Settled(sample)'
      BY <1>2, <2>8, <3>1 DEF Settled
    <3>4. f.after # "prepare"
      BY <2>6
    <3> QED BY <1>0, <1>2, <2>6, <2>10, <3>2, <3>3, <3>4 DEF Files
  <2>13. ASSUME NEW r \in Ranks PROVE Alike(r)' /\ Shaped(r)'
    <3>1. withdrawn'[r] = withdrawn'[Root]
      BY <1>0, <1>6
    <3>2. mode' = "collective" => staged'[r] = staged'[Root]
      BY <1>2, <1>3 DEF Alike
    <3>3. Alike(r)'
      BY <1>0, <2>9, <2>10, <3>1, <3>2 DEF Alike
    <3>4. f = [queue |-> f.queue, kept |-> f.kept, after |-> f.after]
      BY <2>6
    <3>5. Shaped(r)'
      BY <2>10, <3>4 DEF Shaped
    <3> QED BY <3>3, <3>5
  <2>14. Allowed(m, "run")
    BY <2>6 DEF Allowed, Staging, Cleaning
  <2>15. ASSUME NEW r \in Ranks PROVE Temporaries(r)' /\ Session(r)' /\ Artifact(r)'
    <3>1. r \notin temp
      BY <1>3, <1>7 DEF Temporaries, SomeFailed
    <3>2. Temporaries(r)'
      BY <1>2, <2>6, <2>10, <3>1 DEF Temporaries, FileCalls
    <3>3. f.after # "prepare"
      BY <2>6
    <3>4. Session(r)'
      BY <1>2, <1>3, <2>6, <2>10, <3>3 DEF Session
    <3>5. Artifact(r)'
      BY <2>6, <2>10 DEF Artifact
    <3> QED BY <3>2, <3>4, <3>5
  <2> QED BY <1>2, <2>9, <2>11, <2>12, <2>13, <2>14, <2>15, TogetherStep DEF IndInv
<1>8. CASE ~(commits /\ ~SomeFailed)
  <2>1. Moves([r \in Ranks |-> "rollback"], {}, FALSE) /\ fin' = [r \in Ranks |-> fin[r]]
    BY <1>1, <1>4, <1>8
  <2>2. accepted' = accepted
    BY <1>0, <1>1, <1>4, <1>8
  <2>3. /\ Together("rollback", "run") /\ err' = [r \in Ranks |-> FALSE]
        /\ \A r \in Ranks : spent'[r] = spent'[Root]
    BY <2>1, MovesToRun
  <2>4. \A r \in Ranks : label'[r] = "rollback" /\ stage'[r] = "run" /\ ~Acted(r)' /\ fin'[r] = fin[r]
    BY <2>1, <2>3 DEF Together, Acted
  <2>5. Types'
    <3>1. label' \in [Ranks -> Labels]
      BY <2>3 DEF Together, Labels, FileCalls
    <3>2. stage' \in [Ranks -> {"run", "root"} \cup Blocked]
      BY <2>3 DEF Together
    <3>3. withdrawn' \in [Ranks -> BOOLEAN] /\ err' \in [Ranks -> BOOLEAN]
      BY <1>6, <2>3
    <3> QED BY <1>0, <1>2, <2>2, <3>1, <3>2, <3>3 DEF Types
  <2>6. Files'
    BY <1>0, <1>2, <1>5, <2>2, <2>4 DEF Files, Settled
  <2>7. \A r \in Ranks : Alike(r)' /\ Shaped(r)'
    BY <1>0, <1>2, <1>3, <1>6, <2>3, <2>4 DEF Alike, Shaped
  <2>8. Allowed("rollback", "run")
    BY DEF Allowed, Staging, Cleaning
  <2>9. ASSUME NEW r \in Ranks PROVE Temporaries(r)' /\ Session(r)' /\ Artifact(r)'
    <3>1. Temporaries(r)'
      BY <1>2, <1>3, <2>4 DEF Temporaries, FileCalls, Early
    <3>2. Session(r)'
      BY <1>2, <1>3, <2>4 DEF Session
    <3>3. Artifact(r)'
      BY <1>2, <1>3, <2>4 DEF Artifact
    <3> QED BY <3>1, <3>2, <3>3
  <2> QED BY <1>2, <2>3, <2>5, <2>6, <2>7, <2>8, <2>9, TogetherStep DEF IndInv
<1> QED BY <1>7, <1>8

\* The rollback is complete, or what it left is reported.
LEMMA RollbackGatherStep ==
  ASSUME IndInv, RollbackGather
  PROVE  IndInv'
<1> USE DEF files
<1>0. Types /\ Files /\ Root \in Ranks
  BY OutputAssumption DEF IndInv
<1>1. /\ Moves([r \in Ranks |-> IF Failed(r) \/ withdrawn[r] THEN "idle" ELSE Retried(r)], {}, FALSE)
      /\ dirty' = IF \E r \in Ranks : Failed(r) THEN dirty \cup {sample} ELSE dirty
      /\ staged' = [r \in Ranks |-> FALSE] /\ created' = [r \in Ranks |-> FALSE]
      /\ UNCHANGED <<mode, sample, withdrawn, fin, temp, disk, accepted>> /\ Owners' = Owners
  BY DEF RollbackGather, Owners
<1>2. ASSUME NEW r \in Ranks
      PROVE  /\ label[r] = "rollback" /\ stage[r] = "gather" /\ Acted(r)
             /\ Alike(r) /\ Shaped(r) /\ Temporaries(r) /\ Session(r) /\ Artifact(r)
  BY DEF IndInv, RollbackGather, All, Acted
<1>3. \A r \in Ranks : Failed(r) <=> SomeFailed
  BY DEF Failed, SomeFailed
<1>4. PICK m \in {"writer", "idle"} : m = IF SomeFailed \/ withdrawn[Root] THEN "idle" ELSE Retried(Root)
  BY DEF Retried
<1>5. Moves([r \in Ranks |-> m], {}, FALSE)
  <2>1. \A r \in Ranks : (IF Failed(r) \/ withdrawn[r] THEN "idle" ELSE Retried(r)) = m
    BY <1>2, <1>3, <1>4 DEF Alike, Retried
  <2> QED BY <1>1, <2>1
<1>6. /\ Together(m, "run") /\ err' = [r \in Ranks |-> FALSE]
      /\ \A r \in Ranks : spent'[r] = spent'[Root]
  BY <1>5, MovesToRun
<1>7. \A r \in Ranks : label'[r] = m /\ stage'[r] = "run"
  BY <1>6 DEF Together
<1>8. Types'
  <2>1. label' \in [Ranks -> Labels]
    BY <1>6 DEF Together, Labels, Early
  <2>2. stage' \in [Ranks -> {"run", "root"} \cup Blocked]
    BY <1>6 DEF Together
  <2> QED BY <1>0, <1>1, <1>6, <2>1, <2>2 DEF Types
<1>9. Files'
  <2>1. sample \notin accepted
    BY <1>0, <1>2 DEF Files
  <2>2. dirty' = IF SomeFailed THEN dirty \cup {sample} ELSE dirty
    BY <1>0, <1>1, <1>3
  <2>3. \A x \in Nat \ {sample} : Settled(x)'
    BY <1>0, <1>1, <2>2 DEF Files, Settled
  <2>4. Settled(sample)'
    <3>1. CASE SomeFailed
      BY <1>1, <2>1, <2>2, <3>1 DEF Settled
    <3>2. CASE ~SomeFailed
      <4>1. \A r \in Ranks : <<sample, r>> \in disk => sample \in dirty
        BY <1>2, <3>2 DEF Artifact, SomeFailed
      <4> QED BY <1>1, <2>1, <2>2, <3>2, <4>1 DEF Settled
    <3> QED BY <3>1, <3>2
  <2> QED BY <1>0, <1>1, <2>1, <2>3, <2>4 DEF Files
<1>10. \A r \in Ranks : Alike(r)' /\ Shaped(r)'
  BY <1>0, <1>1, <1>2, <1>6, <1>7 DEF Alike, Shaped
<1>11. Allowed(m, "run")
  BY DEF Allowed, Staging, Cleaning
<1>12. ASSUME NEW r \in Ranks PROVE Temporaries(r)' /\ Session(r)' /\ Artifact(r)'
  <2>1. r \notin temp
    BY <1>2 DEF Temporaries
  <2>2. Temporaries(r)'
    BY <1>1, <1>7, <2>1 DEF Temporaries, FileCalls
  <2>3. Session(r)'
    BY <1>1, <1>7 DEF Session
  <2>4. Artifact(r)'
    BY <1>7 DEF Artifact
  <2> QED BY <2>2, <2>3, <2>4
<1> QED BY <1>1, <1>6, <1>8, <1>9, <1>10, <1>11, <1>12, TogetherStep DEF IndInv
-----------------------------------------------------------------------------
(***************************************************************************)
(* The finalizers and the steps of the program                             *)
(***************************************************************************)

\* The ranks enter or leave the loop over the finalizers together.
LEMMA LoopStep ==
  ASSUME IndInv, Root \in Ranks,
         \A r \in Ranks : label[r] \in {"idle", "series", "finalize"},
         NEW m \in {"series", "finalize", "writer", "idle"}, NEW f, Together(m, "run"),
         fin' = [r \in Ranks |-> f], f = [queue |-> f.queue, kept |-> f.kept, after |-> f.after],
         UNCHANGED <<mode, temp, disk, accepted, dirty>>,
         sample' \in Nat, accepted \subseteq 0 .. sample', err' \in [Ranks -> BOOLEAN],
         staged' \in [Ranks -> BOOLEAN], created' \in [Ranks -> BOOLEAN], withdrawn' \in [Ranks -> BOOLEAN],
         \A r \in Ranks :
           /\ spent'[r] = spent'[Root] /\ withdrawn'[r] = withdrawn'[Root]
           /\ mode = "collective" => staged'[r] = staged'[Root]
           /\ mode # "collective" /\ staged'[r] => staged[r]
           /\ m = "writer" \/ (m # "idle" /\ f.after = "prepare") => ~created'[r],
         sample' \in accepted => m = "idle" \/ (m # "writer" /\ f.after # "prepare")
  PROVE  IndInv'
<1>0. Types /\ Files
  BY DEF IndInv
<1>1. Owners' = Owners
  BY DEF Owners
<1>2. \A r \in Ranks : label'[r] = m /\ stage'[r] = "run" /\ fin'[r] = f
  BY DEF Together
<1>3. Types'
  <2>1. label' \in [Ranks -> Labels]
    BY DEF Together, Labels, Early
  <2>2. stage' \in [Ranks -> {"run", "root"} \cup Blocked]
    BY DEF Together
  <2> QED BY <1>0, <1>1, <2>1, <2>2 DEF Types
<1>4. Files'
  <2>1. \A x \in Nat : Settled(x)
    <3>1. Settled(sample)
      BY <1>0 DEF Files
    <3> QED BY <1>0, <3>1 DEF Files
  <2>2. \A x \in Nat : Settled(x)'
    BY <1>1, <2>1 DEF Settled
  <2>3. \A x \in Nat, r \in Ranks : <<x, r>> \in disk' => r \in Owners'
    BY <1>0, <1>1 DEF Files
  <2>4. sample' \in accepted' =>
          \/ label'[Root] = "idle"
          \/ label'[Root] \in {"series", "finalize"} /\ fin'[Root].after # "prepare"
    BY <1>2
  <2> QED BY <2>2, <2>3, <2>4 DEF Files
<1>5. \A r \in Ranks : Alike(r)' /\ Shaped(r)'
  BY <1>2 DEF Alike, Shaped
<1>6. Allowed(m, "run")
  BY DEF Allowed, Staging, Cleaning, FileCalls
<1>7. ASSUME NEW r \in Ranks PROVE Temporaries(r)' /\ Session(r)' /\ Artifact(r)'
  <2>1. r \notin temp
    BY DEF IndInv, Temporaries
  <2>2. Temporaries(r)'
    BY <1>2, <2>1 DEF Temporaries, FileCalls
  <2>3. mode # "collective" /\ staged[r] => r \in Owners
    BY DEF IndInv, Session
  <2>4. Session(r)'
    BY <1>1, <1>2, <2>3 DEF Session
  <2>5. Artifact(r)'
    BY <1>2 DEF Artifact
  <2> QED BY <2>2, <2>4, <2>5
<1> QED BY <1>3, <1>4, <1>5, <1>6, <1>7, TogetherStep DEF IndInv

\* The gather of the finalizers.
LEMMA FinalizeGatherStep ==
  ASSUME IndInv, FinalizeGather
  PROVE  IndInv'
<1> USE DEF session, files, verdicts
<1>0. Types /\ Files /\ Root \in Ranks
  BY OutputAssumption DEF IndInv
<1> DEFINE done(l, r) == IF l = "series" THEN [Due(r) EXCEPT !.series = ~Failed(r)]
                                         ELSE [Due(r) EXCEPT !.writer = ~Failed(r)]
           rest(r) == Tail(fin[r].queue)
           where(l, r) == IF l = "series" /\ ~done(l, r).writer
                          THEN [label |-> "finalize",
                                fin |-> [fin[r] EXCEPT !.queue = <<done(l, r)>> \o rest(r)]]
                          ELSE Loop(rest(r),
                                    IF Unfinished(done(l, r)) THEN Append(fin[r].kept, done(l, r))
                                                              ELSE fin[r].kept,
                                    fin[r].after)
<1>1. PICK l \in {"series", "finalize"} :
        /\ All(l, "gather")
        /\ label' = [r \in Ranks |-> where(l, r).label]
        /\ fin' = [r \in Ranks |-> where(l, r).fin]
  BY DEF FinalizeGather
<1>2. /\ stage' = [r \in Ranks |-> "run"] /\ err' = [r \in Ranks |-> FALSE]
      /\ UNCHANGED <<mode, sample, spent, staged, created, withdrawn, temp, disk, accepted, dirty>>
  BY DEF FinalizeGather
<1>3. ASSUME NEW r \in Ranks
      PROVE  label[r] = l /\ stage[r] = "gather" /\ Alike(r) /\ Session(r) /\ Shaped(r)
  BY <1>1 DEF IndInv, All
<1>4. \A r \in Ranks : where(l, r) = where(l, Root)
  <2>1. ASSUME NEW r \in Ranks PROVE fin[r] = fin[Root] /\ (Failed(r) <=> Failed(Root))
    BY <1>3 DEF Alike, Failed
  <2>2. ASSUME NEW r \in Ranks PROVE done(l, r) = done(l, Root) /\ rest(r) = rest(Root)
    BY <2>1 DEF Due
  <2> QED BY <2>1, <2>2
<1>5. PICK m : m = where(l, Root).label
  OBVIOUS
<1>6. PICK f : f = where(l, Root).fin
  OBVIOUS
<1>7. Together(m, "run") /\ fin' = [r \in Ranks |-> f]
  <2> HIDE DEF where
  <2> QED BY <1>1, <1>2, <1>4, <1>5, <1>6 DEF Together
<1>8. /\ m \in {"series", "finalize", "writer", "idle"}
      /\ f = [queue |-> f.queue, kept |-> f.kept, after |-> f.after]
      /\ m = "writer" => fin[Root].after = "prepare"
      /\ f.after \in {fin[Root].after, "rest"}
  <2> HIDE DEF done
  <2>1. CASE l = "series" /\ ~done(l, Root).writer
    <3>1. where(l, Root) = [label |-> "finalize",
                            fin |-> [fin[Root] EXCEPT !.queue = <<done(l, Root)>> \o rest(Root)]]
      BY <2>1
    <3>2. PICK q : q = <<done(l, Root)>> \o rest(Root)
      OBVIOUS
    <3>3. f = [fin[Root] EXCEPT !.queue = q]
      BY <1>6, <3>1, <3>2
    <3>4. PICK g : fin[Root] = g
      OBVIOUS
    <3>5. g = [queue |-> g.queue, kept |-> g.kept, after |-> g.after]
      BY <1>0, <1>3, <3>4 DEF Shaped
    <3>6. [g EXCEPT !.queue = q] = [queue |-> q, kept |-> g.kept, after |-> g.after]
      BY ONLY <3>5
    <3>7. f = [queue |-> q, kept |-> fin[Root].kept, after |-> fin[Root].after]
      BY <3>3, <3>4, <3>6
    <3> QED BY <1>5, <3>1, <3>7
  <2>2. CASE ~(l = "series" /\ ~done(l, Root).writer)
    <3>1. PICK k : k = IF Unfinished(done(l, Root)) THEN Append(fin[Root].kept, done(l, Root))
                                                    ELSE fin[Root].kept
      OBVIOUS
    <3>2. where(l, Root) = Loop(rest(Root), k, fin[Root].after)
      BY <2>2, <3>1
    <3> HIDE DEF rest, where
    <3> QED BY <1>5, <1>6, <3>2, LoopFacts
  <2> QED BY <2>1, <2>2
<1>9. ASSUME NEW r \in Ranks
      PROVE  m = "writer" \/ (m # "idle" /\ f.after = "prepare") => ~created'[r]
  <2>1. fin[r].after = fin[Root].after
    BY <1>3 DEF Alike
  <2> QED BY <1>2, <1>3, <1>8, <2>1 DEF Session
<1>10. sample' \in accepted => m = "idle" \/ (m # "writer" /\ f.after # "prepare")
  BY <1>0, <1>2, <1>3, <1>8 DEF Files
<1>11. ASSUME NEW r \in Ranks
       PROVE  /\ spent'[r] = spent'[Root] /\ withdrawn'[r] = withdrawn'[Root]
              /\ mode = "collective" => staged'[r] = staged'[Root]
              /\ mode # "collective" /\ staged'[r] => staged[r]
  BY <1>2, <1>3 DEF Alike
<1>12. /\ sample' \in Nat /\ accepted \subseteq 0 .. sample' /\ err' \in [Ranks -> BOOLEAN]
       /\ staged' \in [Ranks -> BOOLEAN] /\ created' \in [Ranks -> BOOLEAN]
       /\ withdrawn' \in [Ranks -> BOOLEAN]
  BY <1>0, <1>2 DEF Types
<1>13. \A r \in Ranks : label[r] \in {"idle", "series", "finalize"}
  BY <1>3
<1> HIDE DEF done, rest, where
<1> QED BY <1>0, <1>2, <1>7, <1>8, <1>9, <1>10, <1>11, <1>12, <1>13, LoopStep

\* The program starts a sample, or retries the finalizers it kept.
LEMMA ProgramStep ==
  ASSUME IndInv, Step \/ RetryConsumerFinalizers
  PROVE  IndInv'
<1> USE DEF session, files, verdicts
<1>0. Types /\ Files /\ Root \in Ranks
  BY OutputAssumption DEF IndInv
<1>1. PICK a \in {"prepare", "rest"} :
        /\ Enters([r \in Ranks |-> Loop(fin[r].kept, <<>>, a)])
        /\ \/ a = "prepare" /\ Step
           \/ a = "rest" /\ RetryConsumerFinalizers
  BY DEF Step, RetryConsumerFinalizers
<1>2. PICK k : \A r \in Ranks : fin[r].kept = k
  BY <1>0 DEF IndInv, Alike
<1>3. PICK m : m = Loop(k, <<>>, a).label
  OBVIOUS
<1>4. PICK f : f = Loop(k, <<>>, a).fin
  OBVIOUS
<1>5. label' = [r \in Ranks |-> m] /\ fin' = [r \in Ranks |-> f]
  BY <1>1, <1>2, <1>3, <1>4 DEF Enters
<1>6. Together(m, "run")
  BY <1>1, <1>5 DEF Together, Step, RetryConsumerFinalizers
<1>7. /\ m \in {"series", "finalize", "writer", "idle"}
      /\ f = [queue |-> f.queue, kept |-> f.kept, after |-> f.after]
      /\ m = "writer" => a = "prepare"
      /\ f.after \in {a, "rest"}
  BY <1>3, <1>4, LoopFacts
<1>8. UNCHANGED <<mode, err, temp, disk, accepted, dirty>>
  BY DEF Step, RetryConsumerFinalizers
<1>9. \A r \in Ranks : label[r] \in {"idle", "series", "finalize"}
  BY DEF Step, RetryConsumerFinalizers, Resting
<1>10. ASSUME NEW r \in Ranks PROVE Alike(r)
  BY DEF IndInv
<1>11. CASE a = "prepare"
  <2>1. /\ sample' \in {sample + 1} \cup ({sample} \ (accepted \cup {0}))
        /\ spent' = [r \in Ranks |-> 1]
        /\ staged' = [r \in Ranks |-> FALSE] /\ created' = [r \in Ranks |-> FALSE]
        /\ withdrawn' = [r \in Ranks |-> FALSE]
    BY <1>1, <1>11 DEF Step
  <2>2. sample' \in Nat /\ accepted \subseteq 0 .. sample' /\ sample' \notin accepted
    <3>1. sample \in Nat /\ accepted \subseteq 0 .. sample
      BY <1>0 DEF Types
    <3>2. CASE sample' = sample + 1
      BY <3>1, <3>2
    <3>3. CASE sample' = sample /\ sample \notin accepted
      BY <3>1, <3>3
    <3> QED BY <2>1, <3>2, <3>3
  <2>3. /\ err' \in [Ranks -> BOOLEAN] /\ staged' \in [Ranks -> BOOLEAN]
        /\ created' \in [Ranks -> BOOLEAN] /\ withdrawn' \in [Ranks -> BOOLEAN]
    BY <1>0, <1>8, <2>1 DEF Types
  <2>4. \A r \in Ranks :
          /\ spent'[r] = spent'[Root] /\ withdrawn'[r] = withdrawn'[Root]
          /\ staged'[r] = staged'[Root] /\ ~staged'[r] /\ ~created'[r]
    BY <1>0, <2>1
  <2> QED BY <1>0, <1>5, <1>6, <1>7, <1>8, <1>9, <2>2, <2>3, <2>4, LoopStep
<1>12. CASE a = "rest"
  <2>1. UNCHANGED <<sample, spent, staged, created, withdrawn>>
    BY <1>1, <1>12 DEF RetryConsumerFinalizers
  <2>2. sample' \in Nat /\ accepted \subseteq 0 .. sample'
    BY <1>0, <2>1 DEF Types
  <2>3. /\ err' \in [Ranks -> BOOLEAN] /\ staged' \in [Ranks -> BOOLEAN]
        /\ created' \in [Ranks -> BOOLEAN] /\ withdrawn' \in [Ranks -> BOOLEAN]
    BY <1>0, <1>8, <2>1 DEF Types
  <2>4. m # "writer" /\ f.after # "prepare"
    BY <1>7, <1>12
  <2>5. \A r \in Ranks :
          /\ spent'[r] = spent'[Root] /\ withdrawn'[r] = withdrawn'[Root]
          /\ mode = "collective" => staged'[r] = staged'[Root]
          /\ mode # "collective" /\ staged'[r] => staged[r]
    BY <1>10, <2>1 DEF Alike
  <2> QED BY <1>0, <1>5, <1>6, <1>7, <1>8, <1>9, <2>2, <2>3, <2>4, <2>5, LoopStep
<1> QED BY <1>11, <1>12
-----------------------------------------------------------------------------
\* The invariant holds before the first sample.
LEMMA InitIndInv == Init => IndInv
<1> SUFFICES ASSUME Init PROVE IndInv
  OBVIOUS
<1>0. Root \in Ranks /\ mode \in {"root", "per_rank", "collective"}
  BY OutputAssumption DEF Init
<1>1. \A r \in Ranks :
        /\ label[r] = "preflight" /\ stage[r] = "run" /\ err[r] = FALSE /\ spent[r] = 0
        /\ staged[r] = FALSE /\ created[r] = FALSE /\ withdrawn[r] = FALSE
        /\ fin[r] = [queue |-> <<>>, kept |-> <<>>, after |-> "rest"]
  BY DEF Init
<1>2. temp = {} /\ disk = {} /\ accepted = {} /\ sample = 0
  BY DEF Init
<1>3. Types
  <2>1. label \in [Ranks -> Labels] /\ stage \in [Ranks -> {"run", "root"} \cup Blocked]
    BY DEF Init, Labels
  <2>2. /\ err \in [Ranks -> BOOLEAN] /\ staged \in [Ranks -> BOOLEAN]
        /\ created \in [Ranks -> BOOLEAN] /\ withdrawn \in [Ranks -> BOOLEAN]
    BY DEF Init
  <2> QED BY <1>0, <1>2, <2>1, <2>2 DEF Types
<1>4. Files
  BY <1>0, <1>1, <1>2 DEF Files, Settled
<1>5. ASSUME NEW r \in Ranks PROVE Alike(r) /\ Shaped(r) /\ Place(r)
  BY <1>0, <1>1 DEF Alike, Shaped, Place, FileCalls, Staging, Cleaning
<1>6. ASSUME NEW r \in Ranks PROVE Temporaries(r) /\ Session(r) /\ Artifact(r)
  BY <1>1, <1>2 DEF Temporaries, Session, Artifact, FileCalls
<1>7. ASSUME NEW r \in Ranks, NEW s \in Ranks PROVE Meeting(r, s)
  BY <1>1 DEF Meeting
<1> QED BY <1>3, <1>4, <1>5, <1>6, <1>7 DEF IndInv

\* A step that changes nothing keeps the invariant.
LEMMA StutterIndInv == IndInv /\ UNCHANGED vars => IndInv'
<1> SUFFICES ASSUME IndInv, UNCHANGED vars PROVE IndInv'
  OBVIOUS
<1>1. UNCHANGED <<mode, sample, label, stage, err, spent, staged, created, withdrawn, fin, temp,
                  disk, accepted, dirty>>
  BY DEF vars, control, session, files, verdicts
<1>2. Owners' = Owners
  BY <1>1 DEF Owners
<1>3. Types' /\ Files'
  BY <1>1, <1>2 DEF IndInv, Types, Files, Settled
<1>4. ASSUME NEW r \in Ranks PROVE Alike(r)' /\ Shaped(r)' /\ Place(r)'
  BY <1>1 DEF IndInv, Alike, Shaped, Place, Meets
<1>5. ASSUME NEW r \in Ranks PROVE Temporaries(r)' /\ Session(r)' /\ Artifact(r)'
  BY <1>1, <1>2 DEF IndInv, Temporaries, Session, Artifact, Acted
<1>6. ASSUME NEW r \in Ranks, NEW s \in Ranks PROVE Meeting(r, s)'
  BY <1>1 DEF IndInv, Meeting, Meets
<1> QED BY <1>3, <1>4, <1>5, <1>6 DEF IndInv

\* Every step of a rank, every collective and every step of the program keeps
\* the invariant.
LEMMA NextIndInv == IndInv /\ [Next]_vars => IndInv'
<1> SUFFICES ASSUME IndInv, [Next]_vars PROVE IndInv'
  OBVIOUS
<1>1. CASE Step \/ RetryConsumerFinalizers
  BY <1>1, ProgramStep
<1>2. ASSUME NEW r \in Ranks, Local(r) PROVE IndInv'
  BY <1>2, CheckStep, CreateTemporaryStep, CollectiveRemoveStep, StageFileStep, EnterBarrierStep,
     SkipStep, DiscardStep, PublishStep, RollbackStep, FinalizerStep DEF Local
<1>3. CASE Collective
  BY <1>3, SharedStep, PrepareGatherStep, CleanupGatherStep, StageGatherStep, AbortGatherStep,
     DiscardGatherStep, PublishGatherStep, RollbackGatherStep, FinalizeGatherStep DEF Collective
<1>4. CASE UNCHANGED vars
  BY <1>4, StutterIndInv
<1> QED BY <1>1, <1>2, <1>3, <1>4 DEF Next

\* While one rank waits in a collective, every rank that waits is in the same
\* collective of the same call: whatever fails on whichever rank, no rank is
\* left alone in a barrier, a broadcast or a gather.
THEOREM RanksMeet == Spec => []CollectivesMatch
<1>1. IndInv => CollectivesMatch
  <2> SUFFICES ASSUME IndInv, NEW r \in Ranks, NEW s \in Ranks,
                      stage[r] \in Blocked, stage[s] \in Blocked
               PROVE  label[r] = label[s] /\ stage[r] = stage[s]
    BY DEF CollectivesMatch
  <2>1. label[r] = label[s]
    BY MeetsAlike
  <2>2. Meeting(r, s) /\ Meeting(s, r)
    BY DEF IndInv
  <2>3. stage[r] = stage[s]
    BY <2>2 DEF Meeting, Blocked
  <2> QED BY <2>1, <2>3
<1> QED BY <1>1, InitIndInv, NextIndInv, PTL DEF Spec

\* Between steps an accepted sample has the file of every writing rank, a sample
\* that was not accepted has none unless the failure of its rollback was
\* reported, and no temporary is left in the way of the next attempt.
THEOREM OutputsAreAllOrNone == Spec => []OutputAllOrNone
<1>1. IndInv => OutputAllOrNone
  <2> SUFFICES ASSUME IndInv, Resting PROVE OutputAllOrNone
    BY DEF OutputAllOrNone
  <2>0. Types /\ Files /\ Root \in Ranks /\ \A r \in Ranks : label[r] = "idle"
    BY OutputAssumption DEF IndInv, Resting
  <2>1. Owners \subseteq Ranks
    BY <2>0 DEF Owners
  <2>2. temp = {}
    <3>1. \A r \in Ranks : r \notin temp
      BY <2>0 DEF IndInv, Temporaries
    <3> QED BY <2>0, <2>1, <3>1 DEF Types
  <2>3. ASSUME NEW s \in 1 .. MaxSamples
        PROVE  LET present == {r \in Ranks : <<s, r>> \in disk} IN
               IF s \in accepted THEN present = Owners ELSE present = {} \/ s \in dirty
    <3>0. s \in Nat
      BY OutputAssumption
    <3>1. Settled(s)
      BY <2>0, <3>0 DEF Files
    <3>2. \A r \in Ranks : <<s, r>> \in disk => r \in Owners
      BY <2>0, <3>0 DEF Files
    <3>3. CASE s \in accepted
      BY <2>1, <3>1, <3>2, <3>3 DEF Settled
    <3>4. CASE s \notin accepted
      BY <3>1, <3>4 DEF Settled
    <3> QED BY <3>3, <3>4
  <2> QED BY <2>2, <2>3 DEF OutputAllOrNone
<1> QED BY <1>1, InitIndInv, NextIndInv, PTL DEF Spec
-----------------------------------------------------------------------------
(***************************************************************************)
(* The catalogue                                                           *)
(***************************************************************************)

\* The lists of a set of naturals in increasing order.
Increasing(q) == \A i, j \in DOMAIN q : i < j => q[i] < q[j]
Listings(S) == {q \in [1 .. Cardinality(S) -> S] : Range(q) = S /\ Increasing(q)}

\* A nonempty set of naturals has a least element.
LEMMA Smallest ==
  ASSUME NEW S \in SUBSET Nat, S # {}
  PROVE  \E x \in S : \A y \in S : x <= y
<1>1. PICK R : R = {p \in Nat \X Nat : p[1] < p[2]}
  OBVIOUS
<1>2. IsWellFoundedOn(R, Nat)
  BY <1>1, NatLessThanWellFounded DEF OpToRel
<1>3. \E x \in S : \A y \in S : ~(<<y, x>> \in R)
  BY <1>2, WFMin, Zenon
<1>4. \A x, y \in Nat : <<y, x>> \in R <=> y < x
  BY <1>1
<1>5. PICK x \in S : \A y \in S : ~(<<y, x>> \in R)
  BY <1>3
<1>6. \A y \in S : x <= y
  <2> SUFFICES ASSUME NEW y \in S PROVE x <= y
    OBVIOUS
  <2>1. x \in Nat /\ y \in Nat /\ ~(y < x)
    BY <1>4, <1>5
  <2> QED
    BY <2>1
<1> QED
  BY <1>6

\* Every finite set of naturals can be listed in order: a smallest set without such a
\* list would have one, its least element followed by the list of the others.
LEMMA Sorted ==
  ASSUME NEW S \in SUBSET Nat, IsFiniteSet(S)
  PROVE  Listings(S) # {}
<1> DEFINE Bad == {n \in Nat : \E T \in SUBSET Nat :
                     IsFiniteSet(T) /\ Cardinality(T) = n /\ Listings(T) = {}}
<1>1. ASSUME Bad # {} PROVE FALSE
  <2>1. PICK n \in Bad : \A m \in Bad : n <= m
    BY <1>1, Smallest
  <2>2. PICK T \in SUBSET Nat : IsFiniteSet(T) /\ Cardinality(T) = n /\ Listings(T) = {}
    BY <2>1
  <2>3. CASE T = {}
    <3>1. Cardinality(T) = 0
      BY <2>3, FS_EmptySet
    <3>2. <<>> \in [1 .. 0 -> T]
      OBVIOUS
    <3>3. Range(<<>>) = T
      BY <2>3 DEF Range
    <3>4. Increasing(<<>>)
      BY DEF Increasing
    <3>5. <<>> \in Listings(T)
      BY <3>1, <3>2, <3>3, <3>4 DEF Listings
    <3> QED
      BY <2>2, <3>5
  <2>4. CASE T # {}
    <3>1. PICK x \in T : \A y \in T : x <= y
      BY <2>4, Smallest
    <3>2. PICK U \in SUBSET Nat : U = T \ {x}
      OBVIOUS
    <3>3. IsFiniteSet(U) /\ Cardinality(U) = n - 1 /\ n - 1 \in Nat
      <4>1. IsFiniteSet(T \ {x}) /\ Cardinality(T \ {x}) = Cardinality(T) - 1
        BY <2>2, <3>1, FS_RemoveElement
      <4>2. Cardinality(T \ {x}) \in Nat
        BY <4>1, FS_CardinalityType
      <4> QED
        BY <2>2, <3>2, <4>1, <4>2
    <3>4. PICK q \in Listings(U) : TRUE
      BY <2>1, <3>3
    <3>5. q \in [1 .. (n - 1) -> U] /\ Range(q) = U /\ Increasing(q)
      BY <3>3, <3>4 DEF Listings
    <3>6. PICK p : p = [i \in 1 .. n |-> IF i = 1 THEN x ELSE q[i - 1]]
      OBVIOUS
    <3>7. n \in Nat /\ DOMAIN p = 1 .. n
      BY <2>1, <3>6
    <3>8. \A i \in 1 .. n : /\ i = 1 => p[i] = x
                            /\ i # 1 => i - 1 \in 1 .. (n - 1) /\ p[i] = q[i - 1] /\ p[i] \in U
      BY <3>5, <3>6, <3>7
    <3>9. p \in [1 .. n -> T]
      BY <3>1, <3>2, <3>6, <3>7, <3>8
    <3>10. Increasing(p)
      <4> SUFFICES ASSUME NEW i \in 1 .. n, NEW j \in 1 .. n, i < j PROVE p[i] < p[j]
        BY <3>7 DEF Increasing
      <4>1. j # 1 /\ p[j] = q[j - 1] /\ p[j] \in U /\ j - 1 \in 1 .. (n - 1)
        BY <3>7, <3>8
      <4>2. CASE i = 1
        <5>1. p[j] \in Nat /\ x \in Nat /\ x <= p[j] /\ x # p[j]
          BY <3>1, <3>2, <4>1
        <5> QED
          BY <3>8, <4>2, <5>1
      <4>3. CASE i # 1
        <5>1. i - 1 \in 1 .. (n - 1) /\ p[i] = q[i - 1] /\ i - 1 < j - 1
          BY <3>7, <3>8, <4>3
        <5> QED
          BY <3>5, <4>1, <5>1 DEF Increasing
      <4> QED
        BY <4>2, <4>3
    <3>11. Range(p) = T
      <4>1. Range(p) \subseteq T
        BY <3>7, <3>9 DEF Range
      <4>2. ASSUME NEW y \in T PROVE y \in Range(p)
        <5>1. CASE y = x
          <6>1. 1 \in 1 .. n
            BY <3>3, <3>7
          <6> QED
            BY <3>7, <3>8, <5>1, <6>1 DEF Range
        <5>2. CASE y # x
          <6>1. PICK i \in 1 .. (n - 1) : q[i] = y
            BY <3>2, <3>5, <5>2 DEF Range
          <6>2. i + 1 \in 1 .. n /\ i + 1 # 1 /\ (i + 1) - 1 = i
            BY <3>3, <3>7
          <6>3. p[i + 1] = y
            BY <3>8, <6>1, <6>2
          <6> QED
            BY <3>7, <6>2, <6>3 DEF Range
        <5> QED
          BY <5>1, <5>2
      <4> QED
        BY <4>1, <4>2
    <3>12. p \in Listings(T)
      BY <2>2, <3>9, <3>10, <3>11 DEF Listings
    <3> QED
      BY <2>2, <3>12
  <2> QED
    BY <2>3, <2>4
<1>2. Cardinality(S) \in Nat
  BY FS_CardinalityType
<1> QED
  BY <1>1, <1>2

\* The rebuilt catalogue lists exactly the members on disk, in clock order.
LEMMA RebuiltIsSorted ==
  ASSUME IndInv, CatInv
  PROVE  /\ Rebuilt \in Seq(Nat) /\ Range(Rebuilt) = Family
         /\ \A i, j \in 1 .. Len(Rebuilt) : i < j => Rebuilt[i] < Rebuilt[j]
<1>1. sample \in Nat /\ disk \subseteq (0 .. sample) \X Ranks
  BY DEF IndInv, Types, CatInv, Records
<1>2. Family \in SUBSET Nat /\ \A s \in Family : s <= sample
  BY <1>1 DEF Family
<1>3. IsFiniteSet(Family)
  BY <1>1, <1>2, FS_BoundedSetOfNaturals
<1>4. Cardinality(Family) \in Nat
  BY <1>3, FS_CardinalityType
<1>5. Listings(Family) # {}
  BY <1>2, <1>3, Sorted
<1>6. PICK F : F = Family
  OBVIOUS
<1>7. Rebuilt \in Listings(F)
  <2>1. \E q \in [1 .. Cardinality(F) -> F] :
          Range(q) = F /\ \A i, j \in DOMAIN q : i < j => q[i] < q[j]
    BY <1>5, <1>6 DEF Listings, Increasing
  <2>2. PICK q : q = CHOOSE list \in [1 .. Cardinality(F) -> F] :
                   Range(list) = F /\ \A i, j \in DOMAIN list : i < j => list[i] < list[j]
    OBVIOUS
  <2>3. q \in Listings(F)
    BY <2>1, <2>2 DEF Listings, Increasing
  <2> QED
    BY <1>6, <2>2, <2>3 DEF Rebuilt
<1>8. /\ Rebuilt \in [1 .. Cardinality(F) -> F] /\ Range(Rebuilt) = F
      /\ \A i, j \in DOMAIN Rebuilt : i < j => Rebuilt[i] < Rebuilt[j]
  BY <1>7 DEF Listings, Increasing
<1>9. Rebuilt \in Seq(Nat) /\ Len(Rebuilt) = Cardinality(F)
  <2>1. PICK n \in Nat : n = Cardinality(F)
    BY <1>4, <1>6
  <2>2. Rebuilt \in [1 .. n -> Nat]
    BY <1>2, <1>6, <1>8, <2>1
  <2> QED
    BY <2>1, <2>2
<1> QED
  BY <1>6, <1>8, <1>9

\* Steps that leave the catalogue and the finalizers alone.
LEMMA CatFrame ==
  ASSUME IndInv, IndInv', CatInv, UNCHANGED <<mode, sample, fin, index, accepted>>,
         dirty \subseteq dirty', dirty' \subseteq 0 .. sample, disk' \subseteq (0 .. sample) \X Ranks,
         label'[Root] \in Finalizing <=> label[Root] \in Finalizing, label'[Root] # "series",
         \A s \in Listed : <<s, Root>> \in disk',
         label'[Root] \in {"publish", "rollback"} /\ created'[Root] => sample \notin Listed
  PROVE  CatInv'
<1>1. Listed' = Listed /\ Owned' = Owned /\ HasSeries' = HasSeries
  BY DEF Listed, Owned, HasSeries
<1>2. Records'
  BY <1>1 DEF CatInv, Records
<1>3. Catalogue'
  BY <1>1 DEF CatInv, Catalogue
<1>4. \A r \in Ranks : SeriesCall(r)'
  BY DEF IndInv, Alike, SeriesCall
<1> QED
  BY <1>2, <1>3, <1>4 DEF CatInv

\* What a loop over finalizers owns is what it was given.
LEMMA LoopOwns ==
  ASSUME NEW q \in Seq(Finalizers), NEW k \in Seq(Finalizers), NEW a, NEW f,
         f = Loop(q, k, a).fin
  PROVE  /\ f.queue \in Seq(Finalizers) /\ f.kept \in Seq(Finalizers)
         /\ Range(f.queue) \cup Range(f.kept) = Range(q) \cup Range(k)
         /\ f.queue # <<>> <=> Loop(q, k, a).label \in Finalizing
         /\ Loop(q, k, a).label = "series" => ~Head(f.queue).series
<1>1. CASE q # <<>>
  <2>1. f.queue = q /\ f.kept = k /\ Loop(q, k, a).label = Owes(Head(q))
    BY <1>1 DEF Loop
  <2> QED
    BY <1>1, <2>1 DEF Owes, Finalizing
<1>2. CASE q = <<>> /\ a = "seal" /\ k # <<>>
  <2>1. f.queue = k /\ f.kept = <<>> /\ Loop(q, k, a).label = Owes(Head(k))
    BY <1>2 DEF Loop
  <2>2. Range(q) = {} /\ Range(f.kept) = {}
    BY <1>2, <2>1 DEF Range
  <2> QED
    BY <1>2, <2>1, <2>2 DEF Owes, Finalizing
<1>3. CASE q = <<>> /\ ~(a = "seal" /\ k # <<>>)
  <2>1. f.queue = <<>> /\ f.kept = k /\ Loop(q, k, a).label \in {"writer", "idle"}
    BY <1>3 DEF Loop
  <2> QED
    BY <1>3, <2>1 DEF Finalizing
<1> QED
  BY <1>1, <1>2, <1>3

\* A call that touches neither files nor verdicts.
LEMMA CatQuiet ==
  ASSUME IndInv, IndInv', CatInv, label[Root] # "series",
         UNCHANGED <<mode, sample, label, fin, index, accepted, dirty, disk, created>>
  PROVE  CatInv'
<1>1. /\ dirty \subseteq dirty' /\ dirty' \subseteq 0 .. sample /\ disk' \subseteq (0 .. sample) \X Ranks
      /\ \A s \in Listed : <<s, Root>> \in disk'
      /\ label'[Root] \in {"publish", "rollback"} /\ created'[Root] => sample \notin Listed
  BY DEF CatInv, Records, Catalogue
<1> QED
  BY <1>1, CatFrame

\* A gather of prepare sends the ranks to another call of prepare.
LEMMA CatMove ==
  ASSUME IndInv, IndInv', CatInv,
         UNCHANGED <<mode, sample, fin, index, accepted, dirty, disk, created>>,
         label[Root] \notin {"publish", "rollback", "idle"} \cup Finalizing,
         label'[Root] \notin Finalizing
  PROVE  CatInv'
<1>1. Root \in Ranks /\ ~created[Root]
  BY OutputAssumption DEF IndInv, Session, Finalizing
<1>2. /\ dirty \subseteq dirty' /\ dirty' \subseteq 0 .. sample /\ disk' \subseteq (0 .. sample) \X Ranks
      /\ \A s \in Listed : <<s, Root>> \in disk' /\ label'[Root] # "series"
  BY DEF CatInv, Records, Catalogue, Finalizing
<1> QED
  BY <1>1, <1>2, CatFrame DEF Finalizing

\* Local calls other than those on files at their targets and on the series.
LEMMA CatCalls ==
  ASSUME IndInv, IndInv', CatInv, NEW r \in Ranks,
         \/ Check(r) \/ CreateTemporary(r) \/ CollectiveRemove(r) \/ StageFile(r)
         \/ EnterBarrier(r) \/ Skip(r) \/ Discard(r) \/ FinalizeWriter(r)
  PROVE  CatInv'
<1>1. UNCHANGED <<mode, sample, label, fin, index, accepted, dirty, disk, created>>
  BY DEF Check, CreateTemporary, CollectiveRemove, StageFile, EnterBarrier, Skip, Discard,
         FinalizeWriter, session, files, verdicts
<1>2. label[r] # "series"
  BY StageNames DEF Check, CreateTemporary, CollectiveRemove, StageFile, EnterBarrier, Skip, Discard,
         FinalizeWriter, Runs, Acts, FileCalls, Staging
<1>3. label[Root] = label[r]
  BY DEF IndInv, Alike
<1> QED
  BY <1>1, <1>2, <1>3, CatQuiet

\* The barriers of a shared file.
LEMMA CatBarrier ==
  ASSUME IndInv, IndInv', CatInv, MeetBarrier \/ Broadcast \/ LeaveBarrier
  PROVE  CatInv'
<1>1. UNCHANGED <<mode, sample, label, fin, index, accepted, dirty, disk, created>>
  BY DEF MeetBarrier, Broadcast, LeaveBarrier, session, files, verdicts
<1>2. label[Root] # "series"
  BY OutputAssumption DEF MeetBarrier, Broadcast, LeaveBarrier, All, FileCalls
<1> QED
  BY <1>1, <1>2, CatQuiet

\* A publication links the file of the current sample; what was listed stays.
LEMMA CatPublish ==
  ASSUME IndInv, IndInv', CatInv, NEW r \in Ranks, Publish(r)
  PROVE  CatInv'
<1>0. Types /\ Root \in Ranks /\ label[Root] = label[r] /\ label[r] = "publish"
  BY OutputAssumption DEF IndInv, Alike, Publish, Acts
<1>1. UNCHANGED <<mode, sample, label, fin, index, accepted, dirty>>
  BY DEF Publish, verdicts
<1>2. PICK fate \in {"done", "verify", "removal", "evidence"} :
        IF fate = "verify" THEN UNCHANGED <<disk, created>>
        ELSE /\ disk' = disk \cup {<<sample, r>>}
             /\ created' = [created EXCEPT ![r] = <<sample, r>> \notin disk]
  BY DEF Publish
<1>3. disk \subseteq disk' /\ disk' \subseteq (0 .. sample) \X Ranks
  <2>1. disk \subseteq (0 .. sample) \X Ranks /\ sample \in 0 .. sample
    BY <1>0 DEF CatInv, Records, Types
  <2> QED
    BY <1>2, <2>1
<1>4. dirty \subseteq dirty' /\ dirty' \subseteq 0 .. sample
  BY <1>1 DEF CatInv, Records
<1>5. \A s \in Listed : <<s, Root>> \in disk'
  BY <1>3 DEF CatInv, Catalogue
<1>6. created'[Root] => sample \notin Listed
  <2>1. CASE created'[Root] = created[Root]
    BY <1>0, <2>1 DEF CatInv, Catalogue
  <2>2. CASE created'[Root] # created[Root]
    <3>1. created'[Root] => <<sample, Root>> \notin disk
      BY <1>0, <1>2, <2>2 DEF Types
    <3> QED
      BY <3>1 DEF CatInv, Catalogue
  <2> QED
    BY <2>1, <2>2
<1> QED
  BY <1>0, <1>1, <1>3, <1>4, <1>5, <1>6, CatFrame

\* A rollback removes a file only where this attempt created it, and such a sample
\* is not listed.
LEMMA CatRollback ==
  ASSUME IndInv, IndInv', CatInv, NEW r \in Ranks, Rollback(r)
  PROVE  CatInv'
<1>0. Types /\ Root \in Ranks /\ label[Root] = label[r] /\ label[r] = "rollback"
  BY OutputAssumption DEF IndInv, Alike, Rollback, Acts
<1>1. UNCHANGED <<mode, sample, label, fin, index, accepted, dirty, created>>
  BY DEF Rollback, verdicts, session
<1>2. disk' \in {disk, disk \ {<<sample, r>>}} /\ (disk' # disk => created[r])
  BY DEF Rollback
<1>3. /\ dirty \subseteq dirty' /\ dirty' \subseteq 0 .. sample
      /\ disk' \subseteq (0 .. sample) \X Ranks
  BY <1>1, <1>2 DEF CatInv, Records
<1>4. created[Root] => sample \notin Listed
  BY <1>0 DEF CatInv, Catalogue
<1>5. ASSUME NEW s \in Listed PROVE <<s, Root>> \in disk'
  <2>1. <<s, Root>> \in disk
    BY DEF CatInv, Catalogue
  <2>2. CASE disk' = disk
    BY <2>1, <2>2
  <2>3. CASE disk' # disk
    <3>1. <<s, Root>> # <<sample, r>>
      BY <1>2, <1>4, <2>3
    <3> QED
      BY <1>2, <2>1, <2>3, <3>1
  <2> QED
    BY <2>2, <2>3
<1> QED
  BY <1>0, <1>1, <1>3, <1>4, <1>5, CatFrame

\* The gathers of prepare.
LEMMA CatPrepare ==
  ASSUME IndInv, IndInv', CatInv,
         PrepareGather \/ CleanupGather \/ StageGather \/ AbortGather \/ DiscardGather
  PROVE  CatInv'
<1>0. Root \in Ranks
  BY OutputAssumption
<1>1. UNCHANGED <<mode, sample, fin, index, accepted, dirty, disk, created>>
  BY DEF PrepareGather, CleanupGather, StageGather, AbortGather, DiscardGather, session, files, verdicts
<1>2. /\ label[Root] \notin {"publish", "rollback", "idle"} \cup Finalizing
      /\ label'[Root] \notin Finalizing
  <2>1. CASE PrepareGather
    <3>1. PICK l \in {"preflight", "writer", "authority", "session"} \cup Range(StageSteps) :
            /\ label[Root] = l
            /\ label'[Root] = IF Failed(Root) THEN FailsTo(Root, l) ELSE Follows(l)
      BY <1>0, <2>1 DEF PrepareGather, All, Moves
    <3>2. l \in {"preflight", "writer", "authority", "session"} \cup Staging
      BY <3>1, StageNames
    <3>3. FailsTo(Root, l) \notin Finalizing
      BY DEF FailsTo, Retried, Finalizing
    <3>4. Follows(l) \notin Finalizing
      BY <3>2, FollowsFacts DEF Staging, Finalizing
    <3>5. l \notin {"publish", "rollback", "idle"} \cup Finalizing
      BY <3>2 DEF Staging, Finalizing
    <3> QED
      BY <3>1, <3>3, <3>4, <3>5
  <2>2. CASE CleanupGather
    BY <1>0, <2>2 DEF CleanupGather, All, Moves, Finalizing
  <2>3. CASE StageGather
    BY <1>0, <2>3 DEF StageGather, All, Moves, Finalizing
  <2>4. CASE AbortGather
    BY <1>0, <2>4 DEF AbortGather, All, Moves, Retried, Finalizing
  <2>5. CASE DiscardGather
    BY <1>0, <2>5 DEF DiscardGather, All, Moves, Finalizing
  <2> QED
    BY <2>1, <2>2, <2>3, <2>4, <2>5
<1> QED
  BY <1>1, <1>2, CatMove

\* A rollback that failed is reported.
LEMMA CatRollbackGather ==
  ASSUME IndInv, IndInv', CatInv, RollbackGather
  PROVE  CatInv'
<1>0. Types /\ Root \in Ranks
  BY OutputAssumption DEF IndInv
<1>1. /\ UNCHANGED <<mode, sample, fin, index, accepted, disk>>
      /\ label[Root] = "rollback" /\ label'[Root] \in {"idle", "writer"}
      /\ dirty' \in {dirty, dirty \cup {sample}}
  BY <1>0 DEF RollbackGather, All, Moves, Retried, files
<1>2. dirty \subseteq 0 .. sample /\ sample \in 0 .. sample /\ disk \subseteq (0 .. sample) \X Ranks
  BY <1>0 DEF CatInv, Records, Types
<1>3. \A s \in Listed : <<s, Root>> \in disk
  BY DEF CatInv, Catalogue
<1> QED
  BY <1>1, <1>2, <1>3, CatFrame DEF Finalizing

\* When no file is being published or withdrawn, a file on disk belongs to a sample
\* that was accepted or reported, and every accepted sample has one.
LEMMA FamilyFacts ==
  ASSUME IndInv, CatInv, HasSeries, label[Root] \notin {"publish", "rollback"}
  PROVE  /\ \A x \in Family : x \in Nat /\ <<x, Root>> \in disk /\ x \in accepted \cup dirty
         /\ accepted \subseteq Family
<1>0. Types /\ Files /\ Owners = {Root} /\ Root \in Ranks
  BY OutputAssumption DEF IndInv, Owners, HasSeries
<1>1. \A x \in Nat : Settled(x)
  BY <1>0 DEF Files
<1>2. ASSUME NEW x \in Family PROVE x \in Nat /\ <<x, Root>> \in disk /\ x \in accepted \cup dirty
  <2>1. PICK a \in disk : x = a[1]
    BY DEF Family
  <2>2. a \in (0 .. sample) \X Ranks /\ sample \in Nat
    BY <1>0 DEF CatInv, Records, Types
  <2>3. a = <<x, a[2]>> /\ x \in Nat /\ a[2] \in Ranks
    BY <2>1, <2>2
  <2>4. a[2] = Root
    BY <1>0, <2>1, <2>3 DEF Files
  <2> QED
    BY <1>0, <1>1, <2>1, <2>3, <2>4 DEF Settled
<1>3. ASSUME NEW x \in accepted PROVE x \in Family
  <2>1. x \in Nat
    BY <1>0 DEF Types
  <2>2. PICK a \in disk : a = <<x, Root>>
    BY <1>0, <1>1, <2>1 DEF Settled
  <2> QED
    BY <2>2 DEF Family
<1> QED
  BY <1>2, <1>3

\* What publish_output_series writes when it does not refuse.
LEMMA ListingFacts ==
  ASSUME IndInv, CatInv, HasSeries, label[Root] \notin {"publish", "rollback"},
         NEW s \in Nat, ~Refuses(s)
  PROVE  /\ Listing(s) \in Seq(Nat) /\ Range(Listing(s)) \subseteq Family /\ s \in Range(Listing(s))
         /\ \A i, j \in 1 .. Len(Listing(s)) : i < j => Listing(s)[i] < Listing(s)[j]
         /\ Listing(s) = index \/ accepted \subseteq Range(Listing(s))
<1>0. /\ index \in Seq(Nat) /\ \A i, j \in 1 .. Len(index) : i < j => index[i] < index[j]
      /\ accepted \subseteq Family /\ s \in Family /\ Listed \subseteq Family
  BY FamilyFacts DEF CatInv, Records, Catalogue, Refuses
<1>1. CASE Family \ (Listed \cup {s}) # {}
  <2>1. Listing(s) = Rebuilt
    BY <1>1 DEF Listing
  <2> QED
    BY <1>0, <2>1, RebuiltIsSorted
<1>2. CASE Family \ (Listed \cup {s}) = {} /\ s \in Listed
  <2>1. Listing(s) = index
    BY <1>2 DEF Listing
  <2> QED
    BY <1>0, <1>2, <2>1 DEF Listed
<1>3. CASE Family \ (Listed \cup {s}) = {} /\ s \notin Listed
  <2>1. PICK q : q = Append(index, s)
    OBVIOUS
  <2>2. Listing(s) = q
    BY <1>3, <2>1 DEF Listing
  <2>3. PICK n \in Nat : n = Len(index)
    BY <1>0
  <2>4. /\ q \in Seq(Nat) /\ Len(q) = n + 1 /\ q[n + 1] = s
        /\ \A i \in 1 .. n : q[i] = index[i] /\ index[i] \in Nat
    BY <1>0, <2>1, <2>3
  <2>5. Range(q) = Listed \cup {s}
    <3>1. DOMAIN q = 1 .. (n + 1) /\ DOMAIN index = 1 .. n
      BY <1>0, <2>3, <2>4
    <3>2. \A y \in Range(q) : y \in Listed \cup {s}
      <4> SUFFICES ASSUME NEW i \in 1 .. (n + 1) PROVE q[i] \in Listed \cup {s}
        BY <3>1 DEF Range
      <4>1. i = n + 1 \/ i \in 1 .. n
        OBVIOUS
      <4> QED
        BY <2>4, <3>1, <4>1 DEF Listed, Range
    <3>3. Listed \subseteq Range(q)
      <4> SUFFICES ASSUME NEW i \in 1 .. n PROVE index[i] \in Range(q)
        BY <3>1 DEF Range, Listed
      <4> QED
        BY <2>4, <3>1 DEF Range
    <3>4. n + 1 \in DOMAIN q
      BY <3>1
    <3>5. s \in Range(q)
      BY <2>4, <3>4 DEF Range
    <3> QED
      BY <3>2, <3>3, <3>5
  <2>6. \A i \in 1 .. n : index[i] < s
    <3> SUFFICES ASSUME NEW i \in 1 .. n PROVE index[i] < s
      OBVIOUS
    <3>1. index # <<>> /\ n \in 1 .. n
      BY <1>0, <2>3
    <3>2. Last(index) = index[n]
      BY <2>3 DEF Last
    <3>3. ~(s < index[n])
      BY <1>3, <3>1, <3>2 DEF Refuses
    <3>4. index[n] # s
      BY <1>0, <1>3, <2>3, <3>1 DEF Listed, Range
    <3>5. index[n] < s /\ index[n] \in Nat /\ index[i] \in Nat
      BY <2>4, <3>1, <3>3, <3>4
    <3>6. i = n \/ index[i] < index[n]
      BY <1>0, <2>3, <3>1
    <3> QED
      BY <3>5, <3>6
  <2>7. ASSUME NEW i \in 1 .. (n + 1), NEW j \in 1 .. (n + 1), i < j PROVE q[i] < q[j]
    <3>1. i \in 1 .. n /\ (j \in 1 .. n \/ j = n + 1)
      BY <2>7
    <3> QED
      BY <1>0, <2>3, <2>4, <2>6, <2>7, <3>1
  <2>8. accepted \subseteq Range(q)
    BY <1>0, <1>3, <2>5
  <2> QED
    BY <1>0, <2>2, <2>4, <2>5, <2>7, <2>8
<1> QED
  BY <1>1, <1>2, <1>3

\* The series of a finalizer.
LEMMA CatSeries ==
  ASSUME IndInv, IndInv', CatInv, NEW r \in Ranks, PublishSeries(r)
  PROVE  CatInv'
<1>0. Types /\ Root \in Ranks /\ label[Root] = label[r] /\ label[r] = "series"
  BY OutputAssumption DEF IndInv, Alike, PublishSeries, Runs
<1>1. /\ UNCHANGED <<mode, sample, label, fin, accepted, dirty, disk, created>>
      /\ stage' = [stage EXCEPT ![r] = "gather"]
  BY DEF PublishSeries, Waits, session, files, verdicts
<1>2. fin[Root].queue \in Seq(Finalizers) /\ fin[Root].queue # <<>>
  BY <1>0 DEF CatInv, Records, Finalizing
<1>3. PICK f \in Finalizers : f = Head(fin[Root].queue) /\ f \in Owned
  <2>1. PICK q \in Seq(Finalizers) : q = fin[Root].queue /\ q # <<>>
    BY <1>2
  <2>2. 1 \in DOMAIN q /\ Head(q) = q[1] /\ Head(q) \in Finalizers
    BY <2>1
  <2>3. Head(q) \in Range(q)
    BY <2>2 DEF Range
  <2> QED
    BY <2>1, <2>2, <2>3 DEF Owned
<1>4. HasSeries /\ f.sample \in Nat
  BY <1>0, <1>3 DEF CatInv, Records, Finalizers
<1>5. HasSeries' /\ Owned' = Owned
  BY <1>1, <1>4 DEF HasSeries, Owned
<1>6. CASE index' = index /\ (err'[r] \/ r # Root) /\ (r # Root => ~err'[r])
  <2>1. Listed' = Listed
    BY <1>6 DEF Listed
  <2>2. Records'
    BY <1>1, <1>5, <1>6 DEF CatInv, Records, HasSeries
  <2>3. Catalogue'
    BY <1>1, <1>5, <1>6, <2>1 DEF CatInv, Catalogue, HasSeries
  <2>4. ASSUME NEW t \in Ranks PROVE SeriesCall(t)'
    <3>1. CASE t = r
      BY <1>6, <3>1 DEF SeriesCall
    <3>2. CASE t # r
      <4>1. stage'[t] = stage[t] /\ err'[t] = err[t]
        BY <1>0, <1>1, <3>2 DEF PublishSeries, Raises, Types
      <4> QED
        BY <1>1, <2>1, <4>1 DEF CatInv, SeriesCall
    <3> QED
      BY <3>1, <3>2
  <2> QED
    BY <2>2, <2>3, <2>4 DEF CatInv
<1>7. CASE r = Root /\ ~Refuses(f.sample) /\ index' = Listing(f.sample)
  <2>1. /\ index' \in Seq(Nat) /\ Listed' \subseteq Family /\ f.sample \in Listed'
        /\ \A i, j \in 1 .. Len(index') : i < j => index'[i] < index'[j]
        /\ index' = index \/ accepted \subseteq Listed'
    BY <1>0, <1>4, <1>7, ListingFacts DEF Listed
  <2>2. Records'
    BY <1>1, <1>5, <2>1 DEF CatInv, Records, HasSeries
  <2>3. \A s \in Listed' : <<s, Root>> \in disk' /\ s \in accepted' \cup dirty'
    BY <1>0, <1>1, <1>4, <2>1, FamilyFacts
  <2>4. ASSUME NEW t \in Ranks PROVE SeriesCall(t)'
    <3>1. CASE t = Root
      BY <1>1, <1>3, <2>1, <3>1 DEF SeriesCall
    <3>2. CASE t # Root
      <4>1. stage'[t] = stage[t] /\ err'[t] = err[t]
        BY <1>0, <1>1, <1>7, <3>2 DEF PublishSeries, Raises, Types
      <4> QED
        BY <1>1, <3>2, <4>1 DEF CatInv, SeriesCall
    <3> QED
      BY <3>1, <3>2
  <2>5. Catalogue'
    <3>1. CASE index' = index
      <4>1. Listed' = Listed
        BY <3>1 DEF Listed
      <4> QED
        BY <1>0, <1>1, <1>5, <3>1, <4>1 DEF CatInv, Catalogue, HasSeries
    <3>2. CASE accepted \subseteq Listed'
      BY <1>0, <1>1, <2>1, <2>3, <3>2 DEF Catalogue
    <3> QED
      BY <2>1, <3>1, <3>2
  <2> QED
    BY <2>2, <2>4, <2>5 DEF CatInv
<1>8. CASE r # Root
  <2>1. index' = index /\ ~err'[r]
    BY <1>0, <1>8 DEF PublishSeries, Raises, Types
  <2> QED
    BY <1>6, <1>8, <2>1
<1>9. CASE r = Root
  <2>1. Due(r).sample = f.sample
    BY <1>3, <1>9 DEF Due
  <2>2. PICK fate \in IF Refuses(f.sample) THEN {"before"} ELSE {"done", "before", "late"} :
          /\ Raises(r, fate # "done")
          /\ index' = IF fate = "before" THEN index ELSE Listing(f.sample)
    BY <1>9, <2>1 DEF PublishSeries
  <2>3. CASE fate = "before"
    BY <1>0, <1>6, <1>9, <2>2, <2>3 DEF Raises, Types
  <2>4. CASE fate # "before"
    BY <1>7, <1>9, <2>2, <2>4
  <2> QED
    BY <2>3, <2>4
<1> QED
  BY <1>8, <1>9

\* Steps that hand finalizers on.
LEMMA CatHand ==
  ASSUME IndInv, IndInv', CatInv, UNCHANGED <<mode, index, disk, dirty>>,
         sample' \in Nat, sample <= sample', accepted \subseteq accepted',
         \A s \in accepted' \ Listed : \A t \in Listed : t < s,
         NEW m, label'[Root] = m, m \notin {"publish", "rollback"},
         \A r \in Ranks : stage'[r] = "run",
         NEW q \in Seq(Finalizers), NEW k \in Seq(Finalizers),
         fin'[Root].queue = q, fin'[Root].kept = k, q # <<>> <=> m \in Finalizing,
         m = "series" => ~Head(q).series,
         \A f \in Range(q) \cup Range(k) : ~f.series => HasSeries,
         HasSeries => \A s \in accepted' \ Listed :
                        \E f \in Range(q) \cup Range(k) : f.sample = s /\ ~f.series
  PROVE  CatInv'
<1>1. Listed' = Listed /\ HasSeries' = HasSeries /\ Owned' = Range(q) \cup Range(k)
  BY DEF Listed, HasSeries, Owned
<1>2. dirty' \subseteq 0 .. sample' /\ disk' \subseteq (0 .. sample') \X Ranks /\ index' \in Seq(Nat)
  <2>1. sample \in Nat /\ dirty \subseteq 0 .. sample /\ disk \subseteq (0 .. sample) \X Ranks
    BY DEF IndInv, Types, CatInv, Records
  <2>2. 0 .. sample \subseteq 0 .. sample'
    BY <2>1
  <2> QED
    BY <2>1, <2>2 DEF CatInv, Records
<1>3. Records'
  BY <1>1, <1>2 DEF Records
<1>4. Catalogue'
  BY <1>1 DEF CatInv, Catalogue
<1>5. \A r \in Ranks : SeriesCall(r)'
  BY DEF SeriesCall
<1> QED
  BY <1>3, <1>4, <1>5 DEF CatInv

\* A sealed publication owns the finalizer of its sample; a failed one keeps all.
LEMMA CatPublishGather ==
  ASSUME IndInv, IndInv', CatInv, PublishGather
  PROVE  CatInv'
<1>0. Types /\ Root \in Ranks
  BY OutputAssumption DEF IndInv
<1>1. PICK commits \in BOOLEAN :
        LET seals(r) == commits /\ ~Failed(r)
            where(r) == IF seals(r) THEN Loop(<<Finalizer(sample)>>, fin[r].kept, "seal")
                                    ELSE [label |-> "rollback", fin |-> fin[r]]
        IN  /\ Moves([r \in Ranks |-> where(r).label], {}, FALSE)
            /\ fin' = [r \in Ranks |-> where(r).fin]
            /\ accepted' = IF \A r \in Ranks : seals(r) THEN accepted \cup {sample} ELSE accepted
  BY DEF PublishGather
<1>2. UNCHANGED <<mode, sample, created, disk, dirty, index>>
  BY DEF PublishGather, files
<1>3. \A r \in Ranks : Failed(r) <=> SomeFailed
  BY DEF Failed, SomeFailed
<1>4. label[Root] = "publish" /\ fin[Root].queue = <<>> /\ fin[Root].kept \in Seq(Finalizers)
  BY <1>0 DEF PublishGather, All, CatInv, Records, Finalizing
<1>5. CASE ~(commits /\ ~SomeFailed)
  <2>1. accepted' = accepted
    BY <1>0, <1>1, <1>3, <1>5
  <2>2. label'[Root] = "rollback"
    BY <1>0, <1>1, <1>3, <1>5 DEF Moves
  <2>3. fin'[Root] = fin[Root]
    BY <1>0, <1>1, <1>3, <1>5
  <2>4. Listed' = Listed /\ Owned' = Owned /\ HasSeries' = HasSeries
    BY <1>2, <2>3 DEF Listed, Owned, HasSeries
  <2>5. Records'
    BY <1>2, <1>4, <2>2, <2>3, <2>4 DEF CatInv, Records, Finalizing
  <2>6. Catalogue'
    BY <1>2, <1>4, <2>1, <2>2, <2>4 DEF CatInv, Catalogue
  <2>7. \A r \in Ranks : SeriesCall(r)'
    BY <1>0, <2>2 DEF IndInv, Alike, SeriesCall
  <2> QED
    BY <2>5, <2>6, <2>7 DEF CatInv
<1>6. CASE commits /\ ~SomeFailed
  <2>1. PICK q : q = <<Finalizer(sample)>>
    OBVIOUS
  <2>2. PICK k \in Seq(Finalizers) : k = fin[Root].kept
    BY <1>4
  <2>3. PICK m : m = Loop(q, k, "seal").label
    OBVIOUS
  <2>4. PICK f : f = Loop(q, k, "seal").fin
    OBVIOUS
  <2>5. fin'[Root] = f
    BY <1>0, <1>1, <1>3, <1>6, <2>1, <2>2, <2>4
  <2>6. label'[Root] = m /\ \A r \in Ranks : stage'[r] = "run"
    BY <1>0, <1>1, <1>3, <1>6, <2>1, <2>2, <2>3 DEF Moves
  <2>7. accepted' = accepted \cup {sample}
    BY <1>1, <1>3, <1>6
  <2>8. q \in Seq(Finalizers) /\ q[1] = Finalizer(sample) /\ Range(q) = {Finalizer(sample)}
    <3>1. Finalizer(sample) \in Finalizers
      BY <1>0 DEF Finalizer, Finalizers, Types, HasSeries
    <3> QED
      BY <2>1, <3>1 DEF Range
  <2>9. /\ f.queue \in Seq(Finalizers) /\ f.kept \in Seq(Finalizers)
        /\ Range(f.queue) \cup Range(f.kept) = Range(q) \cup Range(k)
        /\ f.queue # <<>> <=> m \in Finalizing
        /\ m = "series" => ~Head(f.queue).series
    BY <2>3, <2>4, <2>8, LoopOwns
  <2>10. m \in {"series", "finalize", "writer", "idle"}
    BY <2>3, LoopFacts
  <2>11. Owned = Range(k)
    BY <1>4, <2>2 DEF Owned, Range
  <2>12. Finalizer(sample).sample = sample /\ (Finalizer(sample).series <=> ~HasSeries)
    BY DEF Finalizer, HasSeries
  <2>13. \A x \in Range(q) \cup Range(k) : ~x.series => HasSeries
    BY <2>8, <2>11, <2>12 DEF CatInv, Records
  <2>14. HasSeries => \A s \in accepted' \ Listed :
                        \E x \in Range(q) \cup Range(k) : x.sample = s /\ ~x.series
    BY <2>7, <2>8, <2>11, <2>12 DEF CatInv, Catalogue
  <2>15. \A s \in accepted' \ Listed : \A t \in Listed : t < s
    <3> SUFFICES ASSUME NEW s \in accepted' \ Listed, NEW t \in Listed PROVE t < s
      OBVIOUS
    <3>1. t \in 0 .. sample /\ sample \in Nat
      BY <1>0 DEF CatInv, Catalogue, Records, Types
    <3>2. CASE s \in accepted
      BY <3>2 DEF CatInv, Catalogue
    <3>3. CASE s = sample
      BY <3>1, <3>3
    <3> QED
      BY <2>7, <3>2, <3>3
  <2>16. sample' \in Nat /\ sample <= sample' /\ accepted \subseteq accepted'
    BY <1>0, <1>2, <2>7 DEF Types
  <2> QED
    BY <1>2, <2>5, <2>6, <2>9, <2>10, <2>13, <2>14, <2>15, <2>16, CatHand
<1> QED
  BY <1>5, <1>6

\* A step or a retry starts with the finalizers that were kept.
LEMMA CatProgram ==
  ASSUME IndInv, IndInv', CatInv, Step \/ RetryConsumerFinalizers
  PROVE  CatInv'
<1>0. Types /\ Root \in Ranks
  BY OutputAssumption DEF IndInv
<1>1. PICK a \in {"prepare", "rest"} : Enters([r \in Ranks |-> Loop(fin[r].kept, <<>>, a)])
  BY DEF Step, RetryConsumerFinalizers
<1>2. /\ UNCHANGED <<mode, disk, accepted, dirty, index>> /\ label[Root] = "idle"
      /\ \A r \in Ranks : stage'[r] = "run"
  BY <1>0 DEF Step, RetryConsumerFinalizers, Resting, files, verdicts
<1>3. sample' \in Nat /\ sample <= sample'
  BY <1>0 DEF Step, RetryConsumerFinalizers, Types
<1>4. PICK k \in Seq(Finalizers) : k = fin[Root].kept
  BY DEF CatInv, Records
<1>5. PICK f : f = Loop(k, <<>>, a).fin
  OBVIOUS
<1>6. PICK m : m = Loop(k, <<>>, a).label
  OBVIOUS
<1>7. fin'[Root] = f /\ label'[Root] = m
  BY <1>0, <1>1, <1>4, <1>5, <1>6 DEF Enters
<1>8. <<>> \in Seq(Finalizers) /\ Range(<<>>) = {}
  BY DEF Range
<1>9. /\ f.queue \in Seq(Finalizers) /\ f.kept \in Seq(Finalizers)
      /\ Range(f.queue) \cup Range(f.kept) = Range(k) \cup Range(<<>>)
      /\ f.queue # <<>> <=> m \in Finalizing
      /\ m = "series" => ~Head(f.queue).series
  BY <1>5, <1>6, <1>8, LoopOwns
<1>10. m \in {"series", "finalize", "writer", "idle"}
  BY <1>6, LoopFacts
<1>11. fin[Root].queue = <<>>
  BY <1>2 DEF CatInv, Records, Finalizing
<1>12. Owned = Range(f.queue) \cup Range(f.kept)
  BY <1>4, <1>8, <1>9, <1>11 DEF Owned
<1>13. \A x \in Range(f.queue) \cup Range(f.kept) : ~x.series => HasSeries
  BY <1>12 DEF CatInv, Records
<1>14. /\ HasSeries => \A s \in accepted' \ Listed :
                        \E x \in Range(f.queue) \cup Range(f.kept) : x.sample = s /\ ~x.series
       /\ \A s \in accepted' \ Listed : \A t \in Listed : t < s
  BY <1>2, <1>12 DEF CatInv, Catalogue
<1> QED
  BY <1>2, <1>3, <1>7, <1>9, <1>10, <1>13, <1>14, CatHand

\* A sequence of finalizers is its head and its tail.
LEMMA HeadTail ==
  ASSUME NEW q \in Seq(Finalizers), q # <<>>
  PROVE  /\ Head(q) \in Finalizers /\ Tail(q) \in Seq(Finalizers)
         /\ Range(q) = {Head(q)} \cup Range(Tail(q))
<1>1. Head(q) \in Finalizers /\ Head(q) = q[1] /\ Tail(q) \in Seq(Finalizers)
  OBVIOUS
<1>2. PICK n \in Nat : n + 1 = Len(q)
  <2>1. Len(q) \in Nat /\ Len(q) # 0
    OBVIOUS
  <2> QED
    BY <2>1
<1>3. DOMAIN q = 1 .. (n + 1) /\ DOMAIN Tail(q) = 1 .. n /\ \A i \in 1 .. n : Tail(q)[i] = q[i + 1]
  BY <1>2
<1>4. \A y \in Range(q) : y \in {Head(q)} \cup Range(Tail(q))
  <2> SUFFICES ASSUME NEW i \in 1 .. (n + 1) PROVE q[i] \in {Head(q)} \cup Range(Tail(q))
    BY <1>3 DEF Range
  <2>1. CASE i = 1
    BY <1>1, <2>1
  <2>2. CASE i # 1
    <3>1. i - 1 \in 1 .. n /\ (i - 1) + 1 = i
      BY <2>2
    <3> QED
      BY <1>3, <3>1 DEF Range
  <2> QED
    BY <2>1, <2>2
<1>5. Head(q) \in Range(q)
  <2>1. 1 \in DOMAIN q
    BY <1>3
  <2> QED
    BY <1>1, <2>1 DEF Range
<1>6. \A y \in Range(Tail(q)) : y \in Range(q)
  <2> SUFFICES ASSUME NEW i \in 1 .. n PROVE Tail(q)[i] \in Range(q)
    BY <1>3 DEF Range
  <2>1. i + 1 \in DOMAIN q
    BY <1>3
  <2> QED
    BY <1>3, <2>1 DEF Range
<1> QED
  BY <1>1, <1>4, <1>5, <1>6

\* Finalizers put in front or behind.
LEMMA Ends ==
  ASSUME NEW q \in Seq(Finalizers), NEW d \in Finalizers
  PROVE  /\ <<d>> \o q \in Seq(Finalizers) /\ <<d>> \o q # <<>>
         /\ Range(<<d>> \o q) = {d} \cup Range(q)
         /\ Append(q, d) \in Seq(Finalizers) /\ Range(Append(q, d)) = {d} \cup Range(q)
<1>1. PICK n \in Nat : n = Len(q)
  OBVIOUS
<1>2. PICK p : p = <<d>> \o q
  OBVIOUS
<1>3. /\ p \in Seq(Finalizers) /\ DOMAIN p = 1 .. (n + 1) /\ p[1] = d
      /\ \A i \in 1 .. n : p[i + 1] = q[i]
  BY <1>1, <1>2
<1>4. p # <<>> /\ Head(p) = d
  BY <1>3
<1>5. Range(p) = {d} \cup Range(q)
  <2>1. \A y \in Range(p) : y \in {d} \cup Range(q)
    <3> SUFFICES ASSUME NEW i \in 1 .. (n + 1) PROVE p[i] \in {d} \cup Range(q)
      BY <1>3 DEF Range
    <3>1. CASE i = 1
      BY <1>3, <3>1
    <3>2. CASE i # 1
      <4>1. i - 1 \in 1 .. n /\ (i - 1) + 1 = i /\ i - 1 \in DOMAIN q
        BY <1>1, <3>2
      <4> QED
        BY <1>3, <4>1 DEF Range
    <3> QED
      BY <3>1, <3>2
  <2>2. d \in Range(p)
    <3>1. 1 \in DOMAIN p
      BY <1>3
    <3> QED
      BY <1>3, <3>1 DEF Range
  <2>3. \A y \in Range(q) : y \in Range(p)
    <3> SUFFICES ASSUME NEW i \in 1 .. n PROVE q[i] \in Range(p)
      BY <1>1 DEF Range
    <3>1. i + 1 \in DOMAIN p
      BY <1>3
    <3> QED
      BY <1>3, <3>1 DEF Range
  <2> QED
    BY <2>1, <2>2, <2>3
<1>6. PICK a : a = Append(q, d)
  OBVIOUS
<1>7. /\ a \in Seq(Finalizers) /\ DOMAIN a = 1 .. (n + 1) /\ a[n + 1] = d
      /\ \A i \in 1 .. n : a[i] = q[i]
  BY <1>1, <1>6
<1>8. Range(a) = {d} \cup Range(q)
  <2>1. \A y \in Range(a) : y \in {d} \cup Range(q)
    <3> SUFFICES ASSUME NEW i \in 1 .. (n + 1) PROVE a[i] \in {d} \cup Range(q)
      BY <1>7 DEF Range
    <3>1. i = n + 1 \/ (i \in 1 .. n /\ i \in DOMAIN q)
      BY <1>1
    <3> QED
      BY <1>7, <3>1 DEF Range
  <2>2. d \in Range(a)
    <3>1. n + 1 \in DOMAIN a
      BY <1>7
    <3> QED
      BY <1>7, <3>1 DEF Range
  <2>3. \A y \in Range(q) : y \in Range(a)
    <3> SUFFICES ASSUME NEW i \in 1 .. n PROVE q[i] \in Range(a)
      BY <1>1 DEF Range
    <3>1. i \in DOMAIN a
      BY <1>7
    <3> QED
      BY <1>7, <3>1 DEF Range
  <2> QED
    BY <2>1, <2>2, <2>3
<1> QED
  BY <1>2, <1>3, <1>4, <1>5, <1>6, <1>7, <1>8

\* After a gather of the finalizers a finalizer whose series is not published is kept.
LEMMA CatFinalizeGather ==
  ASSUME IndInv, IndInv', CatInv, FinalizeGather
  PROVE  CatInv'
<1>0. Types /\ Root \in Ranks
  BY OutputAssumption DEF IndInv
<1> DEFINE done(l) == IF l = "series" THEN [Due(Root) EXCEPT !.series = ~Failed(Root)]
                                      ELSE [Due(Root) EXCEPT !.writer = ~Failed(Root)]
           rest == Tail(fin[Root].queue)
           where(l) == IF l = "series" /\ ~done(l).writer
                       THEN [label |-> "finalize",
                             fin |-> [fin[Root] EXCEPT !.queue = <<done(l)>> \o rest]]
                       ELSE Loop(rest,
                                 IF Unfinished(done(l)) THEN Append(fin[Root].kept, done(l))
                                                        ELSE fin[Root].kept,
                                 fin[Root].after)
<1>1. PICK l \in {"series", "finalize"} :
        /\ All(l, "gather") /\ label'[Root] = where(l).label /\ fin'[Root] = where(l).fin
  BY <1>0 DEF FinalizeGather
<1>2. /\ \A r \in Ranks : stage'[r] = "run"
      /\ UNCHANGED <<mode, sample, index, disk, accepted, dirty>>
  BY DEF FinalizeGather, files, verdicts
<1>3. label[Root] = l /\ stage[Root] = "gather" /\ Shaped(Root)
  BY <1>0, <1>1 DEF IndInv, All
<1>4. PICK q \in Seq(Finalizers) : q = fin[Root].queue /\ q # <<>>
  BY <1>3 DEF CatInv, Records, Finalizing
<1>5. PICK k \in Seq(Finalizers) : k = fin[Root].kept
  BY DEF CatInv, Records
<1>6. PICK h \in Finalizers : h = Head(q)
  BY <1>4, HeadTail
<1>7. PICK t \in Seq(Finalizers) : t = Tail(q) /\ Range(q) = {h} \cup Range(t)
  BY <1>4, <1>6, HeadTail
<1>8. Owned = {h} \cup Range(t) \cup Range(k)
  BY <1>4, <1>5, <1>7 DEF Owned
<1>9. Failed(Root) \in BOOLEAN
  BY DEF Failed
<1>10. PICK d : d = done(l)
  OBVIOUS
<1>11. /\ d \in Finalizers /\ d.sample = h.sample
       /\ l = "series" => (d.series <=> ~Failed(Root)) /\ d.writer = h.writer
       /\ l = "finalize" => d.series = h.series
  <2>1. d = IF l = "series" THEN [h EXCEPT !.series = ~Failed(Root)]
                            ELSE [h EXCEPT !.writer = ~Failed(Root)]
    BY <1>4, <1>6, <1>10 DEF Due
  <2>2. PICK b \in BOOLEAN : b = ~Failed(Root)
    BY <1>9
  <2>3. d = IF l = "series" THEN [h EXCEPT !.series = b] ELSE [h EXCEPT !.writer = b]
    BY <2>1, <2>2
  <2>4. CASE l = "series"
    <3>1. d = [h EXCEPT !.series = b]
      BY <2>3, <2>4
    <3>2. d \in Finalizers /\ d.sample = h.sample /\ d.series = b /\ d.writer = h.writer
      BY <3>1 DEF Finalizers
    <3> QED
      BY <2>2, <2>4, <3>2
  <2>5. CASE l = "finalize"
    <3>1. d = [h EXCEPT !.writer = b]
      BY <2>3, <2>5
    <3>2. d \in Finalizers /\ d.sample = h.sample /\ d.series = h.series
      BY <3>1 DEF Finalizers
    <3> QED
      BY <2>5, <3>2
  <2> QED
    BY <2>4, <2>5
<1>12. l = "series" => ~h.series /\ HasSeries
  BY <1>3, <1>4, <1>6, <1>8 DEF CatInv, Records
<1>13. \A x \in {d} \cup Range(t) \cup Range(k) : ~x.series => HasSeries
  BY <1>8, <1>11, <1>12 DEF CatInv, Records
<1>14. ASSUME HasSeries, NEW s \in accepted \ Listed
       PROVE  \E x \in Range(t) \cup Range(k) \cup (IF d.series THEN {} ELSE {d}) :
                x.sample = s /\ ~x.series
  <2>1. PICK x \in Owned : x.sample = s /\ ~x.series
    BY <1>14 DEF CatInv, Catalogue
  <2>2. CASE x # h
    BY <1>8, <2>1, <2>2
  <2>3. CASE x = h
    <3>1. ~d.series
      <4>1. CASE l = "finalize"
        BY <1>11, <2>1, <2>3, <4>1
      <4>2. CASE l = "series"
        <5>1. ASSUME d.series PROVE FALSE
          <6>1. ~err[Root]
            BY <1>0, <1>11, <4>2, <5>1 DEF Failed
          <6>2. h.sample \in Listed
            BY <1>0, <1>3, <1>4, <1>6, <4>2, <6>1 DEF CatInv, SeriesCall
          <6> QED
            BY <2>1, <2>3, <6>2
        <5> QED
          BY <5>1
      <4> QED
        BY <4>1, <4>2
    <3> QED
      BY <1>11, <2>1, <2>3, <3>1
  <2> QED
    BY <2>2, <2>3
<1>15. /\ sample' \in Nat /\ sample <= sample' /\ accepted \subseteq accepted'
       /\ \A s \in accepted' \ Listed : \A y \in Listed : y < s
  BY <1>0, <1>2 DEF Types, CatInv, Catalogue
<1>16. CASE l = "series" /\ ~d.writer
  <2>1. label'[Root] = "finalize" /\ fin'[Root] = [fin[Root] EXCEPT !.queue = <<d>> \o t]
    BY <1>1, <1>4, <1>7, <1>10, <1>16
  <2>2. PICK g : g = fin[Root]
    OBVIOUS
  <2>3. g = [queue |-> g.queue, kept |-> g.kept, after |-> g.after]
    BY <1>3, <2>2 DEF Shaped
  <2>4. PICK p : p = <<d>> \o t
    OBVIOUS
  <2>5. [g EXCEPT !.queue = p].queue = p /\ [g EXCEPT !.queue = p].kept = g.kept
    BY ONLY <2>3
  <2>6. fin'[Root].queue = p /\ fin'[Root].kept = k
    BY <1>5, <2>1, <2>2, <2>4, <2>5
  <2>7. p \in Seq(Finalizers) /\ p # <<>> /\ Range(p) = {d} \cup Range(t)
    BY <1>11, <2>4, Ends
  <2>8. \A x \in Range(p) \cup Range(k) : ~x.series => HasSeries
    BY <1>13, <2>7
  <2>9. HasSeries => \A s \in accepted' \ Listed :
                        \E x \in Range(p) \cup Range(k) : x.sample = s /\ ~x.series
    BY <1>2, <1>14, <2>7
  <2> HIDE DEF where, rest, done
  <2>10. PICK m : m = "finalize"
    OBVIOUS
  <2>11. /\ label'[Root] = m /\ m \notin {"publish", "rollback"}
         /\ p # <<>> <=> m \in Finalizing
         /\ m = "series" => ~Head(p).series
    BY <2>1, <2>7, <2>10 DEF Finalizing
  <2> QED
    BY <1>2, <1>15, <2>6, <2>7, <2>8, <2>9, <2>11, CatHand
<1>17. CASE ~(l = "series" /\ ~d.writer)
  <2>1. PICK c \in Seq(Finalizers) : c = IF Unfinished(d) THEN Append(k, d) ELSE k
    BY <1>11, Ends
  <2>2. PICK a : a = fin[Root].after
    OBVIOUS
  <2>3. where(l) = Loop(t, c, a)
    BY <1>4, <1>5, <1>7, <1>10, <1>17, <2>1, <2>2
  <2>4. PICK f : f = Loop(t, c, a).fin
    OBVIOUS
  <2>5. PICK m : m = Loop(t, c, a).label
    OBVIOUS
  <2> HIDE DEF where, rest, done
  <2>6. fin'[Root] = f /\ label'[Root] = m
    BY <1>1, <2>3, <2>4, <2>5
  <2>7. /\ f.queue \in Seq(Finalizers) /\ f.kept \in Seq(Finalizers)
        /\ Range(f.queue) \cup Range(f.kept) = Range(t) \cup Range(c)
        /\ f.queue # <<>> <=> m \in Finalizing
        /\ m = "series" => ~Head(f.queue).series
    BY <2>4, <2>5, LoopOwns
  <2>8. m \in {"series", "finalize", "writer", "idle"}
    BY <2>5, LoopFacts
  <2>9. /\ Range(c) \subseteq {d} \cup Range(k) /\ Range(k) \subseteq Range(c)
        /\ ~d.series => d \in Range(c)
    <3>1. CASE Unfinished(d)
      <4>1. c = Append(k, d)
        BY <2>1, <3>1
      <4>2. Range(Append(k, d)) = {d} \cup Range(k)
        BY <1>11, Ends
      <4> QED
        BY <4>1, <4>2
    <3>2. CASE ~Unfinished(d)
      BY <2>1, <3>2 DEF Unfinished
    <3> QED
      BY <3>1, <3>2
  <2>10. \A x \in Range(f.queue) \cup Range(f.kept) : ~x.series => HasSeries
    BY <1>13, <2>7, <2>9
  <2>11. HasSeries => \A s \in accepted' \ Listed :
                        \E x \in Range(f.queue) \cup Range(f.kept) : x.sample = s /\ ~x.series
    BY <1>2, <1>14, <2>7, <2>9
  <2> QED
    BY <1>2, <1>15, <2>6, <2>7, <2>8, <2>10, <2>11, CatHand
<1> QED
  BY <1>16, <1>17

\* The catalogue before the first sample.
LEMMA InitCatInv == Init => CatInv
<1> SUFFICES ASSUME Init PROVE CatInv
  OBVIOUS
<1>0. Root \in Ranks
  BY OutputAssumption
<1>1. fin[Root].queue = <<>> /\ fin[Root].kept = <<>> /\ label[Root] = "preflight"
  BY <1>0 DEF Init
<1>2. Range(<<>>) = {}
  BY DEF Range
<1>3. Listed = {} /\ Owned = {}
  BY <1>1, <1>2 DEF Init, Listed, Owned
<1>4. Records
  <2>1. index \in Seq(Nat) /\ dirty \subseteq 0 .. sample /\ disk \subseteq (0 .. sample) \X Ranks
    BY DEF Init
  <2>2. fin[Root].queue \in Seq(Finalizers) /\ fin[Root].kept \in Seq(Finalizers)
    BY <1>1
  <2>3. label[Root] \notin Finalizing /\ label[Root] # "series"
    BY <1>1 DEF Finalizing
  <2> QED
    BY <1>1, <1>3, <2>1, <2>2, <2>3 DEF Records
<1>5. Catalogue
  BY <1>1, <1>3 DEF Init, Catalogue
<1>6. \A r \in Ranks : SeriesCall(r)
  BY DEF Init, SeriesCall
<1> QED
  BY <1>4, <1>5, <1>6 DEF CatInv

\* Every step keeps the catalogue.
LEMMA NextCatInv == IndInv /\ IndInv' /\ CatInv /\ [Next]_vars => CatInv'
<1> SUFFICES ASSUME IndInv, IndInv', CatInv, [Next]_vars PROVE CatInv'
  OBVIOUS
<1>1. CASE Step \/ RetryConsumerFinalizers
  BY <1>1, CatProgram
<1>2. ASSUME NEW r \in Ranks, Local(r) PROVE CatInv'
  BY <1>2, CatCalls, CatPublish, CatRollback, CatSeries DEF Local
<1>3. CASE Collective
  BY <1>3, CatBarrier, CatPrepare, CatPublishGather, CatRollbackGather, CatFinalizeGather DEF Collective
<1>4. CASE UNCHANGED vars
  <2>1. UNCHANGED <<mode, sample, label, stage, err, created, fin, disk, index, accepted, dirty>>
    BY <1>4 DEF vars, control, session, files, verdicts
  <2>2. Listed' = Listed /\ Owned' = Owned /\ HasSeries' = HasSeries
    BY <2>1 DEF Listed, Owned, HasSeries
  <2>3. Records'
    BY <2>1, <2>2 DEF CatInv, Records
  <2>4. Catalogue'
    BY <2>1, <2>2 DEF CatInv, Catalogue
  <2>5. \A r \in Ranks : SeriesCall(r)'
    BY <2>1, <2>2 DEF CatInv, SeriesCall
  <2> QED
    BY <2>3, <2>4, <2>5 DEF CatInv
<1> QED
  BY <1>1, <1>2, <1>3, <1>4 DEF Next

\* The catalogue lists members in clock order, all of them on disk and accepted or
\* reported; an accepted sample that publish_output_series has not listed yet is owned
\* by a finalizer on every rank, and its retry is not refused.
THEOREM CatalogueIsExact == Spec => []CatalogueExact
<1>1. IndInv /\ CatInv => CatalogueExact
  <2> SUFFICES ASSUME IndInv, CatInv PROVE CatalogueExact
    OBVIOUS
  <2>0. Root \in Ranks /\ \A r \in Ranks : fin[r] = fin[Root]
    BY OutputAssumption DEF IndInv, Alike
  <2>1. /\ \A i, j \in 1 .. Len(index) : i < j => index[i] < index[j]
        /\ \A s \in Listed : <<s, Root>> \in disk /\ s \in accepted \cup dirty
    BY DEF CatInv, Catalogue
  <2>2. ASSUME Resting, HasSeries, NEW s \in accepted \ Listed
        PROVE  /\ ~Refuses(s)
               /\ \A r \in Ranks : \E f \in Range(fin[r].kept) : f.sample = s /\ ~f.series
    <3>1. label[Root] = "idle"
      BY <2>0, <2>2 DEF Resting
    <3>2. s \in Family /\ s \in Nat
      BY <2>2, <3>1, FamilyFacts
    <3>3. Listed \subseteq Family
      <4> SUFFICES ASSUME NEW x \in Listed PROVE x \in Family
        OBVIOUS
      <4>1. PICK a \in disk : a = <<x, Root>>
        BY <2>1
      <4> QED
        BY <4>1 DEF Family
    <3>4. ASSUME index # <<>>, s < Last(index) PROVE FALSE
      <4>1. index \in Seq(Nat)
        BY DEF CatInv, Records
      <4>2. Last(index) \in Nat /\ Last(index) \in Listed
        <5>1. Len(index) \in DOMAIN index /\ index[Len(index)] \in Nat
          BY <3>4, <4>1
        <5> QED
          BY <5>1 DEF Last, Listed, Range
      <4>3. Last(index) < s
        BY <2>2, <4>2 DEF CatInv, Catalogue
      <4> QED
        BY <3>2, <3>4, <4>2, <4>3
    <3>5. ~Refuses(s)
      BY <3>2, <3>3, <3>4 DEF Refuses
    <3>6. PICK f \in Owned : f.sample = s /\ ~f.series
      BY <2>2 DEF CatInv, Catalogue
    <3>7. fin[Root].queue = <<>>
      BY <3>1 DEF CatInv, Records, Finalizing
    <3>8. Owned = Range(fin[Root].kept)
      BY <3>7 DEF Owned, Range
    <3> QED
      BY <2>0, <3>5, <3>6, <3>8
  <2> QED
    BY <2>1, <2>2 DEF CatalogueExact
<1>2. Init => IndInv /\ CatInv
  BY InitIndInv, InitCatInv
<1>3. (IndInv /\ CatInv) /\ [Next]_vars => (IndInv /\ CatInv)'
  BY NextIndInv, NextCatInv
<1> QED
  BY <1>1, <1>2, <1>3, PTL DEF Spec
=============================================================================
