----------------------- MODULE ObserverDeliveryProofs -----------------------
(***************************************************************************)
(* Proofs about ObserverDelivery for any number of frames, processes,      *)
(* delivery attempts and withdrawals and any capacity of the queue.        *)
(***************************************************************************)
EXTENDS ObserverDelivery, TLAPS

\* The journal was opened with sync="fsync", its default.
Trusted == Syncs = TRUE

Kinds == {"job", "initialize", "finalize", "abort", "stop"}
Task == [kind : Kinds, frame : Frames \cup {0}, seq : Nat]
LedgerRecord == [handed : SUBSET Frames, offered : SUBSET Frames, entered : SUBSET (Frames \cup {0}),
                 executed : SUBSET (Frames \cup {0}), processes : Nat, withdrawals : Nat, faults : Nat,
                 exposed : BOOLEAN]
Filed == [seq : Nat, frame : Frames \cup {0}, status : {"delivered", "skipped"}]

JournalTypes ==
  /\ live \in [States -> SUBSET Frames] /\ disk \in [States -> SUBSET Frames]
  /\ op \in [Threads -> [call : Calls, frame : Frames \cup {0}, at : Places,
                         dir : States, then : Places, result : Results]]

ThreadTypes ==
  /\ main \in MainPlaces /\ wpc \in WorkerPlaces
  /\ step \in 1 .. Last /\ record \in States \cup {"none"} /\ replay \subseteq Frames
  /\ fifo \in Seq(Task) /\ item \in [kind : Kinds \cup {"none"}, frame : Frames \cup {0}, seq : Nat]
  /\ attempt \in Nat
  /\ queue \in [next : Nat, pending : Nat, reports : Seq(Filed), closeRequested : BOOLEAN,
                closePrepared : BOOLEAN, closed : BOOLEAN]
  /\ ledger \in LedgerRecord

\* The links that a crash of the machine leaves.
Durable(f) == f \in disk["pending"] \cup disk["delivered"]

\* The worker has a job in hand; a frame has a job in the queue or in hand.
Working == wpc \in {"gate", "execute", "acknowledge", "record skipped", "record delivered"}
Queued(f) == \E i \in 1 .. Len(fifo) : fifo[i].kind = "job" /\ fifo[i].frame = f
HasJob(f) == Queued(f) \/ (Working /\ item.frame = f)

\* Where a call of the journal can be.
Shape(t) ==
  LET o == op[t] IN
  /\ o.call = "none" => o.at = "idle"
  /\ o.call = "recover" => o.at \in {"scan", "unlink", "sync unlink", "returned", "raised"}
  /\ o.call = "prepare" =>
       o.at \in {"delivered?", "pending?", "prepared?", "link", "sync", "returned", "raised"}
  /\ o.call = "discard" =>
       o.at \in {"delivered?", "pending?", "prepared?", "unlink", "sync unlink", "finish",
                 "returned", "raised"}
  /\ o.call = "commit" =>
       o.at \in {"delivered?", "pending?", "source?", "link", "sync", "source again?",
                 "stale prepared?", "unlink", "sync unlink", "finish", "returned", "raised"}
  /\ o.call = "deliver" =>
       o.at \in {"delivered?", "source?", "link", "sync", "source again?", "stale pending?",
                 "stale prepared?", "unlink", "sync unlink", "finish", "returned", "raised"}
  /\ o.at \in {"unlink", "sync unlink"} =>
       /\ o.dir \in {"prepared", "pending"}
       /\ o.dir = "pending" => o.call \in {"deliver", "recover"}
       /\ o.call = "recover" => o.then = "scan"
       /\ o.call \in {"discard", "commit"} => o.then = "finish"
       /\ o.call = "deliver" =>
            o.then \in IF o.dir = "prepared" THEN {"finish"} ELSE {"stale pending?", "stale prepared?"}

\* The places of the simulation thread between the first frame and the last.
Stepping == {"prepare", "preparing", "staged", "withdrawing", "committing", "enqueue", "consensus"}
Closing == {"close", "drain", "finalizing"}

\* Which call each thread is in, and for which frame.
MainCall ==
  /\ op["main"].call = CASE main = "opening" -> "recover"
                         [] main = "preparing" -> "prepare"
                         [] main = "withdrawing" /\ record = "prepared" -> "discard"
                         [] main = "committing" -> "commit"
                         [] OTHER -> "none"
  /\ op["main"].call \in {"prepare", "discard", "commit"} => op["main"].frame = step
  /\ main = "committing" => record = "prepared" /\ step \in ledger.offered
  /\ main = "staged" => record \in States
  /\ main \in Stepping => step \in Frames
  /\ main \in Stepping \cup Closing => replay = {}
  /\ main \in {"open", "opening", "initialize"} => wpc = "unstarted"
  /\ main = "ended" => wpc \in {"unstarted", "stopped"}

WorkerCall ==
  /\ op["worker"].call = IF wpc = "acknowledge" THEN "deliver" ELSE "none"
  /\ wpc = "acknowledge" => op["worker"].frame = item.frame /\ item.frame \in ledger.executed /\ attempt > 0
  /\ Working => item.kind = "job" /\ item.frame \in Frames
  /\ wpc = "unstarted" => fifo = <<>>
  /\ \A i \in 1 .. Len(fifo) : fifo[i].kind = "job" => fifo[i].frame \in Frames

\* What is linked and not yet durable, and what is durable and no longer linked.
Durability ==
  /\ \A f \in live["pending"] \ disk["pending"] :
       op["main"].call = "commit" /\ op["main"].at = "sync" /\ op["main"].frame = f
  /\ \A f \in live["delivered"] \ disk["delivered"] :
       op["worker"].call = "deliver" /\ op["worker"].at = "sync" /\ op["worker"].frame = f
  /\ disk["delivered"] \subseteq live["delivered"]
  /\ disk["pending"] \subseteq live["pending"] \cup disk["delivered"]

\* A frame that no job is to deliver, or that has been delivered.
Fresh(f) == ~HasJob(f) \/ f \in live["delivered"]
Reported(f) ==
  \E i \in 1 .. Len(queue.reports) :
    queue.reports[i].seq = i /\ queue.reports[i].frame = f /\ queue.reports[i].status = "skipped"
Owed(f) == f \in replay \/ HasJob(f) \/ Reported(f) \/ (main = "enqueue" /\ step = f)

RecoverInv ==
  op["main"].call = "recover" =>
    /\ op["main"].at \in {"unlink", "sync unlink"} /\ op["main"].dir = "pending"
         => op["main"].frame \in disk["delivered"]
    /\ op["main"].at = "returned" => live["delivered"] \cap live["pending"] = {}

\* What a result of prepare, or the record it becomes, says of the frame.
Says(result) ==
  /\ result = "prepared" => Fresh(step)
  /\ result = "pending" => Durable(step) /\ (Owed(step) \/ step \in live["delivered"])
  /\ result = "delivered" => Durable(step) /\ step \in live["delivered"]

PrepareInv ==
  /\ op["main"].call = "prepare" =>
       /\ op["main"].at \in {"prepared?", "link", "sync"} => Fresh(step)
       /\ op["main"].at = "returned" => op["main"].result \in States /\ Says(op["main"].result)
  /\ main = "staged" => Says(record)

CommitInv ==
  /\ op["main"].call = "commit" =>
       /\ op["main"].at = "delivered?" => Fresh(step)
       /\ op["main"].at \in {"pending?", "source?", "link", "sync"}
            => ~HasJob(step) /\ step \notin live["delivered"]
       /\ op["main"].at = "sync" => step \in live["pending"]
       /\ op["main"].at \in {"source again?", "stale prepared?", "unlink", "sync unlink", "finish", "returned"}
            => /\ op["main"].result \in {"pending", "delivered"} /\ Durable(step)
               /\ op["main"].result = "pending" => ~HasJob(step) /\ step \notin live["delivered"]
               /\ op["main"].result = "delivered" => step \in live["delivered"]
  /\ main = "enqueue" => Durable(step) /\ ~HasJob(step) /\ step \notin live["delivered"]

DeliverInv ==
  /\ op["worker"].call = "deliver" =>
       /\ op["worker"].at \in {"link", "sync"} => op["worker"].frame \in live["pending"] \cap disk["pending"]
       /\ op["worker"].at = "sync" => op["worker"].frame \in live["delivered"]
       /\ op["worker"].at \notin {"delivered?", "source?", "link", "sync", "raised"}
            => op["worker"].frame \in disk["delivered"]
  /\ wpc = "record delivered" => item.frame \in disk["delivered"]

\* At most one job for a frame, and none for a frame that was delivered before.
Jobs ==
  /\ \A f \in Frames : HasJob(f) => Durable(f)
  /\ \A f \in Frames : Queued(f) => f \notin live["delivered"] /\ ~(Working /\ item.frame = f)
  /\ \A i \in 1 .. Len(fifo), j \in 1 .. Len(fifo) :
       i # j /\ fifo[i].kind = "job" /\ fifo[j].kind = "job" => fifo[i].frame # fifo[j].frame
  /\ wpc \in {"gate", "execute"} /\ attempt = 0 => item.frame \notin live["delivered"]
  /\ \A f \in replay : Durable(f) /\ ~HasJob(f) /\ f \notin live["delivered"]

\* The queue is counted, and its jobs are numbered after the reports.
Busy == IF Working THEN 1 ELSE 0
Numbered ==
  /\ Working => item.seq = Len(queue.reports) + 1
  /\ \/ /\ \A i \in 1 .. Len(fifo) :
             fifo[i].kind = "job" /\ fifo[i].seq = Len(queue.reports) + Busy + i
        /\ queue.pending = Len(fifo) + Busy
     \/ /\ \A i \in 1 .. Len(fifo) : fifo[i].kind # "job"
        /\ ~Working /\ queue.pending = 0
  /\ queue.next = Len(queue.reports) + queue.pending + 1
  /\ queue.closePrepared =>
       queue.pending = 0 /\ main \in Closing \cup {"stop", "join", "ended", "retained"}
  /\ queue.closed => queue.pending = 0 /\ replay = {} /\ main \in {"stop", "join", "ended"}

\* Jobs and calls of the provider never share the queue.
Lifecycle ==
  /\ main \in {"initializing", "finalizing", "aborting"} =>
       \/ answer = "none" /\ wpc = "get" /\ Len(fifo) = 1 /\ fifo[1].kind \in {"initialize", "finalize", "abort"}
       \/ answer = "none" /\ wpc = "call" /\ fifo = <<>>
       \/ answer = "failed" /\ wpc = "get" /\ fifo = <<>>
       \/ answer = "ok" /\ wpc = "get" /\ fifo = <<>>
  /\ main \in {"abort", "stop", "retained"} => wpc = "get" /\ fifo = <<>>
  /\ main \in {"replay", "close", "drain"} \cup Stepping =>
       (wpc = "get" \/ Working) /\ \A i \in 1 .. Len(fifo) : fifo[i].kind = "job"
  /\ main = "join" => wpc = "stopped" \/ (wpc = "get" /\ Len(fifo) = 1 /\ fifo[1].kind = "stop")

\* Nothing that was handed off is forgotten.
Running == main \notin {"open", "opening", "ended"} \/ queue.closed
Account ==
  /\ \A f \in ledger.handed : Durable(f)
  /\ Running => \A f \in ledger.handed : Owed(f) \/ f \in disk["delivered"]
  /\ Running => \A f \in live["pending"] :
       f > step \/ (f = step /\ main \notin {"committing", "enqueue", "consensus"})
         => Owed(f) \/ f \in live["delivered"]

IndInv ==
  /\ JournalTypes /\ ThreadTypes /\ MainCall /\ WorkerCall /\ Shape("main") /\ Shape("worker") /\ Durability
  /\ RecoverInv /\ PrepareInv /\ CommitInv /\ DeliverInv
  /\ Jobs /\ Numbered /\ Lifecycle /\ Account

-----------------------------------------------------------------------------
\* A step of a call writes some fields of the record of its thread t; p is op after
\* it and q before it.
Records == [Threads -> [call : Calls, frame : Frames \cup {0}, at : Places,
                        dir : States, then : Places, result : Results]]
Writes(p, q, t, f, a, d, th, r) ==
  /\ p \in Records
  /\ p[t].call = q[t].call /\ p[t].frame = f /\ p[t].at = a
  /\ p[t].dir = d /\ p[t].then = th /\ p[t].result = r
  /\ \A u \in Threads : u # t => p[u] = q[u]

\* One field of the record of a call is written.
LEMMA Put_frame ==
  ASSUME NEW q \in Records, NEW t \in Threads, NEW f \in Frames \cup {0},
         NEW p, p = [q EXCEPT ![t].frame = f]
  PROVE  Writes(p, q, t, f, q[t].at, q[t].dir, q[t].then, q[t].result)
  BY SMT DEF Records, Writes

\* The place of a call is written.
LEMMA Put_at ==
  ASSUME NEW q \in Records, NEW t \in Threads, NEW a \in Places,
         NEW p, p = [q EXCEPT ![t].at = a]
  PROVE  Writes(p, q, t, q[t].frame, a, q[t].dir, q[t].then, q[t].result)
  BY SMT DEF Records, Writes

\* The directory of an unlink is written.
LEMMA Put_dir ==
  ASSUME NEW q \in Records, NEW t \in Threads, NEW d \in States,
         NEW p, p = [q EXCEPT ![t].dir = d]
  PROVE  Writes(p, q, t, q[t].frame, q[t].at, d, q[t].then, q[t].result)
  BY SMT DEF Records, Writes

\* The place an unlink continues from is written.
LEMMA Put_then ==
  ASSUME NEW q \in Records, NEW t \in Threads, NEW th \in Places,
         NEW p, p = [q EXCEPT ![t].then = th]
  PROVE  Writes(p, q, t, q[t].frame, q[t].at, q[t].dir, th, q[t].result)
  BY SMT DEF Records, Writes

\* The result of a call is written.
LEMMA Put_result ==
  ASSUME NEW q \in Records, NEW t \in Threads, NEW r \in Results,
         NEW p, p = [q EXCEPT ![t].result = r]
  PROVE  Writes(p, q, t, q[t].frame, q[t].at, q[t].dir, q[t].then, r)
  BY SMT DEF Records, Writes

\* The step of thread t leaves these fields; MovesTo changes nothing but the place.
To(t, f, a, d, th, r) == Writes(op', op, t, f, a, d, th, r)
MovesTo(t, a) == To(t, op[t].frame, a, op[t].dir, op[t].then, op[t].result)

\* Go, Keep, Remove and the writes of discard and recover, field by field.
LEMMA GoTo ==
  ASSUME JournalTypes, NEW t \in Threads, NEW a \in Places, Go(t, a)
  PROVE  MovesTo(t, a)
  BY Put_at DEF JournalTypes, Records, Go, MovesTo, To

\* A result is kept and the call moves.
LEMMA KeepTo ==
  ASSUME JournalTypes, NEW t \in Threads, NEW a \in Places, NEW r \in Results, Keep(t, r, a)
  PROVE  To(t, op[t].frame, a, op[t].dir, op[t].then, r)
<1>1. op \in Records
  BY DEF JournalTypes, Records
<1>2. PICK q1 : q1 = [op EXCEPT ![t].at = a]
  OBVIOUS
<1>3. Writes(q1, op, t, op[t].frame, a, op[t].dir, op[t].then, op[t].result)
  BY <1>2, <1>1, Put_at, Zenon
<1>4. q1 \in Records
  BY <1>3 DEF Writes
<1>5. PICK q2 : q2 = [q1 EXCEPT ![t].result = r]
  OBVIOUS
<1>6. Writes(q2, q1, t, q1[t].frame, q1[t].at, q1[t].dir, q1[t].then, r)
  BY <1>5, <1>4, Put_result, Zenon
<1>7. q2 \in Records /\ Writes(q2, op, t, op[t].frame, a, op[t].dir, op[t].then, r)
  BY <1>6, <1>3 DEF Writes
<1>8. op' = q2
  BY <1>2, <1>5, Zenon DEF Keep
<1> QED BY <1>7, <1>8 DEF To

\* _remove begins.
LEMMA RemoveTo ==
  ASSUME JournalTypes, NEW t \in Threads, NEW d \in States, NEW th \in Places, Remove(t, d, th)
  PROVE  To(t, op[t].frame, "unlink", d, th, op[t].result)
<1>1. op \in Records
  BY DEF JournalTypes, Records
<1>2. "unlink" \in Places
  BY DEF Places, States, Results
<1>3. PICK q1 : q1 = [op EXCEPT ![t].at = "unlink"]
  OBVIOUS
<1>4. Writes(q1, op, t, op[t].frame, "unlink", op[t].dir, op[t].then, op[t].result)
  BY <1>3, <1>1, <1>2, Put_at, Zenon
<1>5. q1 \in Records
  BY <1>4 DEF Writes
<1>6. PICK q2 : q2 = [q1 EXCEPT ![t].dir = d]
  OBVIOUS
<1>7. Writes(q2, q1, t, q1[t].frame, q1[t].at, d, q1[t].then, q1[t].result)
  BY <1>6, <1>5, Put_dir, Zenon
<1>8. q2 \in Records /\ Writes(q2, op, t, op[t].frame, "unlink", d, op[t].then, op[t].result)
  BY <1>7, <1>4 DEF Writes
<1>9. PICK q3 : q3 = [q2 EXCEPT ![t].then = th]
  OBVIOUS
<1>10. Writes(q3, q2, t, q2[t].frame, q2[t].at, q2[t].dir, th, q2[t].result)
  BY <1>9, <1>8, Put_then, Zenon
<1>11. q3 \in Records /\ Writes(q3, op, t, op[t].frame, "unlink", d, th, op[t].result)
  BY <1>10, <1>8 DEF Writes
<1>12. op' = q3
  BY <1>3, <1>6, <1>9, Zenon DEF Remove
<1> QED BY <1>11, <1>12 DEF To

\* discard_prepared begins its unlink.
LEMMA DiscardTo ==
  ASSUME JournalTypes, NEW t \in Threads, 
         op' = [op EXCEPT ![t].at = "unlink", ![t].dir = "prepared",
                          ![t].then = "finish", ![t].result = "removed"]
  PROVE  To(t, op[t].frame, "unlink", "prepared", "finish", "removed")
<1>1. op \in Records
  BY DEF JournalTypes, Records
<1>2. "unlink" \in Places /\ "prepared" \in States /\ "finish" \in Places /\ "removed" \in Results
  BY DEF Places, States, Results
<1>3. PICK q1 : q1 = [op EXCEPT ![t].at = "unlink"]
  OBVIOUS
<1>4. Writes(q1, op, t, op[t].frame, "unlink", op[t].dir, op[t].then, op[t].result)
  BY <1>3, <1>1, <1>2, Put_at, Zenon
<1>5. q1 \in Records
  BY <1>4 DEF Writes
<1>6. PICK q2 : q2 = [q1 EXCEPT ![t].dir = "prepared"]
  OBVIOUS
<1>7. Writes(q2, q1, t, q1[t].frame, q1[t].at, "prepared", q1[t].then, q1[t].result)
  BY <1>6, <1>5, <1>2, Put_dir, Zenon
<1>8. q2 \in Records /\ Writes(q2, op, t, op[t].frame, "unlink", "prepared", op[t].then, op[t].result)
  BY <1>7, <1>4 DEF Writes
<1>9. PICK q3 : q3 = [q2 EXCEPT ![t].then = "finish"]
  OBVIOUS
<1>10. Writes(q3, q2, t, q2[t].frame, q2[t].at, q2[t].dir, "finish", q2[t].result)
  BY <1>9, <1>8, <1>2, Put_then, Zenon
<1>11. q3 \in Records /\ Writes(q3, op, t, op[t].frame, "unlink", "prepared", "finish", op[t].result)
  BY <1>10, <1>8 DEF Writes
<1>12. PICK q4 : q4 = [q3 EXCEPT ![t].result = "removed"]
  OBVIOUS
<1>13. Writes(q4, q3, t, q3[t].frame, q3[t].at, q3[t].dir, q3[t].then, "removed")
  BY <1>12, <1>11, <1>2, Put_result, Zenon
<1>14. q4 \in Records /\ Writes(q4, op, t, op[t].frame, "unlink", "prepared", "finish", "removed")
  BY <1>13, <1>11 DEF Writes
<1>15. op' = q4
  BY <1>3, <1>6, <1>9, <1>12, Zenon
<1> QED BY <1>14, <1>15 DEF To

\* _recover picks a stale link.
LEMMA RecoverTo ==
  ASSUME JournalTypes, NEW t \in Threads, NEW f \in Frames, NEW d \in States,
         op' = [op EXCEPT ![t].frame = f, ![t].at = "unlink", ![t].dir = d, ![t].then = "scan"]
  PROVE  To(t, f, "unlink", d, "scan", op[t].result)
<1>1. op \in Records
  BY DEF JournalTypes, Records
<1>2. "unlink" \in Places /\ "scan" \in Places
  BY DEF Places, States, Results
<1>3. PICK q1 : q1 = [op EXCEPT ![t].frame = f]
  OBVIOUS
<1>4. Writes(q1, op, t, f, op[t].at, op[t].dir, op[t].then, op[t].result)
  BY <1>3, <1>1, Put_frame, Zenon
<1>5. q1 \in Records
  BY <1>4 DEF Writes
<1>6. PICK q2 : q2 = [q1 EXCEPT ![t].at = "unlink"]
  OBVIOUS
<1>7. Writes(q2, q1, t, q1[t].frame, "unlink", q1[t].dir, q1[t].then, q1[t].result)
  BY <1>6, <1>5, <1>2, Put_at, Zenon
<1>8. q2 \in Records /\ Writes(q2, op, t, f, "unlink", op[t].dir, op[t].then, op[t].result)
  BY <1>7, <1>4 DEF Writes
<1>9. PICK q3 : q3 = [q2 EXCEPT ![t].dir = d]
  OBVIOUS
<1>10. Writes(q3, q2, t, q2[t].frame, q2[t].at, d, q2[t].then, q2[t].result)
  BY <1>9, <1>8, Put_dir, Zenon
<1>11. q3 \in Records /\ Writes(q3, op, t, f, "unlink", d, op[t].then, op[t].result)
  BY <1>10, <1>8 DEF Writes
<1>12. PICK q4 : q4 = [q3 EXCEPT ![t].then = "scan"]
  OBVIOUS
<1>13. Writes(q4, q3, t, q3[t].frame, q3[t].at, q3[t].dir, "scan", q3[t].result)
  BY <1>12, <1>11, <1>2, Put_then, Zenon
<1>14. q4 \in Records /\ Writes(q4, op, t, f, "unlink", d, "scan", op[t].result)
  BY <1>13, <1>11 DEF Writes
<1>15. op' = q4
  BY <1>3, <1>6, <1>9, <1>12, Zenon
<1> QED BY <1>14, <1>15 DEF To

\* Entering a call and taking its result.
LEMMA EnterTo ==
  ASSUME JournalTypes, NEW t \in Threads, NEW c \in Calls, NEW f \in Frames \cup {0}, Enter(t, c, f)
  PROVE  /\ op' \in Records
         /\ op'[t].call = c /\ op'[t].frame = f
         /\ op'[t].at = IF c = "recover" THEN "scan" ELSE "delivered?"
         /\ \A u \in Threads : u # t => op'[u] = op[u]
         /\ UNCHANGED <<live, disk>>
<1> DEFINE at == IF c = "recover" THEN "scan" ELSE "delivered?"
<1>1. PICK g : g = [Idle EXCEPT !.call = c, !.frame = f, !.at = at]
  OBVIOUS
<1>2. g = [call |-> c, frame |-> f, at |-> at, dir |-> "prepared", then |-> "idle", result |-> "none"]
  BY <1>1 DEF Idle
<1>3. op \in Records /\ op' = [op EXCEPT ![t] = g] /\ UNCHANGED <<live, disk>>
  BY <1>1 DEF JournalTypes, Records, Enter
<1>4. at \in Places
  BY DEF Places
<1>5. g \in [call : Calls, frame : Frames \cup {0}, at : Places, dir : States, then : Places, result : Results]
  BY ONLY <1>2, <1>4, c \in Calls, f \in Frames \cup {0} DEF Places, States, Results
<1>6. g.call = c /\ g.frame = f /\ g.at = at
  BY ONLY <1>2
<1> HIDE DEF at
<1>7. op' \in Records /\ op'[t] = g /\ \A u \in Threads : u # t => op'[u] = op[u]
  BY ONLY <1>3, <1>5, t \in Threads DEF Records
<1> QED BY <1>3, <1>6, <1>7 DEF at

\* The caller takes the result.
LEMMA TakeTo ==
  ASSUME JournalTypes, NEW t \in Threads, Take(t)
  PROVE  /\ op' \in Records
         /\ op'[t].call = "none" /\ op'[t].at = "idle"
         /\ \A u \in Threads : u # t => op'[u] = op[u]
         /\ UNCHANGED <<live, disk>>
<1>1. Idle \in [call : Calls, frame : Frames \cup {0}, at : Places, dir : States, then : Places, result : Results]
  BY DEF Idle, Calls, Places, States, Results
<1>2. Idle.call = "none" /\ Idle.at = "idle"
  BY DEF Idle
<1>3. op \in Records /\ op' = [op EXCEPT ![t] = Idle] /\ UNCHANGED <<live, disk>>
  BY DEF JournalTypes, Records, Take
<1>4. op' \in Records /\ op'[t] = Idle /\ \A u \in Threads : u # t => op'[u] = op[u]
  BY ONLY <1>1, <1>3, t \in Threads DEF Records
<1> QED BY <1>2, <1>3, <1>4

-----------------------------------------------------------------------------
\* What a step of the journal leaves alone.
OnlyJournal ==
  /\ UNCHANGED threadVars
  /\ ledger' \in LedgerRecord /\ ledger'.handed = ledger.handed
  /\ ledger'.offered = ledger.offered /\ ledger'.executed = ledger.executed

\* A step of the journal moves no job and settles no frame.
LEMMA JobsStay ==
  ASSUME OnlyJournal
  PROVE  /\ \A f : (HasJob(f)' <=> HasJob(f)) /\ (Queued(f)' <=> Queued(f)) /\ (Owed(f)' <=> Owed(f))
         /\ (HasJob(step)' <=> HasJob(step)) /\ (Owed(step)' <=> Owed(step))
         /\ Working' <=> Working
  BY DEF OnlyJournal, threadVars, HasJob, Queued, Working, Owed, Reported

\* Without a change of the directories no frame becomes durable.
LEMMA LinksStay ==
  ASSUME OnlyJournal, UNCHANGED <<live, disk>>
  PROVE  /\ \A f : Durable(f)' <=> Durable(f)
         /\ (Durable(step)' <=> Durable(step)) /\ (Fresh(step)' <=> Fresh(step))
  BY JobsStay DEF OnlyJournal, threadVars, Durable, Fresh

\* A step of the simulation thread's call that neither links nor syncs leaves these to show.
MainView == Shape("main") /\ RecoverInv /\ PrepareInv /\ CommitInv

\* A move of the main thread that does not leave a sync keeps Durability.
LEMMA DurabilityStays ==
  ASSUME Durability, OnlyJournal, UNCHANGED <<live, disk>>, op'["worker"] = op["worker"],
         op["main"].at # "sync"
  PROVE  Durability'
  BY LinksStay DEF Durability

\* The two threads of a process.
LEMMA TwoThreads ==
  /\ "main" \in Threads /\ "worker" \in Threads /\ "main" # "worker"
  /\ \A t \in Threads : t = "main" \/ t = "worker"
  BY DeliveryAssumption

\* The places, results and directories that the calls write.
LEMMA PlacesKnown ==
  /\ \A a \in {"delivered?", "pending?", "prepared?", "source?", "link", "sync", "source again?",
               "stale pending?", "stale prepared?", "scan", "unlink", "sync unlink", "finish",
               "returned", "raised"} : a \in Places
  /\ \A r \in {"prepared", "pending", "delivered", "none", "removed", "missing", "committed", "io"} : r \in Results
  /\ \A d \in {"prepared", "pending", "delivered"} : d \in States
  BY DEF Places, Results, States

\* The moves of the simulation thread's call between its inspections.
MainMoves ==
  \/ /\ op["main"].at = "delivered?" /\ op["main"].call \in {"prepare", "discard", "commit"}
     /\ \/ step \notin live["delivered"] /\ MovesTo("main", "pending?")
        \/ /\ step \in live["delivered"] /\ op["main"].call = "prepare"
           /\ To("main", step, "returned", op["main"].dir, op["main"].then, "delivered")
        \/ /\ op["main"].call = "discard"
           /\ To("main", step, "raised", op["main"].dir, op["main"].then, "committed")
        \/ /\ step \in live["delivered"] /\ op["main"].call = "commit"
           /\ To("main", step, "stale prepared?", op["main"].dir, op["main"].then, "delivered")
  \/ /\ op["main"].at = "pending?" /\ op["main"].call \in {"prepare", "discard", "commit"}
     /\ \/ step \notin live["pending"] /\ op["main"].call = "commit" /\ MovesTo("main", "source?")
        \/ step \notin live["pending"] /\ op["main"].call # "commit" /\ MovesTo("main", "prepared?")
        \/ /\ step \in live["pending"] /\ op["main"].call = "prepare"
           /\ To("main", step, "returned", op["main"].dir, op["main"].then, "pending")
        \/ /\ op["main"].call = "discard"
           /\ To("main", step, "raised", op["main"].dir, op["main"].then, "committed")
        \/ /\ step \in live["pending"] /\ op["main"].call = "commit"
           /\ To("main", step, "stale prepared?", op["main"].dir, op["main"].then, "pending")
  \/ /\ op["main"].call = "prepare" /\ op["main"].at = "prepared?"
     /\ \/ To("main", step, "returned", op["main"].dir, op["main"].then, "prepared")
        \/ MovesTo("main", "link")
  \/ /\ op["main"].call = "discard" /\ op["main"].at = "prepared?"
     /\ \/ To("main", step, "unlink", "prepared", "finish", "removed")
        \/ To("main", step, "returned", op["main"].dir, op["main"].then, "none")
  \/ /\ op["main"].call = "commit" /\ op["main"].at = "source?"
     /\ \/ MovesTo("main", "link")
        \/ To("main", step, "raised", op["main"].dir, op["main"].then, "missing")
  \/ /\ op["main"].call = "commit" /\ op["main"].at \in {"source again?", "stale prepared?"}
     /\ \/ To("main", step, "unlink", "prepared", "finish", op["main"].result)
        \/ MovesTo("main", "finish")
  \/ /\ op["main"].call \in {"discard", "commit"} /\ op["main"].at = "finish"
     /\ MovesTo("main", "returned")
  \/ /\ op["main"].call = "recover" /\ op["main"].at = "scan"
     /\ \/ \E f \in live["delivered"] \cap live["pending"] :
             To("main", f, "unlink", "pending", "scan", op["main"].result)
        \/ \E f \in Frames : To("main", f, "unlink", "prepared", "scan", op["main"].result)
        \/ /\ live["delivered"] \cap live["pending"] = {}
           /\ To("main", op["main"].frame, "returned", op["main"].dir, op["main"].then, "none")
  \/ /\ op["main"].call # "none" /\ op["main"].at \in {"link", "unlink", "sync unlink"}
     /\ To("main", op["main"].frame, "raised", op["main"].dir, op["main"].then, "io")

\* Linked and durable records.
LEMMA LinkedDurable ==
  ASSUME IndInv
  PROVE  /\ \A f : Durable(f) => f \in live["pending"] \cup live["delivered"]
         /\ \A f \in live["delivered"] : Durable(f)
         /\ \A f \in live["pending"] : op["main"].at # "sync" => Durable(f)
  BY DEF IndInv, Durability, DeliverInv, Durable

\* A step that moves the call and nothing else preserves what is known about it.
LEMMA MainMovesKeep ==
  ASSUME IndInv, OnlyJournal, UNCHANGED <<live, disk>>, MainMoves
  PROVE  MainCall' /\ MainView' /\ Durability' /\ op'["worker"] = op["worker"] /\ op' \in Records
<1> USE TwoThreads
<1>1. op'["worker"] = op["worker"] /\ op' \in Records /\ op'["main"].call = op["main"].call
  BY DEF MainMoves, MovesTo, To, Writes
<1>2. op["main"].call \in {"prepare", "discard", "commit"} => op["main"].frame = step /\ op'["main"].frame = step
  BY DEF MainMoves, MovesTo, To, Writes, IndInv, MainCall
<1>3. MainCall'
  BY <1>1, <1>2 DEF MainCall, IndInv, OnlyJournal, threadVars
<1>4. Durability'
  <2>1. op["main"].at # "sync"
    BY DEF MainMoves
  <2> QED BY <2>1, <1>1, DurabilityStays DEF IndInv
<1>5. Shape("main")'
  BY <1>1 DEF MainMoves, MovesTo, To, Writes, IndInv, Shape
<1>6. RecoverInv'
  <2>1. op["main"].call = "recover" => live["delivered"] \subseteq disk["delivered"]
    BY DEF IndInv, MainCall, WorkerCall, Durability
  <2>2. CASE op["main"].call # "recover"
    BY <2>2, <1>1 DEF RecoverInv
  <2>3. CASE op["main"].call = "recover"
    BY <2>1, <2>3, <1>1 DEF MainMoves, MovesTo, To, Writes, IndInv, RecoverInv, Shape
  <2> QED BY <2>2, <2>3
<1>7. PrepareInv'
  <2>1. main # "staged"
    BY DEF MainMoves, IndInv, MainCall
  <2>2. CASE op["main"].call # "prepare"
    BY <2>1, <2>2, <1>1 DEF PrepareInv, OnlyJournal, threadVars
  <2>3. CASE op["main"].call = "prepare"
    <3>1. /\ op["main"].at \in {"prepared?", "link", "sync"} => Fresh(step)
          /\ op["main"].at \notin {"returned", "sync"}
      BY <2>3 DEF MainMoves, IndInv, PrepareInv
    <3>2. step \in Frames /\ main = "preparing"
      BY <2>3 DEF IndInv, MainCall, Stepping
    <3>3. step \notin live["pending"] => Fresh(step)
      BY <3>2, LinkedDurable DEF IndInv, Jobs, Fresh
    <3>4. step \in live["pending"] => Durable(step) /\ (Owed(step) \/ step \in live["delivered"])
      BY <3>1, <3>2, LinkedDurable DEF IndInv, Account, Running
    <3>5. step \in live["delivered"] => Durable(step)
      BY LinkedDurable
    <3>6. op'["main"].at \in {"prepared?", "link", "sync"} => Fresh(step)
      BY <2>3, <3>1, <3>3 DEF MainMoves, MovesTo, To, Writes
    <3>7. op'["main"].at = "returned" =>
            \/ op'["main"].result = "prepared" /\ Fresh(step)
            \/ op'["main"].result = "pending" /\ step \in live["pending"]
            \/ op'["main"].result = "delivered" /\ step \in live["delivered"]
      BY <2>3, <3>1 DEF MainMoves, MovesTo, To, Writes
    <3>8. op'["main"].at = "returned" => op'["main"].result \in States /\ Says(op["main"].result)'
      BY <3>7, <3>4, <3>5, LinksStay, JobsStay DEF Says, States, OnlyJournal, threadVars
    <3> QED BY <2>1, <3>6, <3>8, LinksStay DEF PrepareInv, OnlyJournal, threadVars
  <2> QED BY <2>2, <2>3
<1>8. CommitInv'
  <2>1. main # "enqueue"
    BY DEF MainMoves, IndInv, MainCall
  <2>2. CASE op["main"].call # "commit"
    BY <2>1, <2>2, <1>1 DEF CommitInv, OnlyJournal, threadVars
  <2>3. CASE op["main"].call = "commit"
    <3>1. /\ op["main"].at = "delivered?" => Fresh(step)
          /\ op["main"].at \in {"pending?", "source?", "link", "sync"}
               => ~HasJob(step) /\ step \notin live["delivered"]
          /\ op["main"].at \in {"source again?", "stale prepared?", "unlink", "sync unlink", "finish", "returned"}
               => /\ op["main"].result \in {"pending", "delivered"} /\ Durable(step)
                  /\ op["main"].result = "pending" => ~HasJob(step) /\ step \notin live["delivered"]
                  /\ op["main"].result = "delivered" => step \in live["delivered"]
      BY <2>3 DEF IndInv, CommitInv
    <3>2. op["main"].at # "sync" /\ op'["main"].at \notin {"delivered?", "sync"}
      BY DEF MainMoves, MovesTo, To, Writes
    <3>3. /\ step \in live["pending"] => Durable(step)
          /\ step \in live["delivered"] => Durable(step)
      BY <3>2, LinkedDurable
    <3>4. op'["main"].at \in {"pending?", "source?", "link", "sync"}
            => ~HasJob(step) /\ step \notin live["delivered"]
      BY <2>3, <3>1 DEF MainMoves, MovesTo, To, Writes, Fresh
    <3>5. op'["main"].at \in {"source again?", "stale prepared?", "unlink", "sync unlink", "finish", "returned"}
            => /\ op'["main"].result \in {"pending", "delivered"} /\ Durable(step)
               /\ op'["main"].result = "pending" => ~HasJob(step) /\ step \notin live["delivered"]
               /\ op'["main"].result = "delivered" => step \in live["delivered"]
      BY <2>3, <3>1, <3>3 DEF MainMoves, MovesTo, To, Writes
    <3> QED BY <2>1, <3>2, <3>4, <3>5, LinksStay, JobsStay DEF CommitInv, OnlyJournal, threadVars
  <2> QED BY <2>2, <2>3
<1> QED BY <1>1, <1>3, <1>4, <1>5, <1>6, <1>7, <1>8 DEF MainView

\* The steps of the simulation thread's call that only inspect, and a system call that
\* fails, are such moves.
LEMMA MainInspects ==
  ASSUME IndInv, Inspect("main")
  PROVE  MainMoves /\ UNCHANGED <<live, disk>>
<1> USE TwoThreads, PlacesKnown
<1>0. JournalTypes /\ UNCHANGED <<live, disk>>
  BY DEF IndInv, Inspect
<1>1. op["main"].at \in {"delivered?", "pending?", "prepared?"} =>
        op["main"].call \in {"prepare", "discard", "commit"} /\ op["main"].frame = step
  BY DEF IndInv, Shape, MainCall
<1>2. CASE At("main", "delivered?") /\ ~Has("main", "delivered")
                                    /\ Go("main", IF op["main"].call = "deliver" THEN "source?" ELSE "pending?")
  <2>1. MovesTo("main", "pending?")
    BY <1>0, <1>1, <1>2, GoTo DEF At
  <2> QED BY <1>0, <1>1, <1>2, <2>1 DEF MainMoves, At, Has
<1>3. CASE At("main", "delivered?") /\ Has("main", "delivered")
             /\ CASE op["main"].call = "prepare" -> End("main", "delivered")
                  [] op["main"].call = "discard" -> Fail("main", "committed")
                  [] op["main"].call = "commit" -> Keep("main", "delivered", "stale prepared?")
                  [] OTHER -> Keep("main", "delivered", "stale pending?")
  <2>1. CASE op["main"].call = "prepare"
    <3>1. To("main", step, "returned", op["main"].dir, op["main"].then, "delivered")
      BY <1>0, <1>1, <1>3, <2>1, KeepTo DEF At, End
    <3> QED BY <1>0, <1>1, <1>3, <2>1, <3>1 DEF MainMoves, At, Has
  <2>2. CASE op["main"].call = "discard"
    <3>1. To("main", step, "raised", op["main"].dir, op["main"].then, "committed")
      BY <1>0, <1>1, <1>3, <2>2, KeepTo DEF At, Fail
    <3> QED BY <1>0, <1>1, <1>3, <2>2, <3>1 DEF MainMoves, At, Has
  <2>3. CASE op["main"].call = "commit"
    <3>1. To("main", step, "stale prepared?", op["main"].dir, op["main"].then, "delivered")
      BY <1>0, <1>1, <1>3, <2>3, KeepTo DEF At
    <3> QED BY <1>0, <1>1, <1>3, <2>3, <3>1 DEF MainMoves, At, Has
  <2> QED BY <1>1, <1>3, <2>1, <2>2, <2>3 DEF At
<1>4. CASE At("main", "pending?") /\ ~Has("main", "pending")
                                  /\ Go("main", IF op["main"].call = "commit" THEN "source?" ELSE "prepared?")
  <2>1. MovesTo("main", IF op["main"].call = "commit" THEN "source?" ELSE "prepared?")
    BY <1>0, <1>1, <1>4, GoTo DEF At
  <2> QED BY <1>0, <1>1, <1>4, <2>1 DEF MainMoves, At, Has
<1>5. CASE At("main", "pending?") /\ Has("main", "pending")
             /\ CASE op["main"].call = "prepare" -> End("main", "pending")
                  [] op["main"].call = "discard" -> Fail("main", "committed")
                  [] OTHER -> Keep("main", "pending", "stale prepared?")
  <2>1. CASE op["main"].call = "prepare"
    <3>1. To("main", step, "returned", op["main"].dir, op["main"].then, "pending")
      BY <1>0, <1>1, <1>5, <2>1, KeepTo DEF At, End
    <3> QED BY <1>0, <1>1, <1>5, <2>1, <3>1 DEF MainMoves, At, Has
  <2>2. CASE op["main"].call = "discard"
    <3>1. To("main", step, "raised", op["main"].dir, op["main"].then, "committed")
      BY <1>0, <1>1, <1>5, <2>2, KeepTo DEF At, Fail
    <3> QED BY <1>0, <1>1, <1>5, <2>2, <3>1 DEF MainMoves, At, Has
  <2>3. CASE op["main"].call = "commit"
    <3>1. To("main", step, "stale prepared?", op["main"].dir, op["main"].then, "pending")
      BY <1>0, <1>1, <1>5, <2>3, KeepTo DEF At
    <3> QED BY <1>0, <1>1, <1>5, <2>3, <3>1 DEF MainMoves, At, Has
  <2> QED BY <1>1, <1>5, <2>1, <2>2, <2>3 DEF At
<1>6. CASE In("main", "prepare", "prepared?")
             /\ IF Has("main", "prepared") THEN End("main", "prepared") ELSE Go("main", "link")
  <2>1. \/ To("main", step, "returned", op["main"].dir, op["main"].then, "prepared")
        \/ MovesTo("main", "link")
    BY <1>0, <1>1, <1>6, KeepTo, GoTo DEF In, End
  <2> QED BY <1>0, <1>6, <2>1 DEF MainMoves, In
<1>7. CASE In("main", "discard", "prepared?")
             /\ IF Has("main", "prepared")
                THEN op' = [op EXCEPT !["main"].at = "unlink", !["main"].dir = "prepared",
                                      !["main"].then = "finish", !["main"].result = "removed"]
                ELSE End("main", "none")
  <2>1. \/ To("main", step, "unlink", "prepared", "finish", "removed")
        \/ To("main", step, "returned", op["main"].dir, op["main"].then, "none")
    BY <1>0, <1>1, <1>7, KeepTo, DiscardTo DEF In, End
  <2> QED BY <1>0, <1>7, <2>1 DEF MainMoves, In
<1> QED BY <1>2, <1>3, <1>4, <1>5, <1>6, <1>7 DEF Inspect

\* The steps of a promotion of the main thread that change no directory.
LEMMA MainContinues ==
  ASSUME IndInv, PromoteSource("main") \/ PromoteCleanup("main") \/ RemoveStale("main") \/ Finish("main")
  PROVE  MainMoves /\ UNCHANGED <<live, disk>>
<1> USE TwoThreads, PlacesKnown
<1>0. JournalTypes /\ UNCHANGED <<live, disk>>
  BY DEF IndInv, PromoteSource, PromoteCleanup, RemoveStale, Finish
<1>1. /\ op["main"].at \in {"source?", "source again?", "stale prepared?"} => op["main"].call = "commit"
      /\ op["main"].at = "finish" => op["main"].call \in {"discard", "commit"}
      /\ op["main"].at # "stale pending?"
      /\ op["main"].call \in {"discard", "commit"} => op["main"].frame = step
  BY DEF IndInv, Shape, MainCall
<1>2. CASE PromoteSource("main")
  <2>1. \/ MovesTo("main", "link")
        \/ To("main", op["main"].frame, "raised", op["main"].dir, op["main"].then, "missing")
    BY <1>0, <1>2, KeepTo, GoTo DEF PromoteSource, Fail
  <2> QED BY <1>0, <1>1, <1>2, <2>1 DEF MainMoves, PromoteSource, At
<1>3. CASE PromoteCleanup("main")
  <2>1. op["main"].call = "commit" /\ op["main"].at = "source again?" /\ op["main"].frame = step
    BY <1>1, <1>3 DEF PromoteCleanup, At
  <2>2. Remove("main", "prepared", "finish") \/ Go("main", "finish")
    BY <2>1, <1>3 DEF PromoteCleanup, Source
  <2>3. \/ To("main", step, "unlink", "prepared", "finish", op["main"].result)
        \/ MovesTo("main", "finish")
    BY <1>0, <2>1, <2>2, RemoveTo, GoTo
  <2> QED BY <1>0, <2>1, <2>3 DEF MainMoves
<1>4. CASE RemoveStale("main")
  <2>1. op["main"].call = "commit" /\ op["main"].at = "stale prepared?" /\ op["main"].frame = step
    BY <1>1, <1>4 DEF RemoveStale, At
  <2>2. Remove("main", "prepared", "finish") \/ Go("main", "finish")
    BY <2>1, <1>4 DEF RemoveStale, At
  <2>3. \/ To("main", step, "unlink", "prepared", "finish", op["main"].result)
        \/ MovesTo("main", "finish")
    BY <1>0, <2>1, <2>2, RemoveTo, GoTo
  <2> QED BY <1>0, <2>1, <2>3 DEF MainMoves
<1>5. CASE Finish("main")
  <2>1. op["main"].result \in Results
    BY <1>0 DEF JournalTypes
  <2>2. To("main", op["main"].frame, "returned", op["main"].dir, op["main"].then, op["main"].result)
    BY <1>0, <1>5, <2>1, KeepTo DEF Finish, End
  <2> QED BY <1>0, <1>1, <1>5, <2>2 DEF MainMoves, MovesTo, Finish, At
<1> QED BY <1>2, <1>3, <1>4, <1>5

\* The scan of _recover.
LEMMA MainRecovers ==
  ASSUME IndInv, Recover("main")
  PROVE  MainMoves /\ UNCHANGED <<live, disk>>
<1> USE TwoThreads, PlacesKnown
<1>0. /\ JournalTypes /\ UNCHANGED <<live, disk>>
      /\ op["main"].call = "recover" /\ op["main"].at = "scan"
      /\ live["pending"] \subseteq Frames /\ live["prepared"] \subseteq Frames
  BY DEF IndInv, Recover, In, JournalTypes, States
<1>1. CASE \E f \in live["delivered"] \cap live["pending"] :
             op' = [op EXCEPT !["main"].frame = f, !["main"].at = "unlink", !["main"].dir = "pending", !["main"].then = "scan"]
  <2>1. PICK f \in live["delivered"] \cap live["pending"] :
          op' = [op EXCEPT !["main"].frame = f, !["main"].at = "unlink", !["main"].dir = "pending", !["main"].then = "scan"]
    BY <1>1
  <2>2. To("main", f, "unlink", "pending", "scan", op["main"].result)
    BY <1>0, <2>1, RecoverTo
  <2> QED BY <1>0, <2>1, <2>2 DEF MainMoves
<1>2. CASE \E f \in live["prepared"] \ (live["delivered"] \cap live["pending"]) :
             op' = [op EXCEPT !["main"].frame = f, !["main"].at = "unlink", !["main"].dir = "prepared", !["main"].then = "scan"]
  <2>1. PICK f \in live["prepared"] :
          op' = [op EXCEPT !["main"].frame = f, !["main"].at = "unlink", !["main"].dir = "prepared", !["main"].then = "scan"]
    BY <1>2
  <2>2. f \in Frames /\ To("main", f, "unlink", "prepared", "scan", op["main"].result)
    BY <1>0, <2>1, RecoverTo
  <2> QED BY <1>0, <2>2 DEF MainMoves
<1>3. CASE /\ live["prepared"] \cup (live["delivered"] \cap live["pending"]) = {}
           /\ End("main", "none")
  <2>1. To("main", op["main"].frame, "returned", op["main"].dir, op["main"].then, "none")
    BY <1>0, <1>3, KeepTo DEF End
  <2> QED BY <1>0, <1>3, <2>1 DEF MainMoves
<1> QED BY <1>1, <1>2, <1>3 DEF Recover

\* A failing system call of the main thread's call.
LEMMA MainCallFails ==
  ASSUME IndInv, NEW at \in {"link", "unlink", "sync unlink"}, CallFails("main", at)
  PROVE  MainMoves /\ UNCHANGED <<live, disk>>
<1> USE TwoThreads, PlacesKnown
<1>1. JournalTypes /\ UNCHANGED <<live, disk>> /\ op["main"].call # "none"
  BY DEF IndInv, CallFails, Shape, At
<1>2. To("main", op["main"].frame, "raised", op["main"].dir, op["main"].then, "io")
  BY <1>1, KeepTo DEF CallFails, Fail
<1> QED BY <1>1, <1>2 DEF MainMoves, CallFails, At

\* A failing fsync of a new archive leaves it linked and unsynced, and nobody was
\* promised more.
LEMMA MainPrepareFails ==
  ASSUME IndInv, OnlyJournal, CallFails("main", "sync"), ~Abandons("main", "sync")
  PROVE  /\ MainCall' /\ MainView' /\ Durability' /\ op'["worker"] = op["worker"] /\ op' \in Records
         /\ UNCHANGED <<live, disk>>
<1> USE TwoThreads, PlacesKnown
<1>1. /\ JournalTypes /\ UNCHANGED <<live, disk>> /\ op["main"].at = "sync" /\ Target("main") = "prepared"
  BY DEF IndInv, CallFails, At, Abandons
<1>2. op["main"].call = "prepare"
  BY <1>1 DEF Target, IndInv, Shape, MainCall, JournalTypes, Calls
<1>3. To("main", op["main"].frame, "raised", op["main"].dir, op["main"].then, "io")
  BY <1>1, KeepTo DEF CallFails, Fail
<1>4. /\ op'["worker"] = op["worker"] /\ op' \in Records /\ op'["main"].call = "prepare"
      /\ op'["main"].at = "raised" /\ op'["main"].frame = op["main"].frame
  BY <1>2, <1>3 DEF To, Writes
<1>5. MainCall'
  BY <1>2, <1>4 DEF MainCall, IndInv, OnlyJournal, threadVars
<1>6. Durability'
  <2>1. \A f : Durable(f)' <=> Durable(f)
    BY <1>1, LinksStay
  <2>2. live["pending"] \subseteq disk["pending"]
    BY <1>2 DEF IndInv, Durability
  <2> QED BY <1>1, <1>4, <2>1, <2>2 DEF IndInv, Durability
<1>7. Shape("main")'
  BY <1>4 DEF Shape
<1>8. main # "staged" /\ main # "enqueue"
  BY <1>2 DEF IndInv, MainCall
<1>9. RecoverInv' /\ PrepareInv' /\ CommitInv'
  BY <1>4, <1>8 DEF RecoverInv, PrepareInv, CommitInv, OnlyJournal, threadVars
<1> QED BY <1>1, <1>4, <1>5, <1>6, <1>7, <1>9 DEF MainView

\* What a step that changes neither links nor threads leaves as it was.
LEMMA RestStays ==
  ASSUME IndInv, OnlyJournal, UNCHANGED <<live, disk>>
  PROVE  /\ ThreadTypes' /\ Jobs' /\ Numbered' /\ Lifecycle' /\ Account'
         /\ op' \in Records => JournalTypes'
         /\ op'["worker"] = op["worker"] => WorkerCall' /\ Shape("worker")' /\ DeliverInv'
         /\ op'["main"] = op["main"] => MainCall' /\ MainView'
<1>1. /\ UNCHANGED <<main, step, record, replay, fifo, gate, cancelled, queue, item, wpc, attempt, answer, closes>>
      /\ ledger' \in LedgerRecord /\ ledger'.handed = ledger.handed
      /\ ledger'.offered = ledger.offered /\ ledger'.executed = ledger.executed
  BY DEF OnlyJournal, threadVars
<1>2. ThreadTypes'
  BY <1>1 DEF IndInv, ThreadTypes
<1>3. Jobs'
  BY <1>1, JobsStay, LinksStay DEF IndInv, Jobs
<1>4. Numbered' /\ Lifecycle'
  BY <1>1, JobsStay DEF IndInv, Numbered, Lifecycle, Busy
<1>5. Account'
  BY <1>1, JobsStay, LinksStay DEF IndInv, Account, Running
<1>6. op' \in Records => JournalTypes'
  BY DEF IndInv, JournalTypes, Records
<1>7. op'["worker"] = op["worker"] => WorkerCall' /\ Shape("worker")' /\ DeliverInv'
  BY <1>1, JobsStay DEF IndInv, WorkerCall, Shape, DeliverInv
<1>8. op'["main"] = op["main"] => MainCall'
  BY <1>1 DEF IndInv, MainCall
<1>9. op'["main"] = op["main"] => MainView'
  BY <1>1, JobsStay, LinksStay DEF IndInv, MainView, Shape, RecoverInv, PrepareInv, CommitInv, Says
<1> QED BY <1>2, <1>3, <1>4, <1>5, <1>6, <1>7, <1>8, <1>9

-----------------------------------------------------------------------------
\* The steps of the simulation thread's call that change the directories.
Delivereds == live'["delivered"] = live["delivered"] /\ disk'["delivered"] = disk["delivered"]

\* What a change of the directories by the main thread leaves of the queue and the worker.
LEMMA MainLinksKeep ==
  ASSUME IndInv, OnlyJournal, Delivereds, op' \in Records, op'["worker"] = op["worker"],
         live' \in [States -> SUBSET Frames], disk' \in [States -> SUBSET Frames],
         \A f : Durable(f) => Durable(f)',
         \A f \in live'["pending"] : f \in live["pending"] \/ (f = step /\ main = "committing"),
         wpc = "acknowledge" => live["pending"] \cap disk["pending"] \subseteq live'["pending"] \cap disk'["pending"]
  PROVE  ThreadTypes' /\ JournalTypes' /\ Jobs' /\ Numbered' /\ Lifecycle' /\ Account'
         /\ WorkerCall' /\ Shape("worker")' /\ DeliverInv'
<1>1. /\ UNCHANGED <<main, step, record, replay, fifo, gate, cancelled, queue, item, wpc, attempt, answer, closes>>
      /\ ledger' \in LedgerRecord /\ ledger'.handed = ledger.handed
      /\ ledger'.offered = ledger.offered /\ ledger'.executed = ledger.executed
  BY DEF OnlyJournal, threadVars
<1>2. ThreadTypes' /\ JournalTypes'
  BY <1>1 DEF IndInv, ThreadTypes, JournalTypes, Records
<1>3. Jobs'
  BY <1>1, JobsStay DEF IndInv, Jobs, Delivereds
<1>4. Numbered' /\ Lifecycle'
  BY <1>1, JobsStay DEF IndInv, Numbered, Lifecycle, Busy
<1>5. Account'
  <2>1. \A f \in ledger.handed' : Durable(f)'
    BY <1>1 DEF IndInv, Account
  <2>2. Running' => \A f \in ledger.handed' : Owed(f)' \/ f \in disk'["delivered"]
    BY <1>1, JobsStay DEF IndInv, Account, Running, Delivereds
  <2>3. Running' => \A f \in live'["pending"] :
          f > step' \/ (f = step' /\ main' \notin {"committing", "enqueue", "consensus"})
            => Owed(f)' \/ f \in live'["delivered"]
    <3>1. step \in Nat
      BY DeliveryAssumption DEF IndInv, ThreadTypes, Last
    <3> QED BY <1>1, <3>1, JobsStay DEF IndInv, Account, Running, Delivereds
  <2> QED BY <2>1, <2>2, <2>3 DEF Account
<1>6. WorkerCall' /\ Shape("worker")'
  BY <1>1, JobsStay DEF IndInv, WorkerCall, Shape
<1>7. DeliverInv'
  BY <1>1 DEF IndInv, WorkerCall, DeliverInv, Delivereds
<1> QED BY <1>2, <1>3, <1>4, <1>5, <1>6, <1>7

\* What is known of the call after such a step, when it stays the same call.
LEMMA MainCallKept ==
  ASSUME IndInv, OnlyJournal, op'["main"].call = op["main"].call, op'["main"].frame = op["main"].frame
  PROVE  MainCall'
  BY DEF IndInv, MainCall, OnlyJournal, threadVars

\* The main thread links an archive: prepare or commit.
LEMMA MainLink ==
  ASSUME IndInv, OnlyJournal, Link("main")
  PROVE  IndInv'
<1> USE TwoThreads, PlacesKnown
<1>0. /\ UNCHANGED <<main, step, record, replay, fifo, gate, cancelled, queue, item, wpc, attempt, answer, closes>>
      /\ ledger' \in LedgerRecord /\ ledger'.handed = ledger.handed
      /\ ledger'.offered = ledger.offered /\ ledger'.executed = ledger.executed
  BY DEF OnlyJournal, threadVars
<1>1. MovesTo("main", "sync") /\ disk' = disk /\ op["main"].at = "link"
  BY GoTo DEF IndInv, Link, At
<1>2. op' \in Records /\ op'["worker"] = op["worker"]
      /\ op'["main"].call = op["main"].call /\ op'["main"].frame = op["main"].frame /\ op'["main"].at = "sync"
  BY <1>1 DEF MovesTo, To, Writes
<1>3. op["main"].call \in {"prepare", "commit"} /\ op["main"].frame = step /\ step \in Frames
  BY <1>1 DEF IndInv, Shape, MainCall, Stepping
<1>4. live \in [States -> SUBSET Frames] /\ disk \in [States -> SUBSET Frames]
  BY DEF IndInv, JournalTypes
<1>5. MainCall'
  BY <1>2, MainCallKept
<1>6. Shape("main")' /\ RecoverInv'
  BY <1>2, <1>3 DEF Shape, RecoverInv
<1>7. CASE op["main"].call = "prepare"
  <2>1. live' = [live EXCEPT !["prepared"] = @ \cup {step}]
    BY <1>3, <1>7 DEF Link, Target
  <2>2. /\ live' \in [States -> SUBSET Frames] /\ live'["pending"] = live["pending"]
        /\ live'["delivered"] = live["delivered"] /\ live["prepared"] \subseteq live'["prepared"]
    BY <1>3, <1>4, <2>1 DEF States
  <2>3. /\ \A f : Durable(f)' <=> Durable(f)
        /\ Durable(step)' <=> Durable(step)
    BY <1>0, <1>1 DEF Durable
  <2>4. Fresh(step)
    BY <1>1, <1>7 DEF IndInv, PrepareInv
  <2>5. Fresh(step)' /\ main = "preparing"
    BY <2>2, <2>4, <1>0, <1>7, JobsStay DEF Fresh, IndInv, MainCall
  <2>6. PrepareInv' /\ CommitInv'
    BY <1>0, <1>2, <1>7, <2>5 DEF PrepareInv, CommitInv
  <2>7. Durability'
    BY <1>1, <1>2, <1>7, <2>2, <2>3 DEF IndInv, Durability
  <2>8. wpc = "acknowledge" => live["pending"] \cap disk["pending"] \subseteq live'["pending"] \cap disk'["pending"]
    BY <1>1, <2>2
  <2>9. Delivereds
    BY <1>1, <2>2 DEF Delivereds
  <2> QED BY <1>1, <1>2, <1>4, <1>5, <1>6, <2>2, <2>3, <2>6, <2>7, <2>8, <2>9, MainLinksKeep DEF IndInv
<1>8. CASE op["main"].call = "commit"
  <2>1. live' = [live EXCEPT !["pending"] = @ \cup {step}]
    BY <1>3, <1>8 DEF Link, Target
  <2>2. /\ live' \in [States -> SUBSET Frames] /\ live'["pending"] = live["pending"] \cup {step}
        /\ live'["delivered"] = live["delivered"] /\ live["prepared"] = live'["prepared"]
    BY <1>3, <1>4, <2>1 DEF States
  <2>3. /\ \A f : Durable(f)' <=> Durable(f)
        /\ Durable(step)' <=> Durable(step)
    BY <1>0, <1>1 DEF Durable
  <2>4. ~HasJob(step) /\ step \notin live["delivered"] /\ main = "committing"
    BY <1>1, <1>8 DEF IndInv, CommitInv, MainCall
  <2>5. ~HasJob(step)' /\ step \notin live'["delivered"]
    BY <2>2, <2>4, <1>0, JobsStay
  <2>6. PrepareInv' /\ CommitInv'
    BY <1>0, <1>2, <1>8, <2>2, <2>4, <2>5 DEF PrepareInv, CommitInv
  <2>7. Durability'
    BY <1>1, <1>2, <1>3, <1>8, <2>2, <2>3 DEF IndInv, Durability
  <2>8. wpc = "acknowledge" => live["pending"] \cap disk["pending"] \subseteq live'["pending"] \cap disk'["pending"]
    BY <1>1, <2>2
  <2>9. Delivereds
    BY <1>1, <2>2 DEF Delivereds
  <2> QED BY <1>1, <1>2, <1>4, <1>5, <1>6, <2>2, <2>3, <2>4, <2>6, <2>7, <2>8, <2>9, MainLinksKeep DEF IndInv
<1> QED BY <1>3, <1>7, <1>8

\* The main thread syncs the directory it linked into.
LEMMA MainSync ==
  ASSUME Trusted, IndInv, OnlyJournal, Sync("main")
  PROVE  IndInv'
<1> USE TwoThreads, PlacesKnown
<1>0. /\ UNCHANGED <<main, step, record, replay, fifo, gate, cancelled, queue, item, wpc, attempt, answer, closes>>
      /\ ledger' \in LedgerRecord /\ ledger'.handed = ledger.handed
      /\ ledger'.offered = ledger.offered /\ ledger'.executed = ledger.executed
  BY DEF OnlyJournal, threadVars
<1>1. /\ JournalTypes /\ live' = live /\ op["main"].at = "sync" /\ disk' = [disk EXCEPT ![Target("main")] = live[Target("main")]]
      /\ op["main"].call \in {"prepare", "commit"} /\ op["main"].frame = step /\ step \in Frames
  BY DEF IndInv, Sync, At, Synced, Trusted, Shape, MainCall, Stepping
<1>4. live \in [States -> SUBSET Frames] /\ disk \in [States -> SUBSET Frames]
  BY DEF IndInv, JournalTypes
<1>7. CASE op["main"].call = "prepare"
  <2>1. To("main", step, "returned", op["main"].dir, op["main"].then, "prepared")
    BY <1>1, <1>7, KeepTo DEF Sync, End
  <2>2. op' \in Records /\ op'["worker"] = op["worker"]
        /\ op'["main"].call = "prepare" /\ op'["main"].frame = step /\ op'["main"].at = "returned"
        /\ op'["main"].result = "prepared"
    BY <2>1, <1>7 DEF To, Writes
  <2>3. /\ disk' \in [States -> SUBSET Frames] /\ disk'["pending"] = disk["pending"]
        /\ disk'["delivered"] = disk["delivered"] /\ disk'["prepared"] = live["prepared"]
    BY <1>1, <1>4, <1>7 DEF States, Target
  <2>4. MainCall'
    BY <1>1, <1>7, <2>2, MainCallKept
  <2>5. Shape("main")' /\ RecoverInv'
    BY <2>2 DEF Shape, RecoverInv
  <2>6. \A f : Durable(f)' <=> Durable(f)
    BY <2>3 DEF Durable
  <2>7. Fresh(step)' /\ main = "preparing"
    BY <1>0, <1>1, <1>7, JobsStay DEF IndInv, PrepareInv, Fresh, MainCall
  <2>8. PrepareInv' /\ CommitInv'
    BY <1>0, <2>2, <2>7 DEF PrepareInv, CommitInv, Says
  <2>9. Durability'
    BY <1>1, <1>7, <2>2, <2>3, <2>6 DEF IndInv, Durability
  <2>10. Delivereds
    BY <1>1, <2>3 DEF Delivereds
  <2> QED BY <1>1, <1>4, <2>2, <2>3, <2>4, <2>5, <2>6, <2>8, <2>9, <2>10, MainLinksKeep DEF IndInv
<1>8. CASE op["main"].call = "commit"
  <2>1. To("main", step, "source again?", op["main"].dir, op["main"].then, "pending")
    BY <1>1, <1>8, KeepTo DEF Sync, Target
  <2>2. op' \in Records /\ op'["worker"] = op["worker"]
        /\ op'["main"].call = "commit" /\ op'["main"].frame = step /\ op'["main"].at = "source again?"
        /\ op'["main"].result = "pending"
    BY <2>1, <1>8 DEF To, Writes
  <2>3. /\ disk' \in [States -> SUBSET Frames] /\ disk'["pending"] = live["pending"]
        /\ disk'["delivered"] = disk["delivered"] /\ disk'["prepared"] = disk["prepared"]
    BY <1>1, <1>4, <1>8 DEF States, Target
  <2>4. MainCall'
    BY <1>1, <1>8, <2>2, MainCallKept
  <2>5. Shape("main")' /\ RecoverInv'
    BY <2>2 DEF Shape, RecoverInv
  <2>6. \A f : Durable(f) => Durable(f)'
    BY <2>3 DEF Durable, IndInv, Durability
  <2>7. /\ ~HasJob(step) /\ step \notin live["delivered"] /\ main = "committing"
        /\ step \in live["pending"]
    BY <1>1, <1>8 DEF IndInv, CommitInv, MainCall
  <2>8. ~HasJob(step)' /\ step \notin live'["delivered"] /\ Durable(step)'
    BY <1>0, <1>1, <2>3, <2>7, JobsStay DEF Durable
  <2>9. PrepareInv' /\ CommitInv'
    BY <1>0, <2>2, <2>7, <2>8 DEF PrepareInv, CommitInv
  <2>10. Durability'
    <3>1. \A f \in live'["pending"] \ disk'["pending"] :
          op'["main"].call = "commit" /\ op'["main"].at = "sync" /\ op'["main"].frame = f
      BY <1>1, <1>8, <2>2, <2>3, <2>6 DEF IndInv, Durability
    <3>2. \A f \in live'["delivered"] \ disk'["delivered"] :
          op'["worker"].call = "deliver" /\ op'["worker"].at = "sync" /\ op'["worker"].frame = f
      <4>1. \A f \in live["delivered"] \ disk["delivered"] :
              op["worker"].call = "deliver" /\ op["worker"].at = "sync" /\ op["worker"].frame = f
        BY DEF IndInv, Durability
      <4> QED BY ONLY <4>1, <1>1, <2>2, <2>3
    <3>3. disk'["delivered"] \subseteq live'["delivered"]
      BY <1>1, <1>8, <2>2, <2>3, <2>6 DEF IndInv, Durability
    <3>4. disk'["pending"] \subseteq live'["pending"] \cup disk'["delivered"]
      BY <1>1, <1>8, <2>2, <2>3, <2>6 DEF IndInv, Durability
    <3> QED BY <3>1, <3>2, <3>3, <3>4 DEF Durability
  <2>11. Delivereds
    BY <1>1, <2>3 DEF Delivereds
  <2> QED BY <1>1, <1>4, <2>2, <2>3, <2>4, <2>5, <2>6, <2>9, <2>10, <2>11, MainLinksKeep DEF IndInv
<1> QED BY <1>1, <1>7, <1>8

\* Where an unlink of the simulation thread's call may go on to, and what it removes.
LEMMA MainUnlinks ==
  ASSUME IndInv, op["main"].at \in {"unlink", "sync unlink"}
  PROVE  /\ op["main"].call \in {"recover", "discard", "commit"}
         /\ op["main"].dir = "prepared" \/ (op["main"].dir = "pending" /\ op["main"].call = "recover")
         /\ op["main"].then = IF op["main"].call = "recover" THEN "scan" ELSE "finish"
         /\ op["main"].dir = "pending" =>
              op["main"].frame \in disk["delivered"] /\ wpc = "unstarted"
  BY DEF IndInv, Shape, MainCall, RecoverInv

\* The main thread unlinks a stale or discarded archive.
LEMMA MainUnlink ==
  ASSUME IndInv, OnlyJournal, Unlink("main")
  PROVE  IndInv'
<1> USE TwoThreads, PlacesKnown
<1>0. /\ UNCHANGED <<main, step, record, replay, fifo, gate, cancelled, queue, item, wpc, attempt, answer, closes>>
      /\ ledger' \in LedgerRecord /\ ledger'.handed = ledger.handed
      /\ ledger'.offered = ledger.offered /\ ledger'.executed = ledger.executed
  BY DEF OnlyJournal, threadVars
<1>1. /\ JournalTypes /\ disk' = disk /\ op["main"].at = "unlink"
      /\ live' = [live EXCEPT ![op["main"].dir] = @ \ {op["main"].frame}]
      /\ op["main"].then \in Places
  BY DEF IndInv, Unlink, At, JournalTypes
<1>2. MovesTo("main", IF Has("main", op["main"].dir) THEN "sync unlink" ELSE op["main"].then)
  BY <1>1, GoTo DEF Unlink
<1>3. /\ op' \in Records /\ op'["worker"] = op["worker"]
      /\ op'["main"].call = op["main"].call /\ op'["main"].frame = op["main"].frame
      /\ op'["main"].dir = op["main"].dir /\ op'["main"].then = op["main"].then
      /\ op'["main"].result = op["main"].result
      /\ op'["main"].at = IF op["main"].frame \in live[op["main"].dir] THEN "sync unlink" ELSE op["main"].then
  BY <1>2 DEF MovesTo, To, Writes, Has
<1>4. live \in [States -> SUBSET Frames] /\ disk \in [States -> SUBSET Frames]
  BY DEF IndInv, JournalTypes
<1>5. MainCall'
  BY <1>3, MainCallKept
<1>6. /\ live' \in [States -> SUBSET Frames] /\ live'["delivered"] = live["delivered"]
      /\ live'["pending"] \subseteq live["pending"] /\ live'["prepared"] \subseteq live["prepared"]
      /\ op["main"].dir = "prepared" => live'["pending"] = live["pending"] /\ live'["prepared"] = live["prepared"] \ {op["main"].frame}
      /\ op["main"].dir = "pending" => live'["pending"] = live["pending"] \ {op["main"].frame} /\ live'["prepared"] = live["prepared"]
  BY <1>1, <1>4, MainUnlinks DEF States
<1>7. \A f : Durable(f)' <=> Durable(f)
  BY <1>1 DEF Durable
<1>8. (Durable(step)' <=> Durable(step)) /\ (Fresh(step)' <=> Fresh(step))
  BY <1>0, <1>1, <1>6, JobsStay DEF Durable, Fresh
<1>9. Shape("main")'
  BY <1>1, <1>3, MainUnlinks DEF Shape
<1>10. RecoverInv'
  BY <1>1, <1>3, MainUnlinks DEF IndInv, RecoverInv
<1>11. PrepareInv'
  <2>1. main # "staged" /\ op["main"].call # "prepare"
    BY <1>1, MainUnlinks DEF IndInv, MainCall
  <2> QED BY <1>0, <1>3, <2>1 DEF PrepareInv
<1>12. CommitInv'
  <2>1. main # "enqueue"
    BY <1>1, MainUnlinks DEF IndInv, MainCall
  <2>2. op["main"].call = "commit" => op'["main"].at \in {"sync unlink", "finish"}
    BY <1>1, <1>3, MainUnlinks
  <2> QED BY <1>0, <1>1, <1>3, <1>6, <1>8, <2>1, <2>2, JobsStay DEF IndInv, CommitInv
<1>13. Durability'
  <2>1. \A f \in live'["pending"] \ disk'["pending"] :
        op'["main"].call = "commit" /\ op'["main"].at = "sync" /\ op'["main"].frame = f
    BY <1>1, <1>3, <1>6, <1>7, MainUnlinks DEF IndInv, Durability
  <2>2. \A f \in live'["delivered"] \ disk'["delivered"] :
        op'["worker"].call = "deliver" /\ op'["worker"].at = "sync" /\ op'["worker"].frame = f
    <3>1. \A f \in live["delivered"] \ disk["delivered"] :
            op["worker"].call = "deliver" /\ op["worker"].at = "sync" /\ op["worker"].frame = f
      BY DEF IndInv, Durability
    <3> QED BY ONLY <3>1, <1>1, <1>3, <1>6
  <2>3. disk'["delivered"] \subseteq live'["delivered"]
    BY <1>1, <1>3, <1>6, <1>7, MainUnlinks DEF IndInv, Durability
  <2>4. disk'["pending"] \subseteq live'["pending"] \cup disk'["delivered"]
    BY <1>1, <1>3, <1>6, <1>7, MainUnlinks DEF IndInv, Durability
  <2> QED BY <2>1, <2>2, <2>3, <2>4 DEF Durability
<1>14. Delivereds
  BY <1>1, <1>6 DEF Delivereds
<1>15. wpc = "acknowledge" => live["pending"] \cap disk["pending"] \subseteq live'["pending"] \cap disk'["pending"]
  BY <1>1, <1>6, MainUnlinks
<1> QED BY <1>1, <1>3, <1>4, <1>5, <1>6, <1>7, <1>9, <1>10, <1>11, <1>12, <1>13, <1>14, <1>15, MainLinksKeep DEF IndInv

\* The main thread syncs the directory it unlinked from.
LEMMA MainSyncUnlink ==
  ASSUME Trusted, IndInv, OnlyJournal, SyncUnlink("main")
  PROVE  IndInv'
<1> USE TwoThreads, PlacesKnown
<1>0. /\ UNCHANGED <<main, step, record, replay, fifo, gate, cancelled, queue, item, wpc, attempt, answer, closes>>
      /\ ledger' \in LedgerRecord /\ ledger'.handed = ledger.handed
      /\ ledger'.offered = ledger.offered /\ ledger'.executed = ledger.executed
  BY DEF OnlyJournal, threadVars
<1>1. /\ JournalTypes /\ live' = live /\ op["main"].at = "sync unlink"
      /\ disk' = [disk EXCEPT ![op["main"].dir] = live[op["main"].dir]]
      /\ op["main"].then \in Places
  BY DEF IndInv, SyncUnlink, At, Synced, Trusted, JournalTypes
<1>2. MovesTo("main", op["main"].then)
  BY <1>1, GoTo DEF SyncUnlink
<1>3. /\ op' \in Records /\ op'["worker"] = op["worker"]
      /\ op'["main"].call = op["main"].call /\ op'["main"].frame = op["main"].frame
      /\ op'["main"].dir = op["main"].dir /\ op'["main"].then = op["main"].then
      /\ op'["main"].result = op["main"].result
      /\ op'["main"].at = op["main"].then
  BY <1>2 DEF MovesTo, To, Writes
<1>4. live \in [States -> SUBSET Frames] /\ disk \in [States -> SUBSET Frames]
  BY DEF IndInv, JournalTypes
<1>5. MainCall'
  BY <1>3, MainCallKept
<1>6. /\ disk' \in [States -> SUBSET Frames] /\ disk'["delivered"] = disk["delivered"]
      /\ op["main"].dir = "prepared" => disk'["pending"] = disk["pending"] /\ disk'["prepared"] = live["prepared"]
      /\ op["main"].dir = "pending" => disk'["pending"] = live["pending"] /\ disk'["prepared"] = disk["prepared"]
  BY <1>1, <1>4, MainUnlinks DEF States
<1>7. \A f : Durable(f) => Durable(f)'
  BY <1>1, <1>6, MainUnlinks DEF Durable, IndInv, Durability
<1>8. (Durable(step) => Durable(step)') /\ (Fresh(step)' <=> Fresh(step))
  BY <1>0, <1>1, <1>7, JobsStay DEF Fresh, Durable
<1>9. Shape("main")'
  BY <1>1, <1>3, MainUnlinks DEF Shape
<1>10. RecoverInv'
  BY <1>1, <1>3, MainUnlinks DEF IndInv, RecoverInv
<1>11. PrepareInv'
  <2>1. main # "staged" /\ op["main"].call # "prepare"
    BY <1>1, MainUnlinks DEF IndInv, MainCall
  <2> QED BY <1>0, <1>3, <2>1 DEF PrepareInv
<1>12. CommitInv'
  <2>1. main # "enqueue"
    BY <1>1, MainUnlinks DEF IndInv, MainCall
  <2>2. op["main"].call = "commit" => op'["main"].at = "finish"
    BY <1>1, <1>3, MainUnlinks
  <2> QED BY <1>0, <1>1, <1>3, <1>6, <1>8, <2>1, <2>2, JobsStay DEF IndInv, CommitInv
<1>13. Durability'
  <2>1. \A f \in live'["pending"] \ disk'["pending"] :
        op'["main"].call = "commit" /\ op'["main"].at = "sync" /\ op'["main"].frame = f
    BY <1>1, <1>3, <1>6, <1>7, MainUnlinks DEF IndInv, Durability
  <2>2. \A f \in live'["delivered"] \ disk'["delivered"] :
        op'["worker"].call = "deliver" /\ op'["worker"].at = "sync" /\ op'["worker"].frame = f
    <3>1. \A f \in live["delivered"] \ disk["delivered"] :
            op["worker"].call = "deliver" /\ op["worker"].at = "sync" /\ op["worker"].frame = f
      BY DEF IndInv, Durability
    <3> QED BY ONLY <3>1, <1>1, <1>3, <1>6
  <2>3. disk'["delivered"] \subseteq live'["delivered"]
    BY <1>1, <1>3, <1>6, <1>7, MainUnlinks DEF IndInv, Durability
  <2>4. disk'["pending"] \subseteq live'["pending"] \cup disk'["delivered"]
    BY <1>1, <1>3, <1>6, <1>7, MainUnlinks DEF IndInv, Durability
  <2> QED BY <2>1, <2>2, <2>3, <2>4 DEF Durability
<1>14. Delivereds
  BY <1>1, <1>6 DEF Delivereds
<1>15. wpc = "acknowledge" => live["pending"] \cap disk["pending"] \subseteq live'["pending"] \cap disk'["pending"]
  BY <1>1, <1>6, MainUnlinks
<1> QED BY <1>1, <1>3, <1>4, <1>5, <1>6, <1>7, <1>9, <1>10, <1>11, <1>12, <1>13, <1>14, <1>15, MainLinksKeep DEF IndInv

\* Every step of the main thread's call keeps the invariant.
LEMMA MainJournalKeeps ==
  ASSUME Trusted, IndInv, OnlyJournal,
         JournalStep("main") \/ \E at : CallFails("main", at) /\ ~Abandons("main", at)
  PROVE  IndInv'
<1>1. ASSUME MainMoves, UNCHANGED <<live, disk>>
      PROVE  IndInv'
  BY <1>1, MainMovesKeep, RestStays DEF IndInv, MainView
<1>2. CASE \E at : CallFails("main", at) /\ ~Abandons("main", at)
  <2>1. PICK at : CallFails("main", at) /\ ~Abandons("main", at)
    BY <1>2
  <2>2. CASE at = "sync"
    BY <2>1, <2>2, MainPrepareFails, RestStays DEF IndInv, MainView
  <2>3. CASE at # "sync"
    BY <1>1, <2>1, <2>3, MainCallFails DEF CallFails
  <2> QED BY <2>2, <2>3
<1>3. CASE JournalStep("main")
  BY <1>1, <1>3, MainInspects, MainContinues, MainRecovers, MainLink, MainSync, MainUnlink, MainSyncUnlink
     DEF JournalStep
<1> QED BY <1>2, <1>3

-----------------------------------------------------------------------------
\* The moves of the worker's call between its inspections.
WorkerMoves ==
  /\ op["worker"].call = "deliver"
  /\ \/ /\ op["worker"].at = "delivered?"
        /\ \/ MovesTo("worker", "source?")
           \/ /\ op["worker"].frame \in live["delivered"]
              /\ To("worker", op["worker"].frame, "stale pending?", op["worker"].dir, op["worker"].then, "delivered")
     \/ /\ op["worker"].at = "source?"
        /\ \/ op["worker"].frame \in live["pending"] /\ MovesTo("worker", "link")
           \/ To("worker", op["worker"].frame, "raised", op["worker"].dir, op["worker"].then, "missing")
     \/ /\ op["worker"].at = "source again?"
        /\ \/ To("worker", op["worker"].frame, "unlink", "pending", "stale pending?", op["worker"].result)
           \/ MovesTo("worker", "stale pending?")
     \/ /\ op["worker"].at = "stale pending?"
        /\ \/ To("worker", op["worker"].frame, "unlink", "pending", "stale prepared?", op["worker"].result)
           \/ MovesTo("worker", "stale prepared?")
     \/ /\ op["worker"].at = "stale prepared?"
        /\ \/ To("worker", op["worker"].frame, "unlink", "prepared", "finish", op["worker"].result)
           \/ MovesTo("worker", "finish")
     \/ op["worker"].at = "finish" /\ MovesTo("worker", "returned")
     \/ /\ op["worker"].at \in {"link", "unlink", "sync unlink"}
        /\ To("worker", op["worker"].frame, "raised", op["worker"].dir, op["worker"].then, "io")

\* What holds while the worker is inside a call.
LEMMA InDelivery ==
  ASSUME IndInv, op["worker"].call # "none"
  PROVE  /\ op["worker"].call = "deliver" /\ wpc = "acknowledge" /\ Working
         /\ op["worker"].frame = item.frame /\ item.frame \in Frames /\ HasJob(item.frame)
         /\ op["main"].call # "recover"
         /\ op["main"].call # "none" => step \in Frames
         /\ \A f : Queued(f) \/ f \in replay => f # item.frame
         /\ main \notin {"open", "opening", "initialize", "ended"}
<1>1. /\ op["worker"].call = "deliver" /\ wpc = "acknowledge" /\ Working
      /\ op["worker"].frame = item.frame /\ item.frame \in Frames
  BY DEF IndInv, WorkerCall, Working
<1>2. HasJob(item.frame)
  BY <1>1 DEF HasJob
<1>3. /\ op["main"].call # "recover"
      /\ op["main"].call # "none" => step \in Frames
      /\ main \notin {"open", "opening", "initialize", "ended"}
  BY <1>1 DEF IndInv, MainCall, Stepping
<1>4. \A f : f \in replay => f # item.frame
  BY <1>2 DEF IndInv, Jobs
<1>5. \A f : Queued(f) => f # item.frame
  BY <1>1 DEF IndInv, Jobs
<1> QED BY <1>1, <1>2, <1>3, <1>4, <1>5

\* The worker's call stays the one its job asked for.
LEMMA WorkerCallKept ==
  ASSUME IndInv, OnlyJournal, op'["worker"].call = op["worker"].call, op'["worker"].frame = op["worker"].frame
  PROVE  WorkerCall'
  BY JobsStay DEF IndInv, WorkerCall, OnlyJournal, threadVars

\* A move of the worker's call keeps the invariant.
LEMMA WorkerMovesKeep ==
  ASSUME IndInv, OnlyJournal, UNCHANGED <<live, disk>>, WorkerMoves
  PROVE  IndInv'
<1> USE TwoThreads
<1>0. /\ UNCHANGED <<main, step, record, replay, fifo, gate, cancelled, queue, item, wpc, attempt, answer, closes>>
      /\ ledger' \in LedgerRecord /\ ledger'.handed = ledger.handed
      /\ ledger'.offered = ledger.offered /\ ledger'.executed = ledger.executed
  BY DEF OnlyJournal, threadVars
<1>1. op'["main"] = op["main"] /\ op' \in Records
      /\ op'["worker"].call = op["worker"].call /\ op'["worker"].frame = op["worker"].frame
  BY DEF WorkerMoves, MovesTo, To, Writes
<1>2. op["worker"].call = "deliver" /\ op["worker"].at # "sync"
  BY DEF WorkerMoves
<1>3. WorkerCall'
  BY <1>1, WorkerCallKept
<1>4. Shape("worker")'
  BY <1>1 DEF WorkerMoves, MovesTo, To, Writes, IndInv, Shape
<1>5. Durability'
  <2>1. live["delivered"] \ disk["delivered"] = {}
    BY <1>2 DEF IndInv, Durability
  <2> QED BY <1>1, <2>1, LinksStay DEF IndInv, Durability
<1>6. DeliverInv'
  <2>1. op["worker"].frame \in live["pending"] => op["worker"].frame \in disk["pending"]
    <3>1. HasJob(op["worker"].frame)
      BY <1>2, InDelivery
    <3>2. op["worker"].frame \in live["pending"] \ disk["pending"] => ~HasJob(op["worker"].frame)
      BY DEF IndInv, Durability, CommitInv, MainCall
    <3> QED BY <3>1, <3>2
  <2>2. op["worker"].frame \in live["delivered"] => op["worker"].frame \in disk["delivered"]
    BY <1>2 DEF IndInv, Durability
  <2>3. op'["worker"].at \notin {"sync", "sync unlink"}
    BY DEF WorkerMoves, MovesTo, To, Writes
  <2>4. op["worker"].at \notin {"delivered?", "source?", "link", "sync", "raised"}
          => op["worker"].frame \in disk["delivered"]
    BY <1>2 DEF IndInv, DeliverInv
  <2>5. op'["worker"].at = "link" => op["worker"].frame \in live["pending"] \cap disk["pending"]
    BY <2>1 DEF WorkerMoves, MovesTo, To, Writes
  <2>6. op'["worker"].at \notin {"delivered?", "source?", "link", "sync", "raised"}
          => op["worker"].frame \in disk["delivered"]
    BY <2>2, <2>4 DEF WorkerMoves, MovesTo, To, Writes
  <2>7. wpc = "acknowledge"
    BY <1>2, InDelivery
  <2> QED BY <1>0, <1>1, <2>3, <2>5, <2>6, <2>7 DEF DeliverInv
<1> QED BY <1>1, <1>3, <1>4, <1>5, <1>6, RestStays DEF IndInv, MainView

\* The steps of the worker's call that change no directory are moves.
LEMMA WorkerQuiet ==
  ASSUME IndInv,
         \/ Inspect("worker") \/ PromoteSource("worker") \/ PromoteCleanup("worker")
         \/ RemoveStale("worker") \/ Finish("worker") \/ Recover("worker")
         \/ \E at \in {"link", "unlink", "sync unlink"} : CallFails("worker", at)
  PROVE  WorkerMoves /\ UNCHANGED <<live, disk>>
<1> USE TwoThreads, PlacesKnown
<1>0. JournalTypes /\ UNCHANGED <<live, disk>>
  BY DEF IndInv, Inspect, PromoteSource, PromoteCleanup, RemoveStale, Finish, Recover, CallFails
<1>1. op["worker"].call = "deliver" \/ (op["worker"].call = "none" /\ op["worker"].at = "idle")
  BY DEF IndInv, WorkerCall, Shape
<1>2. /\ op["worker"].call = "deliver"
      /\ op["worker"].at \notin {"pending?", "prepared?", "scan"}
  BY <1>1 DEF IndInv, Shape, Inspect, PromoteSource, PromoteCleanup, RemoveStale, Finish, Recover, CallFails, At, In
<1>3. CASE Inspect("worker")
  <2>1. At("worker", "delivered?")
    BY <1>2, <1>3 DEF Inspect, At, In
  <2>2. \/ Go("worker", "source?")
        \/ Has("worker", "delivered") /\ Keep("worker", "delivered", "stale pending?")
    BY <1>2, <1>3, <2>1 DEF Inspect, At, In
  <2>3. \/ MovesTo("worker", "source?")
        \/ /\ op["worker"].frame \in live["delivered"]
           /\ To("worker", op["worker"].frame, "stale pending?", op["worker"].dir, op["worker"].then, "delivered")
    BY <1>0, <2>2, GoTo, KeepTo DEF Has
  <2> QED BY <1>0, <1>2, <2>1, <2>3 DEF WorkerMoves, At
<1>4. CASE PromoteSource("worker")
  <2>1. \/ op["worker"].frame \in live["pending"] /\ MovesTo("worker", "link")
        \/ To("worker", op["worker"].frame, "raised", op["worker"].dir, op["worker"].then, "missing")
    BY <1>0, <1>2, <1>4, GoTo, KeepTo DEF PromoteSource, Fail, Source, Has
  <2> QED BY <1>0, <1>2, <1>4, <2>1 DEF WorkerMoves, PromoteSource, At
<1>5. CASE PromoteCleanup("worker")
  <2>1. Remove("worker", "pending", "stale pending?") \/ Go("worker", "stale pending?")
    BY <1>2, <1>5 DEF PromoteCleanup, Source
  <2>2. \/ To("worker", op["worker"].frame, "unlink", "pending", "stale pending?", op["worker"].result)
        \/ MovesTo("worker", "stale pending?")
    BY <1>0, <2>1, GoTo, RemoveTo
  <2> QED BY <1>0, <1>2, <1>5, <2>2 DEF WorkerMoves, PromoteCleanup, At
<1>6. CASE RemoveStale("worker")
  <2>1. CASE At("worker", "stale pending?")
    <3>1. Remove("worker", "pending", "stale prepared?") \/ Go("worker", "stale prepared?")
      BY <1>6, <2>1 DEF RemoveStale, At
    <3>2. \/ To("worker", op["worker"].frame, "unlink", "pending", "stale prepared?", op["worker"].result)
          \/ MovesTo("worker", "stale prepared?")
      BY <1>0, <3>1, GoTo, RemoveTo
    <3> QED BY <1>0, <1>2, <2>1, <3>2 DEF WorkerMoves, At
  <2>2. CASE At("worker", "stale prepared?")
    <3>1. Remove("worker", "prepared", "finish") \/ Go("worker", "finish")
      BY <1>6, <2>2 DEF RemoveStale, At
    <3>2. \/ To("worker", op["worker"].frame, "unlink", "prepared", "finish", op["worker"].result)
          \/ MovesTo("worker", "finish")
      BY <1>0, <3>1, GoTo, RemoveTo
    <3> QED BY <1>0, <1>2, <2>2, <3>2 DEF WorkerMoves, At
  <2> QED BY <1>6, <2>1, <2>2 DEF RemoveStale
<1>7. CASE Finish("worker")
  <2>1. op["worker"].result \in Results
    BY <1>0 DEF JournalTypes
  <2>2. To("worker", op["worker"].frame, "returned", op["worker"].dir, op["worker"].then, op["worker"].result)
    BY <1>0, <1>7, <2>1, KeepTo DEF Finish, End
  <2> QED BY <1>0, <1>2, <1>7, <2>2 DEF WorkerMoves, MovesTo, Finish, At
<1>8. CASE Recover("worker")
  BY <1>2, <1>8 DEF Recover, In
<1>9. CASE \E at \in {"link", "unlink", "sync unlink"} : CallFails("worker", at)
  <2>1. To("worker", op["worker"].frame, "raised", op["worker"].dir, op["worker"].then, "io")
    BY <1>0, <1>9, KeepTo DEF CallFails, Fail
  <2> QED BY <1>0, <1>2, <1>9, <2>1 DEF WorkerMoves, CallFails, At
<1> QED BY <1>3, <1>4, <1>5, <1>6, <1>7, <1>8, <1>9

\* The steps of the worker's call that change the directories touch its own frame.
LEMMA WorkerLinksKeep ==
  ASSUME IndInv, OnlyJournal, op["worker"].call # "none", op' \in Records, op'["main"] = op["main"],
         live' \in [States -> SUBSET Frames], disk' \in [States -> SUBSET Frames],
         live["delivered"] \subseteq live'["delivered"],
         live'["delivered"] \subseteq live["delivered"] \cup {item.frame},
         disk["delivered"] \subseteq disk'["delivered"],
         live'["pending"] \subseteq live["pending"],
         live["pending"] \ {item.frame} \subseteq live'["pending"],
         \A f : Durable(f) => Durable(f)'
  PROVE  ThreadTypes' /\ JournalTypes' /\ Jobs' /\ Numbered' /\ Lifecycle' /\ Account' /\ MainCall' /\ MainView'
<1>1. /\ UNCHANGED <<main, step, record, replay, fifo, gate, cancelled, queue, item, wpc, attempt, answer, closes>>
      /\ ledger' \in LedgerRecord /\ ledger'.handed = ledger.handed
      /\ ledger'.offered = ledger.offered /\ ledger'.executed = ledger.executed
  BY DEF OnlyJournal, threadVars
<1>2. ThreadTypes' /\ JournalTypes'
  BY <1>1 DEF IndInv, ThreadTypes, JournalTypes, Records
<1>3. Jobs'
  BY <1>1, JobsStay, InDelivery DEF IndInv, Jobs
<1>4. Numbered' /\ Lifecycle'
  BY <1>1, JobsStay DEF IndInv, Numbered, Lifecycle, Busy
<1>5. Account'
  BY <1>1, JobsStay DEF IndInv, Account, Running
<1>6. MainCall' /\ Shape("main")'
  <2>1. MainCall'
    BY <1>1 DEF IndInv, MainCall
  <2>2. Shape("main")'
    BY DEF IndInv, Shape
  <2> QED BY <2>1, <2>2
<1>7. RecoverInv'
  BY InDelivery DEF RecoverInv
<1>8. /\ Durable(step) => Durable(step)'
      /\ Fresh(step) => Fresh(step)'
      /\ step \in live["delivered"] => step' \in live'["delivered"]
      /\ ~HasJob(step) /\ step \notin live["delivered"] => step' \notin live'["delivered"]
      /\ ~HasJob(step) /\ step \in live["pending"] => step' \in live'["pending"]
  <2>1. Durable(step) => Durable(step)'
    BY <1>1 DEF Durable
  <2>2. HasJob(item.frame)
    BY InDelivery
  <2> QED BY <1>1, <2>1, <2>2, JobsStay DEF Fresh
<1>9. PrepareInv'
  <2>1. ASSUME NEW r, Says(r)
        PROVE  /\ r = "prepared" => Fresh(step)'
               /\ r = "pending" => Durable(step)' /\ (Owed(step)' \/ step' \in live'["delivered"])
               /\ r = "delivered" => Durable(step)' /\ step' \in live'["delivered"]
    BY <2>1, <1>1, <1>8, JobsStay DEF Says
  <2> QED BY <1>1, <1>8, <2>1 DEF IndInv, PrepareInv, Says
<1>10. CommitInv'
  <2>1. main = "enqueue" => Durable(step)' /\ ~HasJob(step)' /\ step' \notin live'["delivered"]
    BY <1>1, <1>8, JobsStay DEF IndInv, CommitInv
  <2>2. op["main"].call = "commit" /\ op["main"].at = "delivered?" => Fresh(step)'
    BY <1>8 DEF IndInv, CommitInv
  <2>3. op["main"].call = "commit" /\ op["main"].at \in {"pending?", "source?", "link", "sync"}
          => ~HasJob(step)' /\ step' \notin live'["delivered"]
    BY <1>1, <1>8, JobsStay DEF IndInv, CommitInv
  <2>4. op["main"].call = "commit" /\ op["main"].at = "sync" => step' \in live'["pending"]
    BY <1>8 DEF IndInv, CommitInv
  <2>5. op["main"].call = "commit" /\ op["main"].at \in {"source again?", "stale prepared?", "unlink", "sync unlink", "finish", "returned"}
          => /\ op["main"].result \in {"pending", "delivered"} /\ Durable(step)'
             /\ op["main"].result = "pending" => ~HasJob(step)' /\ step' \notin live'["delivered"]
             /\ op["main"].result = "delivered" => step' \in live'["delivered"]
    BY <1>1, <1>8, JobsStay DEF IndInv, CommitInv
  <2> QED BY <1>1, <2>1, <2>2, <2>3, <2>4, <2>5 DEF CommitInv
<1> QED BY <1>2, <1>3, <1>4, <1>5, <1>6, <1>7, <1>9, <1>10 DEF MainView

\* The worker links the archive into "delivered".
LEMMA WorkerLink ==
  ASSUME Trusted, IndInv, OnlyJournal, Link("worker")
  PROVE  IndInv'
<1> USE TwoThreads, PlacesKnown
<1>0. /\ UNCHANGED <<main, step, record, replay, fifo, gate, cancelled, queue, item, wpc, attempt, answer, closes>>
      /\ ledger' \in LedgerRecord /\ ledger'.handed = ledger.handed
      /\ ledger'.offered = ledger.offered /\ ledger'.executed = ledger.executed
  BY DEF OnlyJournal, threadVars
<1>1. /\ JournalTypes /\ op["worker"].at = "link" /\ op["worker"].call = "deliver"
      /\ op["worker"].then \in Places
      /\ live \in [States -> SUBSET Frames] /\ disk \in [States -> SUBSET Frames]
  BY DEF IndInv, Link, At, JournalTypes, WorkerCall, Shape
<1>2. /\ op["worker"].frame = item.frame /\ item.frame \in Frames /\ HasJob(item.frame) /\ wpc = "acknowledge"
  BY <1>1, InDelivery
<1>3. MovesTo("worker", "sync")
  BY <1>1, GoTo DEF Link
<1>4. /\ op' \in Records /\ op'["main"] = op["main"]
      /\ op'["worker"].call = "deliver" /\ op'["worker"].frame = item.frame
      /\ op'["worker"].dir = op["worker"].dir /\ op'["worker"].then = op["worker"].then
      /\ op'["worker"].at = "sync"
  BY <1>1, <1>2, <1>3 DEF MovesTo, To, Writes
<1>5. WorkerCall'
  BY <1>1, <1>2, <1>4, WorkerCallKept
<1>6. /\ live' \in [States -> SUBSET Frames] /\ live'["delivered"] = live["delivered"] \cup {item.frame}
      /\ live'["pending"] = live["pending"] /\ live'["prepared"] = live["prepared"] /\ disk' = disk
  BY <1>1, <1>2 DEF Link, Target, States
<1>7. \A f : Durable(f) => Durable(f)'
  BY <1>6 DEF Durable
<1>8. Shape("worker")'
  BY <1>4 DEF Shape
<1>9. DeliverInv'
  BY <1>0, <1>1, <1>2, <1>4, <1>6 DEF IndInv, DeliverInv
<1>10. Durability'
  <2>1. \A f \in live'["pending"] \ disk'["pending"] :
        op'["main"].call = "commit" /\ op'["main"].at = "sync" /\ op'["main"].frame = f
    BY <1>1, <1>2, <1>4, <1>6, <1>7 DEF IndInv, Durability
  <2>2. \A f \in live'["delivered"] \ disk'["delivered"] :
        op'["worker"].call = "deliver" /\ op'["worker"].at = "sync" /\ op'["worker"].frame = f
    BY <1>1, <1>2, <1>4, <1>6, <1>7 DEF IndInv, Durability
  <2>3. disk'["delivered"] \subseteq live'["delivered"]
    BY <1>1, <1>2, <1>4, <1>6, <1>7 DEF IndInv, Durability
  <2>4. disk'["pending"] \subseteq live'["pending"] \cup disk'["delivered"]
    BY <1>1, <1>2, <1>4, <1>6, <1>7 DEF IndInv, Durability
  <2> QED BY <2>1, <2>2, <2>3, <2>4 DEF Durability
<1> QED BY <1>1, <1>2, <1>4, <1>5, <1>6, <1>7, <1>8, <1>9, <1>10, WorkerLinksKeep DEF IndInv, MainView

\* The worker makes the acknowledgement durable.
LEMMA WorkerSync ==
  ASSUME Trusted, IndInv, OnlyJournal, Sync("worker")
  PROVE  IndInv'
<1> USE TwoThreads, PlacesKnown
<1>0. /\ UNCHANGED <<main, step, record, replay, fifo, gate, cancelled, queue, item, wpc, attempt, answer, closes>>
      /\ ledger' \in LedgerRecord /\ ledger'.handed = ledger.handed
      /\ ledger'.offered = ledger.offered /\ ledger'.executed = ledger.executed
  BY DEF OnlyJournal, threadVars
<1>1. /\ JournalTypes /\ op["worker"].at = "sync" /\ op["worker"].call = "deliver"
      /\ op["worker"].then \in Places
      /\ live \in [States -> SUBSET Frames] /\ disk \in [States -> SUBSET Frames]
  BY DEF IndInv, Sync, At, JournalTypes, WorkerCall, Shape
<1>2. /\ op["worker"].frame = item.frame /\ item.frame \in Frames /\ HasJob(item.frame) /\ wpc = "acknowledge"
  BY <1>1, InDelivery
<1>3. To("worker", op["worker"].frame, "source again?", op["worker"].dir, op["worker"].then, "delivered")
  BY <1>1, KeepTo DEF Sync, Target
<1>4. /\ op' \in Records /\ op'["main"] = op["main"]
      /\ op'["worker"].call = "deliver" /\ op'["worker"].frame = item.frame
      /\ op'["worker"].dir = op["worker"].dir /\ op'["worker"].then = op["worker"].then
      /\ op'["worker"].at = "source again?"
  BY <1>1, <1>2, <1>3 DEF MovesTo, To, Writes
<1>5. WorkerCall'
  BY <1>1, <1>2, <1>4, WorkerCallKept
<1>6. /\ disk' \in [States -> SUBSET Frames] /\ disk'["delivered"] = live["delivered"]
      /\ disk'["pending"] = disk["pending"] /\ disk'["prepared"] = disk["prepared"] /\ live' = live
      /\ disk["delivered"] \subseteq disk'["delivered"]
  BY <1>1 DEF Sync, Target, Synced, Trusted, States, IndInv, Durability
<1>7. \A f : Durable(f) => Durable(f)'
  BY <1>6 DEF Durable
<1>8. Shape("worker")'
  BY <1>4 DEF Shape
<1>9. DeliverInv'
  BY <1>0, <1>1, <1>2, <1>4, <1>6 DEF IndInv, DeliverInv
<1>10. Durability'
  <2>1. \A f \in live'["pending"] \ disk'["pending"] :
        op'["main"].call = "commit" /\ op'["main"].at = "sync" /\ op'["main"].frame = f
    BY <1>1, <1>2, <1>4, <1>6, <1>7 DEF IndInv, Durability
  <2>2. \A f \in live'["delivered"] \ disk'["delivered"] :
        op'["worker"].call = "deliver" /\ op'["worker"].at = "sync" /\ op'["worker"].frame = f
    BY <1>1, <1>2, <1>4, <1>6, <1>7 DEF IndInv, Durability
  <2>3. disk'["delivered"] \subseteq live'["delivered"]
    BY <1>1, <1>2, <1>4, <1>6, <1>7 DEF IndInv, Durability
  <2>4. disk'["pending"] \subseteq live'["pending"] \cup disk'["delivered"]
    BY <1>1, <1>2, <1>4, <1>6, <1>7 DEF IndInv, Durability
  <2> QED BY <2>1, <2>2, <2>3, <2>4 DEF Durability
<1> QED BY <1>1, <1>2, <1>4, <1>5, <1>6, <1>7, <1>8, <1>9, <1>10, WorkerLinksKeep DEF IndInv, MainView

\* What an unlink of the worker removes is acknowledged.
LEMMA WorkerUnlinks ==
  ASSUME IndInv, op["worker"].at \in {"unlink", "sync unlink"}
  PROVE  /\ op["worker"].call = "deliver" /\ op["worker"].frame \in disk["delivered"]
         /\ op["worker"].dir = "prepared" \/ op["worker"].dir = "pending"
         /\ op["worker"].dir = "prepared" => op["worker"].then = "finish"
         /\ op["worker"].dir = "pending" => op["worker"].then \in {"stale pending?", "stale prepared?"}
  BY DEF IndInv, Shape, WorkerCall, DeliverInv

\* The worker unlinks the pending or the prepared archive.
LEMMA WorkerUnlink ==
  ASSUME Trusted, IndInv, OnlyJournal, Unlink("worker")
  PROVE  IndInv'
<1> USE TwoThreads, PlacesKnown
<1>0. /\ UNCHANGED <<main, step, record, replay, fifo, gate, cancelled, queue, item, wpc, attempt, answer, closes>>
      /\ ledger' \in LedgerRecord /\ ledger'.handed = ledger.handed
      /\ ledger'.offered = ledger.offered /\ ledger'.executed = ledger.executed
  BY DEF OnlyJournal, threadVars
<1>1. /\ JournalTypes /\ op["worker"].at = "unlink" /\ op["worker"].call = "deliver"
      /\ op["worker"].then \in Places
      /\ live \in [States -> SUBSET Frames] /\ disk \in [States -> SUBSET Frames]
  BY DEF IndInv, Unlink, At, JournalTypes, WorkerCall, Shape
<1>2. /\ op["worker"].frame = item.frame /\ item.frame \in Frames /\ HasJob(item.frame) /\ wpc = "acknowledge"
  BY <1>1, InDelivery
<1>3. MovesTo("worker", IF Has("worker", op["worker"].dir) THEN "sync unlink" ELSE op["worker"].then)
  BY <1>1, GoTo DEF Unlink
<1>4. /\ op' \in Records /\ op'["main"] = op["main"]
      /\ op'["worker"].call = "deliver" /\ op'["worker"].frame = item.frame
      /\ op'["worker"].dir = op["worker"].dir /\ op'["worker"].then = op["worker"].then
      /\ op'["worker"].at = IF item.frame \in live[op["worker"].dir] THEN "sync unlink" ELSE op["worker"].then
  BY <1>1, <1>2, <1>3 DEF MovesTo, To, Writes, Has
<1>5. WorkerCall'
  BY <1>1, <1>2, <1>4, WorkerCallKept
<1>6. /\ live' \in [States -> SUBSET Frames] /\ live'["delivered"] = live["delivered"] /\ disk' = disk
      /\ live'["pending"] \subseteq live["pending"] /\ live["pending"] \ {item.frame} \subseteq live'["pending"]
      /\ live["prepared"] \ {item.frame} \subseteq live'["prepared"]
  BY <1>1, <1>2, WorkerUnlinks DEF Unlink, States
<1>7. \A f : Durable(f) => Durable(f)'
  BY <1>6 DEF Durable
<1>8. Shape("worker")'
  BY <1>1, <1>4, WorkerUnlinks DEF Shape
<1>9. DeliverInv'
  BY <1>0, <1>1, <1>2, <1>4, <1>6, WorkerUnlinks DEF DeliverInv
<1>11. \A f : f = item.frame => Durable(f)'
  BY <1>1, <1>2, <1>6, WorkerUnlinks DEF Durable
<1>10. Durability'
  <2>1. \A f \in live'["pending"] \ disk'["pending"] :
        op'["main"].call = "commit" /\ op'["main"].at = "sync" /\ op'["main"].frame = f
    BY <1>1, <1>2, <1>4, <1>6, <1>7, <1>11, WorkerUnlinks DEF IndInv, Durability
  <2>2. \A f \in live'["delivered"] \ disk'["delivered"] :
        op'["worker"].call = "deliver" /\ op'["worker"].at = "sync" /\ op'["worker"].frame = f
    BY <1>1, <1>2, <1>4, <1>6, <1>7, <1>11, WorkerUnlinks DEF IndInv, Durability
  <2>3. disk'["delivered"] \subseteq live'["delivered"]
    BY <1>1, <1>2, <1>4, <1>6, <1>7, <1>11, WorkerUnlinks DEF IndInv, Durability
  <2>4. disk'["pending"] \subseteq live'["pending"] \cup disk'["delivered"]
    BY <1>1, <1>2, <1>4, <1>6, <1>7, <1>11, WorkerUnlinks DEF IndInv, Durability
  <2> QED BY <2>1, <2>2, <2>3, <2>4 DEF Durability
<1> QED BY <1>1, <1>2, <1>4, <1>5, <1>6, <1>7, <1>8, <1>9, <1>10, WorkerLinksKeep DEF IndInv, MainView

\* The worker syncs the directory it unlinked from.
LEMMA WorkerSyncUnlink ==
  ASSUME Trusted, IndInv, OnlyJournal, SyncUnlink("worker")
  PROVE  IndInv'
<1> USE TwoThreads, PlacesKnown
<1>0. /\ UNCHANGED <<main, step, record, replay, fifo, gate, cancelled, queue, item, wpc, attempt, answer, closes>>
      /\ ledger' \in LedgerRecord /\ ledger'.handed = ledger.handed
      /\ ledger'.offered = ledger.offered /\ ledger'.executed = ledger.executed
  BY DEF OnlyJournal, threadVars
<1>1. /\ JournalTypes /\ op["worker"].at = "sync unlink" /\ op["worker"].call = "deliver"
      /\ op["worker"].then \in Places
      /\ live \in [States -> SUBSET Frames] /\ disk \in [States -> SUBSET Frames]
  BY DEF IndInv, SyncUnlink, At, JournalTypes, WorkerCall, Shape
<1>2. /\ op["worker"].frame = item.frame /\ item.frame \in Frames /\ HasJob(item.frame) /\ wpc = "acknowledge"
  BY <1>1, InDelivery
<1>3. MovesTo("worker", op["worker"].then)
  BY <1>1, GoTo DEF SyncUnlink
<1>4. /\ op' \in Records /\ op'["main"] = op["main"]
      /\ op'["worker"].call = "deliver" /\ op'["worker"].frame = item.frame
      /\ op'["worker"].dir = op["worker"].dir /\ op'["worker"].then = op["worker"].then
      /\ op'["worker"].at = op["worker"].then
  BY <1>1, <1>2, <1>3 DEF MovesTo, To, Writes
<1>5. WorkerCall'
  BY <1>1, <1>2, <1>4, WorkerCallKept
<1>6. /\ disk' \in [States -> SUBSET Frames] /\ disk'["delivered"] = disk["delivered"] /\ live' = live
      /\ disk'["pending"] = disk["pending"] \/ disk'["pending"] = live["pending"]
      /\ disk'["prepared"] = disk["prepared"] \/ disk'["prepared"] = live["prepared"]
  BY <1>1, <1>2, WorkerUnlinks DEF SyncUnlink, Synced, Trusted, States
<1>7. \A f : Durable(f) => Durable(f)'
  BY <1>6 DEF Durable, IndInv, Durability
<1>8. Shape("worker")'
  BY <1>1, <1>4, WorkerUnlinks DEF Shape
<1>9. DeliverInv'
  BY <1>0, <1>1, <1>2, <1>4, <1>6, WorkerUnlinks DEF DeliverInv
<1>10. Durability'
  <2>1. \A f \in live'["pending"] \ disk'["pending"] :
        op'["main"].call = "commit" /\ op'["main"].at = "sync" /\ op'["main"].frame = f
    BY <1>1, <1>2, <1>4, <1>6, <1>7 DEF IndInv, Durability
  <2>2. \A f \in live'["delivered"] \ disk'["delivered"] :
        op'["worker"].call = "deliver" /\ op'["worker"].at = "sync" /\ op'["worker"].frame = f
    BY <1>1, <1>2, <1>4, <1>6, <1>7 DEF IndInv, Durability
  <2>3. disk'["delivered"] \subseteq live'["delivered"]
    BY <1>1, <1>2, <1>4, <1>6, <1>7 DEF IndInv, Durability
  <2>4. disk'["pending"] \subseteq live'["pending"] \cup disk'["delivered"]
    BY <1>1, <1>2, <1>4, <1>6, <1>7 DEF IndInv, Durability
  <2> QED BY <2>1, <2>2, <2>3, <2>4 DEF Durability
<1> QED BY <1>1, <1>2, <1>4, <1>5, <1>6, <1>7, <1>8, <1>9, <1>10, WorkerLinksKeep DEF IndInv, MainView

\* Every step of the worker's call keeps the invariant.
LEMMA WorkerJournalKeeps ==
  ASSUME Trusted, IndInv, OnlyJournal,
         JournalStep("worker") \/ \E at : CallFails("worker", at) /\ ~Abandons("worker", at)
  PROVE  IndInv'
<1>1. CASE \E at : CallFails("worker", at) /\ ~Abandons("worker", at)
  <2>1. PICK at : CallFails("worker", at) /\ ~Abandons("worker", at)
    BY <1>1
  <2>2. op["worker"].call = "deliver" \/ (op["worker"].call = "none" /\ op["worker"].at = "idle")
    BY DEF IndInv, WorkerCall, Shape
  <2>3. at \in {"link", "unlink", "sync unlink"}
    BY <2>1, <2>2 DEF CallFails, Abandons, Target, At
  <2> QED BY <2>1, <2>3, WorkerQuiet, WorkerMovesKeep
<1>2. CASE JournalStep("worker")
  BY <1>2, WorkerQuiet, WorkerMovesKeep, WorkerLink, WorkerSync, WorkerUnlink, WorkerSyncUnlink DEF JournalStep
<1> QED BY <1>1, <1>2

-----------------------------------------------------------------------------
\* The queue of tasks.
LEMMA Appended ==
  ASSUME fifo \in Seq(Task), NEW e \in Task, fifo' = Append(fifo, e)
  PROVE  /\ fifo' \in Seq(Task) /\ Len(fifo) \in Nat /\ Len(fifo') = Len(fifo) + 1
         /\ \A i \in 1 .. Len(fifo) : fifo'[i] = fifo[i]
         /\ fifo'[Len(fifo) + 1] = e
         /\ \A f : Queued(f)' <=> Queued(f) \/ (e.kind = "job" /\ e.frame = f)
<1>1. /\ fifo' \in Seq(Task) /\ Len(fifo) \in Nat /\ Len(fifo') = Len(fifo) + 1
      /\ \A i \in 1 .. Len(fifo) : fifo'[i] = fifo[i]
      /\ fifo'[Len(fifo) + 1] = e
  OBVIOUS
<1>2. ASSUME NEW f, Queued(f)
      PROVE  Queued(f)'
  <2>1. PICK i \in 1 .. Len(fifo) : fifo[i].kind = "job" /\ fifo[i].frame = f
    BY <1>2 DEF Queued
  <2>2. i \in 1 .. Len(fifo') /\ fifo'[i] = fifo[i]
    BY <1>1, <2>1
  <2> QED BY <2>1, <2>2 DEF Queued
<1>3. ASSUME NEW f, e.kind = "job", e.frame = f
      PROVE  Queued(f)'
  <2>1. Len(fifo) + 1 \in 1 .. Len(fifo')
    BY <1>1
  <2> QED BY <1>1, <1>3, <2>1 DEF Queued
<1>4. ASSUME NEW f, Queued(f)', ~Queued(f)
      PROVE  e.kind = "job" /\ e.frame = f
  <2>1. PICK i \in 1 .. Len(fifo') : fifo'[i].kind = "job" /\ fifo'[i].frame = f
    BY <1>4 DEF Queued
  <2>2. i \notin 1 .. Len(fifo)
    BY <1>1, <1>4, <2>1 DEF Queued
  <2>3. i = Len(fifo) + 1
    BY <1>1, <2>1, <2>2
  <2> QED BY <1>1, <2>1, <2>3
<1> QED BY <1>1, <1>2, <1>3, <1>4

\* Taking the first task.
LEMMA Popped ==
  ASSUME fifo \in Seq(Task), fifo # <<>>, fifo' = Tail(fifo)
  PROVE  /\ Head(fifo) = fifo[1] /\ fifo[1] \in Task /\ 1 \in 1 .. Len(fifo)
         /\ fifo' \in Seq(Task) /\ Len(fifo) \in Nat /\ Len(fifo') = Len(fifo) - 1
         /\ \A i \in 1 .. Len(fifo') : fifo'[i] = fifo[i + 1] /\ i + 1 \in 1 .. Len(fifo)
         /\ \A f : Queued(f) <=> Queued(f)' \/ (fifo[1].kind = "job" /\ fifo[1].frame = f)
<1>1. /\ Head(fifo) = fifo[1] /\ fifo[1] \in Task /\ 1 \in 1 .. Len(fifo)
      /\ fifo' \in Seq(Task) /\ Len(fifo) \in Nat /\ Len(fifo') = Len(fifo) - 1
      /\ \A i \in 1 .. Len(fifo') : fifo'[i] = fifo[i + 1] /\ i + 1 \in 1 .. Len(fifo)
  OBVIOUS
<1>2. ASSUME NEW f, Queued(f)'
      PROVE  Queued(f)
  <2>1. PICK i \in 1 .. Len(fifo') : fifo'[i].kind = "job" /\ fifo'[i].frame = f
    BY <1>2 DEF Queued
  <2>2. i + 1 \in 1 .. Len(fifo) /\ fifo'[i] = fifo[i + 1]
    BY <1>1, <2>1
  <2> QED BY <2>1, <2>2 DEF Queued
<1>3. ASSUME NEW f, fifo[1].kind = "job", fifo[1].frame = f
      PROVE  Queued(f)
  BY <1>1, <1>3 DEF Queued
<1>4. ASSUME NEW f, Queued(f), ~Queued(f)'
      PROVE  fifo[1].kind = "job" /\ fifo[1].frame = f
  <2>1. PICK i \in 1 .. Len(fifo) : fifo[i].kind = "job" /\ fifo[i].frame = f
    BY <1>4 DEF Queued
  <2>2. CASE i = 1
    BY <2>1, <2>2
  <2>3. CASE i # 1
    <3>1. i - 1 \in 1 .. Len(fifo') /\ i - 1 + 1 = i
      BY <1>1, <2>1, <2>3
    <3>2. fifo'[i - 1] = fifo[i]
      BY <1>1, <3>1
    <3> QED BY <1>4, <2>1, <3>1, <3>2 DEF Queued
  <2> QED BY <2>2, <2>3
<1> QED BY <1>1, <1>2, <1>3, <1>4

\* A step of the simulation thread outside its calls that adds no job.
QueueRecord == [next : Nat, pending : Nat, reports : Seq(Filed), closeRequested : BOOLEAN,
                closePrepared : BOOLEAN, closed : BOOLEAN]
NoJobAdded ==
  \/ fifo' = fifo
  \/ \E e \in Task : e.kind # "job" /\ fifo' = Append(fifo, e)

\* A task of another kind than a job leaves the jobs.
LEMMA NoJobStays ==
  ASSUME IndInv, NoJobAdded, item' = item, Working' <=> Working
  PROVE  /\ fifo' \in Seq(Task)
         /\ \A f : (Queued(f)' <=> Queued(f)) /\ (HasJob(f)' <=> HasJob(f))
         /\ \A i \in 1 .. Len(fifo') : fifo'[i].kind = "job" => i \in 1 .. Len(fifo) /\ fifo'[i] = fifo[i]
<1>1. fifo \in Seq(Task)
  BY DEF IndInv, ThreadTypes
<1>2. CASE fifo' = fifo
  BY <1>1, <1>2 DEF Queued, HasJob
<1>3. CASE \E e \in Task : e.kind # "job" /\ fifo' = Append(fifo, e)
  <2>1. PICK e \in Task : e.kind # "job" /\ fifo' = Append(fifo, e)
    BY <1>3
  <2>2. /\ fifo' \in Seq(Task) /\ Len(fifo) \in Nat /\ Len(fifo') = Len(fifo) + 1
        /\ \A i \in 1 .. Len(fifo) : fifo'[i] = fifo[i]
        /\ fifo'[Len(fifo) + 1] = e
        /\ \A f : Queued(f)' <=> Queued(f)
    BY <1>1, <2>1, Appended
  <2>3. \A f : HasJob(f)' <=> HasJob(f)
    BY <2>2 DEF HasJob
  <2>4. ASSUME NEW i \in 1 .. Len(fifo'), fifo'[i].kind = "job"
        PROVE  i \in 1 .. Len(fifo) /\ fifo'[i] = fifo[i]
    <3>1. i # Len(fifo) + 1
      BY <2>1, <2>2, <2>4
    <3> QED BY <2>2, <2>4, <3>1
  <2> QED BY <2>2, <2>3, <2>4
<1> QED BY <1>2, <1>3 DEF NoJobAdded

Elsewhere == MainPlaces \ {"opening", "preparing", "staged", "withdrawing", "committing", "enqueue", "consensus"}

\* What a step of the main thread outside the journal leaves of the invariant.
LEMMA MainGoes ==
  ASSUME IndInv, UNCHANGED <<live, disk, op, step, record, replay, item, attempt, ledger>>, NoJobAdded,
         wpc' = wpc \/ (wpc = "unstarted" /\ wpc' = "get"),
         wpc' = "unstarted" => fifo' = <<>>,
         queue' \in QueueRecord, queue'.next = queue.next, queue'.pending = queue.pending,
         queue'.reports = queue.reports, main \in Elsewhere, main' \in Elsewhere \cup {"prepare"},
         Running' => Running
  PROVE  /\ JournalTypes' /\ ThreadTypes' /\ WorkerCall' /\ Shape("main")' /\ Shape("worker")' /\ Durability'
         /\ RecoverInv' /\ PrepareInv' /\ CommitInv' /\ DeliverInv' /\ Jobs' /\ Account'
         /\ Working' <=> Working
<1>1. Working' <=> Working
  BY DEF Working
<1>2. /\ fifo' \in Seq(Task)
      /\ \A f : (Queued(f)' <=> Queued(f)) /\ (HasJob(f)' <=> HasJob(f))
      /\ \A i \in 1 .. Len(fifo') : fifo'[i].kind = "job" => i \in 1 .. Len(fifo) /\ fifo'[i] = fifo[i]
  BY <1>1, NoJobStays
<1>3. \A f : (Durable(f)' <=> Durable(f)) /\ (Owed(f)' <=> Owed(f))
  BY <1>2 DEF Durable, Owed, Reported, Elsewhere
<1>4. JournalTypes' /\ ThreadTypes'
  <2>1. wpc' \in WorkerPlaces /\ main' \in MainPlaces
    BY DEF WorkerPlaces, MainPlaces, Elsewhere, IndInv, ThreadTypes
  <2> QED BY <1>2, <2>1 DEF IndInv, JournalTypes, ThreadTypes, QueueRecord
<1>5. Shape("main")' /\ Shape("worker")' /\ RecoverInv'
  <2>1. Shape("main")'
    BY DEF IndInv, Shape
  <2>2. Shape("worker")'
    BY DEF IndInv, Shape
  <2>3. RecoverInv'
    BY DEF IndInv, RecoverInv
  <2> QED BY <2>1, <2>2, <2>3
<1>6. Durability'
  BY <1>3 DEF IndInv, Durability
<1>7. WorkerCall'
  <2>1. op["worker"].call = IF wpc' = "acknowledge" THEN "deliver" ELSE "none"
    BY DEF IndInv, WorkerCall
  <2> QED BY <1>1, <1>2, <2>1 DEF IndInv, WorkerCall
<1>8. PrepareInv' /\ CommitInv'
  BY DEF IndInv, MainCall, PrepareInv, CommitInv, Elsewhere
<1>9. DeliverInv'
  BY DEF IndInv, DeliverInv
<1>10. Jobs'
  <2>1. \A f \in Frames : HasJob(f)' => Durable(f)'
    BY <1>2, <1>3 DEF IndInv, Jobs
  <2>2. \A f \in Frames : Queued(f)' => f \notin live'["delivered"] /\ ~(Working' /\ item'.frame = f)
    BY <1>1, <1>2 DEF IndInv, Jobs
  <2>3. \A i \in 1 .. Len(fifo'), j \in 1 .. Len(fifo') :
          i # j /\ fifo'[i].kind = "job" /\ fifo'[j].kind = "job" => fifo'[i].frame # fifo'[j].frame
    BY <1>2 DEF IndInv, Jobs
  <2>4. wpc' \in {"gate", "execute"} /\ attempt' = 0 => item'.frame \notin live'["delivered"]
    BY DEF IndInv, Jobs
  <2>5. \A f \in replay' : Durable(f)' /\ ~HasJob(f)' /\ f \notin live'["delivered"]
    BY <1>2, <1>3 DEF IndInv, Jobs
  <2> QED BY <2>1, <2>2, <2>3, <2>4, <2>5 DEF Jobs
<1>11. Account'
  <2>1. \A f \in ledger'.handed : Durable(f)'
    BY <1>3 DEF IndInv, Account
  <2>2. Running' => \A f \in ledger'.handed : Owed(f)' \/ f \in disk'["delivered"]
    BY <1>3 DEF IndInv, Account
  <2>3. Running' => \A f \in live'["pending"] :
          f > step' \/ (f = step' /\ main' \notin {"committing", "enqueue", "consensus"})
            => Owed(f)' \/ f \in live'["delivered"]
    BY <1>3 DEF IndInv, Account, Elsewhere
  <2> QED BY <2>1, <2>2, <2>3 DEF Account
<1> QED BY <1>1, <1>4, <1>5, <1>6, <1>7, <1>8, <1>9, <1>10, <1>11

\* The calls of the provider that are asked of the worker.
LEMMA Asked ==
  ASSUME NEW k \in {"initialize", "finalize", "abort", "stop"}
  PROVE  [NoTask EXCEPT !.kind = k] \in Task /\ [NoTask EXCEPT !.kind = k].kind = k
<1>1. PICK g : g = [NoTask EXCEPT !.kind = k]
  OBVIOUS
<1>2. g = [kind |-> k, frame |-> 0, seq |-> 0]
  BY <1>1 DEF NoTask
<1>3. g \in Task /\ g.kind = k
  BY ONLY <1>2, k \in {"initialize", "finalize", "abort", "stop"} DEF Task, Kinds
<1> QED BY <1>1, <1>3

\* A queue without a worker, or with an idle one and no tasks, counts nothing.
LEMMA NothingPending ==
  ASSUME IndInv, fifo = <<>>, ~Working
  PROVE  queue.pending = 0
<1>1. Len(fifo) = 0 /\ Busy = 0
  BY DEF Busy
<1> QED BY <1>1 DEF IndInv, Numbered

\* A lone call in the queue.
LEMMA Lone ==
  ASSUME IndInv, fifo = <<>>, NEW e \in Task, fifo' = Append(fifo, e), e.kind # "job",
         ~Working', queue'.pending = 0, queue'.next = queue.next, queue'.reports = queue.reports,
         queue.pending = 0,
         queue'.closePrepared => main' \in Closing \cup {"stop", "join", "ended", "retained"},
         queue'.closed => replay' = {} /\ main' \in {"stop", "join", "ended"}
  PROVE  Len(fifo') = 1 /\ fifo'[1].kind = e.kind /\ Numbered'
<1>1. Len(fifo') = 1 /\ fifo'[1] = e
  OBVIOUS
<1>2. \A i \in 1 .. Len(fifo') : fifo'[i].kind # "job"
  BY <1>1
<1> QED BY <1>1, <1>2 DEF IndInv, Numbered

\* The step changed neither the queue nor its tasks.
LEMMA NumberedStays ==
  ASSUME IndInv, fifo' = fifo, queue'.pending = queue.pending, queue'.next = queue.next,
         queue'.reports = queue.reports, item' = item, Working' <=> Working,
         queue'.closePrepared => queue.pending = 0 /\ main' \in Closing \cup {"stop", "join", "ended", "retained"},
         queue'.closed => queue.pending = 0 /\ replay' = {} /\ main' \in {"stop", "join", "ended"}
  PROVE  Numbered'
  BY DEF IndInv, Numbered, Busy

\* _observer_queue: the worker starts and initializes the provider.
LEMMA ConstructQueueKeeps == ASSUME IndInv, ConstructQueue PROVE IndInv'
<1>1. /\ UNCHANGED <<live, disk, op, step, record, replay, gate, cancelled, queue, item, attempt, closes, ledger>>
      /\ main = "initialize" /\ main' = "initializing" /\ wpc' = "get" /\ answer' = "none"
      /\ fifo' = Append(fifo, [NoTask EXCEPT !.kind = "initialize"])
  BY DEF ConstructQueue, Main, Goes, Submit, journalVars
<1>2. wpc = "unstarted" /\ fifo = <<>> /\ ~Working /\ ~Working'
  BY <1>1 DEF IndInv, MainCall, WorkerCall, Working
<1>3. PICK e \in Task : e.kind = "initialize" /\ fifo' = Append(fifo, e)
  BY <1>1, Asked
<1>4. queue.pending = 0 /\ queue.closePrepared = FALSE /\ queue.closed = FALSE
  BY <1>1, <1>2, NothingPending DEF IndInv, Numbered, ThreadTypes, Closing
<1>5. Len(fifo') = 1 /\ fifo'[1].kind = e.kind /\ Numbered'
  BY <1>1, <1>2, <1>3, <1>4, Lone
<1>6. MainCall'
  BY <1>1, <1>2 DEF IndInv, MainCall, Stepping, Closing
<1>7. Lifecycle'
  BY <1>1, <1>3, <1>5 DEF Lifecycle, Stepping
<1>8. Running /\ NoJobAdded /\ main \in Elsewhere /\ main' \in Elsewhere /\ queue \in QueueRecord
  BY <1>1, <1>3 DEF Running, NoJobAdded, Elsewhere, MainPlaces, IndInv, ThreadTypes, QueueRecord
<1>9. /\ JournalTypes' /\ ThreadTypes' /\ WorkerCall' /\ Shape("main")' /\ Shape("worker")' /\ Durability'
      /\ RecoverInv' /\ PrepareInv' /\ CommitInv' /\ DeliverInv' /\ Jobs' /\ Account'
  BY <1>1, <1>2, <1>8, MainGoes
<1> QED BY <1>5, <1>6, <1>7, <1>9 DEF IndInv

\* The session cannot be constructed.
LEMMA SessionFailsKeeps == ASSUME IndInv, SessionFails PROVE IndInv'
<1>1. /\ UNCHANGED <<live, disk, op, step, record, replay, fifo, queue, item, wpc, attempt, ledger>>
      /\ main = "initialize" /\ main' = "ended"
  BY DEF SessionFails, Main, Goes, journalVars
<1>2. wpc = "unstarted" /\ fifo = <<>> /\ ~Working /\ ~Working'
  BY <1>1 DEF IndInv, MainCall, WorkerCall, Working
<1>3. queue.closePrepared = FALSE /\ queue.closed = FALSE
  BY <1>1 DEF IndInv, Numbered, ThreadTypes, Closing
<1>4. Numbered'
  BY <1>1, <1>2, <1>3, NumberedStays
<1>5. MainCall'
  BY <1>1, <1>2 DEF IndInv, MainCall, Stepping, Closing
<1>6. Lifecycle'
  BY <1>1 DEF Lifecycle, Stepping
<1>7. ~Running' /\ NoJobAdded /\ main \in Elsewhere /\ main' \in Elsewhere /\ queue \in QueueRecord
  BY <1>1, <1>3 DEF Running, NoJobAdded, Elsewhere, MainPlaces, IndInv, ThreadTypes, QueueRecord
<1>8. /\ JournalTypes' /\ ThreadTypes' /\ WorkerCall' /\ Shape("main")' /\ Shape("worker")' /\ Durability'
      /\ RecoverInv' /\ PrepareInv' /\ CommitInv' /\ DeliverInv' /\ Jobs' /\ Account'
  BY <1>1, <1>2, <1>7, MainGoes
<1> QED BY <1>4, <1>5, <1>6, <1>8 DEF IndInv

\* The provider was initialized, or not.
LEMMA InitializedKeeps == ASSUME IndInv, Initialized PROVE IndInv'
<1>1. /\ UNCHANGED <<live, disk, op, step, record, replay, fifo, queue, item, wpc, attempt, ledger>>
      /\ main = "initializing" /\ main' \in {"replay", "abort"} /\ answer # "none"
  BY DEF Initialized, Main, Goes, journalVars
<1>2. wpc = "get" /\ fifo = <<>> /\ ~Working /\ ~Working'
  BY <1>1 DEF IndInv, Lifecycle, Working
<1>3. queue.closePrepared = FALSE /\ queue.closed = FALSE
  BY <1>1 DEF IndInv, Numbered, ThreadTypes, Closing
<1>4. Numbered'
  BY <1>1, <1>2, <1>3, NumberedStays
<1>5. MainCall'
  BY <1>1, <1>2 DEF IndInv, MainCall, Stepping, Closing
<1>6. Lifecycle'
  BY <1>1, <1>2 DEF Lifecycle, Stepping
<1>7. Running /\ NoJobAdded /\ main \in Elsewhere /\ main' \in Elsewhere /\ queue \in QueueRecord
  BY <1>1, <1>3 DEF Running, NoJobAdded, Elsewhere, MainPlaces, IndInv, ThreadTypes, QueueRecord
<1>8. /\ JournalTypes' /\ ThreadTypes' /\ WorkerCall' /\ Shape("main")' /\ Shape("worker")' /\ Durability'
      /\ RecoverInv' /\ PrepareInv' /\ CommitInv' /\ DeliverInv' /\ Jobs' /\ Account'
  BY <1>1, <1>2, <1>7, MainGoes
<1> QED BY <1>4, <1>5, <1>6, <1>8 DEF IndInv

\* The replay is over.
LEMMA ReplayedKeeps ==
  ASSUME IndInv, Replay, replay = {}, Goes(IF step = Last THEN "close" ELSE "prepare"),
         UNCHANGED <<replay, fifo, queue, gate>>
  PROVE  IndInv'
<1>1. /\ UNCHANGED <<live, disk, op, step, record, replay, fifo, queue, item, wpc, attempt, ledger>>
      /\ main = "replay" /\ main' = IF step = Last THEN "close" ELSE "prepare"
  BY DEF Replay, Main, Goes, journalVars
<1>2. (wpc = "get" \/ Working) /\ (Working' <=> Working) /\ (\A i \in 1 .. Len(fifo) : fifo[i].kind = "job")
  BY <1>1 DEF IndInv, Lifecycle, Working
<1>3. queue.closePrepared = FALSE /\ queue.closed = FALSE
  BY <1>1 DEF IndInv, Numbered, ThreadTypes, Closing
<1>4. Numbered'
  BY <1>1, <1>2, <1>3, NumberedStays
<1>5. MainCall'
  <2>1. main' = "prepare" => step \in Frames
    BY <1>1, DeliveryAssumption DEF IndInv, ThreadTypes, Last
  <2> QED BY <1>1, <1>2, <2>1 DEF IndInv, MainCall, Stepping, Closing, Working
<1>6. Lifecycle'
  BY <1>1, <1>2 DEF Lifecycle, Stepping
<1>7. Running /\ NoJobAdded /\ main \in Elsewhere /\ main' \in Elsewhere \cup {"prepare"} /\ queue \in QueueRecord
  BY <1>1, <1>3 DEF Running, NoJobAdded, Elsewhere, MainPlaces, IndInv, ThreadTypes, QueueRecord
<1>8. wpc' = "unstarted" => fifo' = <<>>
  BY <1>1 DEF IndInv, WorkerCall
<1>9. /\ JournalTypes' /\ ThreadTypes' /\ WorkerCall' /\ Shape("main")' /\ Shape("worker")' /\ Durability'
      /\ RecoverInv' /\ PrepareInv' /\ CommitInv' /\ DeliverInv' /\ Jobs' /\ Account'
  BY <1>1, <1>2, <1>7, <1>8, MainGoes
<1> QED BY <1>4, <1>5, <1>6, <1>9 DEF IndInv

\* The close begins.
LEMMA CloseKeeps == ASSUME IndInv, Close PROVE IndInv'
<1>1. /\ UNCHANGED <<live, disk, op, step, record, replay, fifo, item, wpc, attempt, ledger>>
      /\ main = "close" /\ main' = "drain" /\ queue' = [queue EXCEPT !.closeRequested = TRUE]
  BY DEF Close, Main, Goes, journalVars
<1>2. (wpc = "get" \/ Working) /\ (Working' <=> Working) /\ (\A i \in 1 .. Len(fifo) : fifo[i].kind = "job")
  BY <1>1 DEF IndInv, Lifecycle, Working
<1>3. /\ queue \in QueueRecord /\ queue' \in QueueRecord /\ queue'.next = queue.next /\ queue'.pending = queue.pending
      /\ queue'.reports = queue.reports /\ queue'.closePrepared = queue.closePrepared /\ queue'.closed = queue.closed
  BY <1>1 DEF IndInv, ThreadTypes, QueueRecord
<1>4. Numbered'
  <2>1. queue'.closePrepared => queue.pending = 0 /\ main' \in Closing \cup {"stop", "join", "ended", "retained"}
    BY <1>1, <1>3 DEF IndInv, Numbered, Closing
  <2>2. ~queue.closed
    BY <1>1 DEF IndInv, Numbered
  <2> QED BY <1>1, <1>2, <1>3, <2>1, <2>2, NumberedStays
<1>5. MainCall'
  BY <1>1, <1>2 DEF IndInv, MainCall, Stepping, Closing
<1>6. Lifecycle'
  BY <1>1, <1>2 DEF Lifecycle, Stepping
<1>7. Running /\ NoJobAdded /\ main \in Elsewhere /\ main' \in Elsewhere
  BY <1>1, <1>3 DEF Running, NoJobAdded, Elsewhere, MainPlaces, IndInv, ThreadTypes, QueueRecord
<1>8. wpc' = "unstarted" => fifo' = <<>>
  BY <1>1 DEF IndInv, WorkerCall
<1>9. /\ JournalTypes' /\ ThreadTypes' /\ WorkerCall' /\ Shape("main")' /\ Shape("worker")' /\ Durability'
      /\ RecoverInv' /\ PrepareInv' /\ CommitInv' /\ DeliverInv' /\ Jobs' /\ Account'
  BY <1>1, <1>2, <1>3, <1>7, <1>8, MainGoes
<1> QED BY <1>4, <1>5, <1>6, <1>9 DEF IndInv

\* The queue is drained and the provider finalized.
LEMMA DrainedKeeps == ASSUME IndInv, Drained PROVE IndInv'
<1>1. /\ UNCHANGED <<live, disk, op, step, record, replay, item, wpc, attempt, ledger>>
      /\ main = "drain" /\ main' = "finalizing" /\ queue' = [queue EXCEPT !.closePrepared = TRUE] /\ answer' = "none"
      /\ fifo' = Append(fifo, [NoTask EXCEPT !.kind = "finalize"])
      /\ queue.closePrepared \/ queue.pending = 0
  BY DEF Drained, Main, Goes, Submit, journalVars
<1>2. (wpc = "get" \/ Working) /\ (Working' <=> Working) /\ (\A i \in 1 .. Len(fifo) : fifo[i].kind = "job")
  BY <1>1 DEF IndInv, Lifecycle, Working
<1>3. /\ queue \in QueueRecord /\ queue' \in QueueRecord /\ queue'.next = queue.next /\ queue'.pending = queue.pending
      /\ queue'.reports = queue.reports /\ queue'.closePrepared = TRUE /\ queue'.closed = queue.closed
  BY <1>1 DEF IndInv, ThreadTypes, QueueRecord
<1>4. queue.pending = 0 /\ ~queue.closed
  BY <1>1 DEF IndInv, Numbered
<1>5. ~Working /\ fifo = <<>> /\ wpc = "get"
  <2>1. fifo \in Seq(Task) /\ Len(fifo) \in Nat
    BY DEF IndInv, ThreadTypes
  <2>2. ~Working /\ Len(fifo) = 0
    <3>1. CASE queue.pending = Len(fifo) + Busy
      BY <1>4, <2>1, <3>1 DEF Busy
    <3>2. CASE (\A i \in 1 .. Len(fifo) : fifo[i].kind # "job") /\ ~Working
      <4>1. Len(fifo) # 0 => 1 \in 1 .. Len(fifo)
        BY <2>1
      <4> QED BY <1>2, <2>1, <3>2, <4>1
    <3> QED BY <3>1, <3>2 DEF IndInv, Numbered
  <2> QED BY <1>2, <2>1, <2>2
<1>6. PICK e \in Task : e.kind = "finalize" /\ fifo' = Append(fifo, e)
  BY <1>1, Asked
<1>7. Len(fifo') = 1 /\ fifo'[1].kind = e.kind /\ Numbered'
  BY <1>1, <1>2, <1>3, <1>4, <1>5, <1>6, Lone DEF Closing
<1>8. MainCall'
  BY <1>1, <1>5 DEF IndInv, MainCall, Stepping, Closing
<1>9. Lifecycle'
  BY <1>1, <1>5, <1>6, <1>7 DEF Lifecycle, Stepping
<1>10. Running /\ NoJobAdded /\ main \in Elsewhere /\ main' \in Elsewhere
  BY <1>1, <1>6 DEF Running, NoJobAdded, Elsewhere, MainPlaces, IndInv, ThreadTypes, QueueRecord
<1>11. /\ JournalTypes' /\ ThreadTypes' /\ WorkerCall' /\ Shape("main")' /\ Shape("worker")' /\ Durability'
      /\ RecoverInv' /\ PrepareInv' /\ CommitInv' /\ DeliverInv' /\ Jobs' /\ Account'
  BY <1>1, <1>2, <1>3, <1>5, <1>10, MainGoes
<1> QED BY <1>7, <1>8, <1>9, <1>11 DEF IndInv

\* The finalization is answered.
LEMMA FinalizedKeeps == ASSUME IndInv, Finalized PROVE IndInv'
<1>1. /\ UNCHANGED <<live, disk, op, step, record, replay, fifo, item, wpc, attempt, ledger>>
      /\ main = "finalizing" /\ queue' = [queue EXCEPT !.closed = (answer = "ok")] /\ answer # "none"
      /\ main' = CASE answer = "ok" -> "stop"
                   [] answer = "failed" /\ closes < 2 -> "close"
                   [] OTHER -> "retained"
  BY DEF Finalized, Main, Goes, journalVars
<1>2. /\ wpc = "get" /\ fifo = <<>> /\ ~Working /\ ~Working' /\ answer \in {"ok", "failed"}
  BY <1>1 DEF IndInv, Lifecycle, Working
<1>3. /\ queue \in QueueRecord /\ queue' \in QueueRecord /\ queue'.next = queue.next /\ queue'.pending = queue.pending
      /\ queue'.reports = queue.reports /\ queue'.closePrepared = queue.closePrepared /\ queue'.closed = (answer = "ok")
  BY <1>1 DEF IndInv, ThreadTypes, QueueRecord
<1>4. queue.pending = 0 /\ replay = {}
  BY <1>1, <1>2, NothingPending DEF IndInv, MainCall, Closing
<1>5. \/ answer = "ok" /\ main' = "stop"
      \/ answer = "failed" /\ main' \in {"close", "retained"}
  BY <1>1, <1>2
<1>6. Numbered'
  BY <1>1, <1>2, <1>3, <1>4, <1>5, NumberedStays DEF Closing
<1>7. MainCall'
  BY <1>1, <1>2, <1>5 DEF IndInv, MainCall, Stepping, Closing
<1>8. Lifecycle'
  BY <1>1, <1>2, <1>5 DEF Lifecycle, Stepping
<1>9. Running /\ NoJobAdded /\ main \in Elsewhere /\ main' \in Elsewhere
  BY <1>1, <1>5 DEF Running, NoJobAdded, Elsewhere, MainPlaces, IndInv, ThreadTypes, QueueRecord
<1>10. /\ JournalTypes' /\ ThreadTypes' /\ WorkerCall' /\ Shape("main")' /\ Shape("worker")' /\ Durability'
      /\ RecoverInv' /\ PrepareInv' /\ CommitInv' /\ DeliverInv' /\ Jobs' /\ Account'
  BY <1>1, <1>2, <1>3, <1>9, MainGoes
<1> QED BY <1>6, <1>7, <1>8, <1>10 DEF IndInv

\* A pending session is aborted.
LEMMA AbortSessionKeeps == ASSUME IndInv, AbortSession PROVE IndInv'
<1>1. /\ UNCHANGED <<live, disk, op, step, record, replay, queue, item, wpc, attempt, ledger>>
      /\ main = "abort" /\ main' = "aborting" /\ answer' = "none"
      /\ fifo' = Append(fifo, [NoTask EXCEPT !.kind = "abort"])
  BY DEF AbortSession, Main, Goes, Submit, journalVars
<1>2. wpc = "get" /\ fifo = <<>> /\ ~Working /\ ~Working'
  BY <1>1 DEF IndInv, Lifecycle, Working
<1>3. queue.pending = 0 /\ queue.closePrepared = FALSE /\ queue.closed = FALSE
  BY <1>1, <1>2, NothingPending DEF IndInv, Numbered, ThreadTypes, Closing
<1>4. PICK e \in Task : e.kind = "abort" /\ fifo' = Append(fifo, e)
  BY <1>1, Asked
<1>5. Len(fifo') = 1 /\ fifo'[1].kind = e.kind /\ Numbered'
  BY <1>1, <1>2, <1>3, <1>4, Lone
<1>6. MainCall'
  BY <1>1, <1>2 DEF IndInv, MainCall, Stepping, Closing
<1>7. Lifecycle'
  BY <1>1, <1>2, <1>4, <1>5 DEF Lifecycle, Stepping
<1>8. Running /\ NoJobAdded /\ main \in Elsewhere /\ main' \in Elsewhere /\ queue \in QueueRecord
  BY <1>1, <1>4 DEF Running, NoJobAdded, Elsewhere, MainPlaces, IndInv, ThreadTypes, QueueRecord
<1>9. /\ JournalTypes' /\ ThreadTypes' /\ WorkerCall' /\ Shape("main")' /\ Shape("worker")' /\ Durability'
      /\ RecoverInv' /\ PrepareInv' /\ CommitInv' /\ DeliverInv' /\ Jobs' /\ Account'
  BY <1>1, <1>2, <1>8, MainGoes
<1> QED BY <1>5, <1>6, <1>7, <1>9 DEF IndInv

\* The abort is answered.
LEMMA AbortedKeeps == ASSUME IndInv, Aborted PROVE IndInv'
<1>1. /\ UNCHANGED <<live, disk, op, step, record, replay, fifo, queue, item, wpc, attempt, ledger>>
      /\ main = "aborting" /\ main' \in {"stop", "retained"} /\ answer # "none"
  BY DEF Aborted, Main, Goes, journalVars
<1>2. wpc = "get" /\ fifo = <<>> /\ ~Working /\ ~Working'
  BY <1>1 DEF IndInv, Lifecycle, Working
<1>3. queue.closePrepared = FALSE /\ queue.closed = FALSE
  BY <1>1 DEF IndInv, Numbered, ThreadTypes, Closing
<1>4. Numbered'
  BY <1>1, <1>2, <1>3, NumberedStays
<1>5. MainCall'
  BY <1>1, <1>2 DEF IndInv, MainCall, Stepping, Closing
<1>6. Lifecycle'
  BY <1>1, <1>2 DEF Lifecycle, Stepping
<1>7. Running /\ NoJobAdded /\ main \in Elsewhere /\ main' \in Elsewhere /\ queue \in QueueRecord
  BY <1>1 DEF Running, NoJobAdded, Elsewhere, MainPlaces, IndInv, ThreadTypes, QueueRecord
<1>8. /\ JournalTypes' /\ ThreadTypes' /\ WorkerCall' /\ Shape("main")' /\ Shape("worker")' /\ Durability'
      /\ RecoverInv' /\ PrepareInv' /\ CommitInv' /\ DeliverInv' /\ Jobs' /\ Account'
  BY <1>1, <1>2, <1>7, MainGoes
<1> QED BY <1>4, <1>5, <1>6, <1>8 DEF IndInv

\* The worker is stopped.
LEMMA StopWorkerKeeps == ASSUME IndInv, StopWorker PROVE IndInv'
<1>1. /\ UNCHANGED <<live, disk, op, step, record, replay, queue, item, wpc, attempt, ledger>>
      /\ main = "stop" /\ main' = "join"
      /\ fifo' = Append(fifo, [NoTask EXCEPT !.kind = "stop"])
  BY DEF StopWorker, Main, Goes, Submit, journalVars
<1>2. wpc = "get" /\ fifo = <<>> /\ ~Working /\ ~Working'
  BY <1>1 DEF IndInv, Lifecycle, Working
<1>3. queue.pending = 0 /\ (queue.closed => replay = {})
  BY <1>1, <1>2, NothingPending DEF IndInv, Numbered
<1>4. PICK e \in Task : e.kind = "stop" /\ fifo' = Append(fifo, e)
  BY <1>1, Asked
<1>5. Len(fifo') = 1 /\ fifo'[1].kind = e.kind /\ Numbered'
  BY <1>1, <1>2, <1>3, <1>4, Lone
<1>6. MainCall'
  BY <1>1, <1>2 DEF IndInv, MainCall, Stepping, Closing
<1>7. Lifecycle'
  BY <1>1, <1>2, <1>4, <1>5 DEF Lifecycle, Stepping
<1>8. Running /\ NoJobAdded /\ main \in Elsewhere /\ main' \in Elsewhere /\ queue \in QueueRecord
  BY <1>1, <1>4 DEF Running, NoJobAdded, Elsewhere, MainPlaces, IndInv, ThreadTypes, QueueRecord
<1>9. /\ JournalTypes' /\ ThreadTypes' /\ WorkerCall' /\ Shape("main")' /\ Shape("worker")' /\ Durability'
      /\ RecoverInv' /\ PrepareInv' /\ CommitInv' /\ DeliverInv' /\ Jobs' /\ Account'
  BY <1>1, <1>2, <1>8, MainGoes
<1> QED BY <1>5, <1>6, <1>7, <1>9 DEF IndInv

\* The worker is joined.
LEMMA JoinedKeeps == ASSUME IndInv, Joined PROVE IndInv'
<1>1. /\ UNCHANGED <<live, disk, op, step, record, replay, fifo, queue, item, wpc, attempt, ledger>>
      /\ main = "join" /\ main' = "ended" /\ wpc = "stopped"
  BY DEF Joined, Main, Goes, journalVars
<1>2. ~Working /\ ~Working'
  BY <1>1 DEF Working
<1>3. Numbered'
  <2>1. /\ queue.closePrepared => queue.pending = 0
        /\ queue.closed => queue.pending = 0 /\ replay = {}
    BY DEF IndInv, Numbered
  <2> QED BY <1>1, <1>2, <2>1, NumberedStays
<1>4. MainCall'
  BY <1>1 DEF IndInv, MainCall, Stepping, Closing
<1>5. Lifecycle'
  BY <1>1 DEF Lifecycle, Stepping
<1>6. Running /\ NoJobAdded /\ main \in Elsewhere /\ main' \in Elsewhere /\ queue \in QueueRecord
  BY <1>1 DEF Running, NoJobAdded, Elsewhere, MainPlaces, IndInv, ThreadTypes, QueueRecord
<1>7. /\ JournalTypes' /\ ThreadTypes' /\ WorkerCall' /\ Shape("main")' /\ Shape("worker")' /\ Durability'
      /\ RecoverInv' /\ PrepareInv' /\ CommitInv' /\ DeliverInv' /\ Jobs' /\ Account'
  BY <1>1, <1>2, <1>6, MainGoes
<1> QED BY <1>3, <1>4, <1>5, <1>7 DEF IndInv

\* A step of the simulation thread that enters a call, takes its result or goes on to
\* the next frame, and leaves the links and the queue alone.
Before == {"open", "opening"} \cup Stepping
Same == UNCHANGED <<live, disk, fifo, queue, item, wpc, attempt>>

\* What entering or leaving a call of the journal leaves of the invariant.
LEMMA MainTurns ==
  ASSUME IndInv, Same, op' \in Records, op'["worker"] = op["worker"],
         op["main"].at # "sync", ledger'.executed = ledger.executed,
         main \in Before,
         main' \in {"opening", "initialize", "ended", "close"} \cup Stepping,
         main \in Stepping <=> main' \in Stepping \cup {"close"}
  PROVE  /\ JournalTypes' /\ WorkerCall' /\ Shape("worker")' /\ Durability' /\ DeliverInv' /\ Numbered' /\ Lifecycle'
         /\ \A f : (HasJob(f)' <=> HasJob(f)) /\ (Queued(f)' <=> Queued(f)) /\ (Durable(f)' <=> Durable(f))
         /\ Working' <=> Working
         /\ replay' = replay => Jobs'
         /\ queue.closed = FALSE /\ queue.closePrepared = FALSE
<1>1. UNCHANGED live /\ UNCHANGED disk /\ UNCHANGED fifo /\ UNCHANGED queue /\ UNCHANGED item /\ UNCHANGED wpc /\ UNCHANGED attempt
  BY DEF Same
<1>2. /\ \A f : (HasJob(f)' <=> HasJob(f)) /\ (Queued(f)' <=> Queued(f)) /\ (Durable(f)' <=> Durable(f))
      /\ Working' <=> Working
  BY <1>1 DEF HasJob, Queued, Durable, Working
<1>3. JournalTypes'
  BY <1>1 DEF IndInv, JournalTypes, Records
<1>4. WorkerCall' /\ Shape("worker")'
  <2>1. WorkerCall'
    BY <1>1, <1>2 DEF IndInv, WorkerCall
  <2>2. Shape("worker")'
    BY DEF IndInv, Shape
  <2> QED BY <2>1, <2>2
<1>5. DeliverInv'
  BY <1>1 DEF IndInv, DeliverInv
<1>6. Durability'
  <2>1. live["pending"] \subseteq disk["pending"]
    BY DEF IndInv, Durability
  <2> QED BY <1>1, <1>2, <2>1 DEF IndInv, Durability
<1>7. queue.closed = FALSE /\ queue.closePrepared = FALSE
  BY DEF IndInv, Numbered, ThreadTypes, Before, Stepping, Closing
<1>8. Numbered'
  BY <1>1, <1>2, <1>7, NumberedStays
<1>9. Lifecycle'
  BY <1>1, <1>2 DEF IndInv, Lifecycle, Before, Stepping
<1>10. replay' = replay => Jobs'
  BY <1>1, <1>2 DEF IndInv, Jobs
<1> QED BY <1>2, <1>3, <1>4, <1>5, <1>6, <1>7, <1>8, <1>9, <1>10

\* What remains to be shown of such a step about the frames that were handed off.
LEMMA AccountStays ==
  ASSUME IndInv, Same, ledger'.handed = ledger.handed, replay' = replay, step' = step,
         main \in Stepping \ {"enqueue"}, main' \in (Stepping \cup {"close"}) \ {"enqueue"},
         main \in {"committing", "consensus"} => main' \in {"committing", "consensus"},
         \A f : (HasJob(f)' <=> HasJob(f)) /\ (Durable(f)' <=> Durable(f))
  PROVE  Account'
<1>1. UNCHANGED live /\ UNCHANGED disk /\ UNCHANGED queue
  BY DEF Same
<1>2. \A f : Owed(f)' <=> Owed(f)
  BY <1>1 DEF Owed, Reported
<1>3. Running
  BY DEF Running, Stepping
<1> QED BY <1>1, <1>2, <1>3 DEF IndInv, Account


\* The types of the threads after a step of the simulation thread.
LEMMA MainTypes ==
  ASSUME IndInv, Same, main' \in MainPlaces, step' \in 1 .. Last, record' \in States \cup {"none"},
         replay' \subseteq Frames, ledger' \in LedgerRecord
  PROVE  ThreadTypes'
  BY DEF IndInv, ThreadTypes, Same, LedgerRecord

\* The journal is opened.
LEMMA OpenJournalKeeps == ASSUME IndInv, OpenJournal PROVE IndInv'
<1> USE TwoThreads
<1>1. /\ Same /\ UNCHANGED <<step, record, replay, ledger>>
      /\ main = "open" /\ main' = "opening" /\ Enter("main", "recover", 0)
  BY DEF OpenJournal, Main, Goes, Same, Enter
<1>2. /\ op' \in Records /\ op'["worker"] = op["worker"]
      /\ op'["main"].call = "recover" /\ op'["main"].at = "scan"
  BY <1>1, EnterTo DEF IndInv, Calls
<1>3. op["main"].at = "idle"
  BY <1>1 DEF Enter
<1>4. main \in Before /\ main \notin Stepping /\ main' \notin Stepping
  BY <1>1 DEF Before, Stepping
<1>5. /\ JournalTypes' /\ WorkerCall' /\ Shape("worker")' /\ Durability' /\ DeliverInv' /\ Numbered' /\ Lifecycle' /\ Jobs'
      /\ queue.closed = FALSE
      /\ \A f : Durable(f)' <=> Durable(f)
  BY <1>1, <1>2, <1>3, <1>4, MainTurns
<1>6. ThreadTypes'
  BY <1>1, MainTypes DEF MainPlaces, IndInv, ThreadTypes, LedgerRecord
<1>7. MainCall'
  BY <1>1, <1>2 DEF IndInv, MainCall, Same, Stepping, Closing
<1>8. Shape("main")' /\ RecoverInv'
  BY <1>2 DEF Shape, RecoverInv
<1>9. PrepareInv' /\ CommitInv'
  BY <1>1, <1>2 DEF PrepareInv, CommitInv
<1>10. Account'
  BY <1>1, <1>5 DEF IndInv, Account, Running, Same
<1> QED BY <1>5, <1>6, <1>7, <1>8, <1>9, <1>10 DEF IndInv

\* The pending records are listed.
LEMMA InspectJournalKeeps == ASSUME IndInv, InspectJournal PROVE IndInv'
<1> USE TwoThreads
<1>1. /\ Same /\ UNCHANGED <<step, record, ledger>>
      /\ main = "opening" /\ main' = (IF Raised THEN "ended" ELSE "initialize") /\ Take("main")
      /\ replay' = (IF Raised THEN {} ELSE live["pending"])
      /\ op["main"].at \in {"returned", "raised"}
  BY DEF InspectJournal, Main, Goes, Same, Take, ListPending, Finished
<1>2. /\ op' \in Records /\ op'["worker"] = op["worker"]
      /\ op'["main"].call = "none" /\ op'["main"].at = "idle"
  BY <1>1, TakeTo DEF IndInv
<1>3. main \in Before /\ main \notin Stepping /\ main' \in {"ended", "initialize"} /\ main' \notin Stepping
  BY <1>1 DEF Before, Stepping
<1>4. /\ JournalTypes' /\ WorkerCall' /\ Shape("worker")' /\ Durability' /\ DeliverInv' /\ Numbered' /\ Lifecycle'
      /\ queue.closed = FALSE
      /\ \A f : (HasJob(f)' <=> HasJob(f)) /\ (Queued(f)' <=> Queued(f)) /\ (Durable(f)' <=> Durable(f))
      /\ Working' <=> Working
  BY <1>1, <1>2, <1>3, MainTurns
<1>5. live["pending"] \subseteq Frames
  BY DEF IndInv, JournalTypes, States
<1>6. ThreadTypes'
  BY <1>1, <1>3, <1>5, MainTypes DEF MainPlaces, IndInv, ThreadTypes, LedgerRecord
<1>7. wpc = "unstarted" /\ fifo = <<>> /\ ~Working
  BY <1>1 DEF IndInv, MainCall, WorkerCall, Working
<1>8. MainCall'
  BY <1>1, <1>2, <1>3, <1>7 DEF IndInv, MainCall, Same, Stepping, Closing
<1>9. Shape("main")' /\ RecoverInv'
  BY <1>2 DEF Shape, RecoverInv
<1>10. PrepareInv' /\ CommitInv'
  BY <1>2, <1>3 DEF PrepareInv, CommitInv
<1>11. Jobs'
  <2>1. \A f : ~HasJob(f)
    BY <1>7 DEF HasJob, Queued
  <2>2. \A f \in replay' : Durable(f) /\ f \notin live["delivered"]
    <3>1. CASE Raised
      BY <1>1, <3>1
    <3>2. CASE ~Raised
      <4>1. live["delivered"] \cap live["pending"] = {}
        BY <1>1, <3>2 DEF Raised, IndInv, MainCall, RecoverInv
      <4> QED BY <1>1, <3>2, <4>1, LinkedDurable
    <3> QED BY <3>1, <3>2
  <2> QED BY <1>1, <1>4, <2>1, <2>2 DEF IndInv, Jobs, Same
<1>12. Account'
  <2>1. CASE Raised
    BY <1>1, <1>4, <2>1 DEF IndInv, Account, Running, Same
  <2>2. CASE ~Raised
    <3>1. \A f \in live["pending"] : Owed(f)'
      BY <1>1, <2>2 DEF Owed
    <3>2. \A f \in ledger.handed : Durable(f) /\ (f \in live["pending"] \/ f \in disk["delivered"])
      BY DEF IndInv, Account, Durable, Durability
    <3> QED BY <1>1, <1>4, <3>1, <3>2 DEF Account, Same
  <2> QED BY <2>1, <2>2
<1> QED BY <1>4, <1>6, <1>8, <1>9, <1>10, <1>11, <1>12 DEF IndInv

\* A frame is prepared.
LEMMA PrepareKeeps == ASSUME IndInv, Prepare PROVE IndInv'
<1> USE TwoThreads
<1>1. /\ Same /\ UNCHANGED <<step, record, replay, ledger>>
      /\ main = "prepare" /\ main' = "preparing" /\ Enter("main", "prepare", step)
  BY DEF Prepare, Main, Goes, Same, Enter
<1>2. step \in Frames
  BY <1>1 DEF IndInv, MainCall, Stepping
<1>3. /\ op' \in Records /\ op'["worker"] = op["worker"]
      /\ op'["main"].call = "prepare" /\ op'["main"].frame = step /\ op'["main"].at = "delivered?"
  BY <1>1, <1>2, EnterTo DEF IndInv, Calls
<1>4. op["main"].at = "idle"
  BY <1>1 DEF Enter
<1>5. main \in Before /\ main \in Stepping /\ main' \in Stepping
  BY <1>1 DEF Before, Stepping
<1>6. /\ JournalTypes' /\ WorkerCall' /\ Shape("worker")' /\ Durability' /\ DeliverInv' /\ Numbered' /\ Lifecycle' /\ Jobs'
      /\ \A f : (HasJob(f)' <=> HasJob(f)) /\ (Durable(f)' <=> Durable(f))
  BY <1>1, <1>3, <1>4, <1>5, MainTurns
<1>7. ThreadTypes'
  BY <1>1, MainTypes DEF MainPlaces, IndInv, ThreadTypes, LedgerRecord
<1>8. MainCall'
  BY <1>1, <1>2, <1>3 DEF IndInv, MainCall, Same, Stepping, Closing
<1>9. Shape("main")' /\ RecoverInv' /\ PrepareInv' /\ CommitInv'
  BY <1>1, <1>3 DEF Shape, RecoverInv, PrepareInv, CommitInv
<1>10. Account'
  BY <1>1, <1>5, <1>6, AccountStays
<1> QED BY <1>6, <1>7, <1>8, <1>9, <1>10 DEF IndInv

\* prepare has returned or raised.
LEMMA PreparedKeeps == ASSUME IndInv, Prepared PROVE IndInv'
<1> USE TwoThreads
<1>1. /\ Same /\ UNCHANGED <<step, replay, ledger>>
      /\ main = "preparing" /\ main' = (IF Raised THEN "close" ELSE "staged") /\ Take("main")
      /\ record' = (IF Raised THEN "none" ELSE op["main"].result)
      /\ op["main"].at \in {"returned", "raised"}
  BY DEF Prepared, Main, Goes, Same, Take, Finished
<1>2. step \in Frames /\ op["main"].call = "prepare" /\ replay = {}
  BY <1>1 DEF IndInv, MainCall, Stepping
<1>3. /\ op' \in Records /\ op'["worker"] = op["worker"]
      /\ op'["main"].call = "none" /\ op'["main"].at = "idle"
  BY <1>1, TakeTo DEF IndInv
<1>4. main' \in {"close", "staged"} /\ main' \in Stepping \cup {"close"} /\ main \in Before /\ main \in Stepping
  BY <1>1 DEF Before, Stepping
<1>5. /\ JournalTypes' /\ WorkerCall' /\ Shape("worker")' /\ Durability' /\ DeliverInv' /\ Numbered' /\ Lifecycle' /\ Jobs'
      /\ \A f : (HasJob(f)' <=> HasJob(f)) /\ (Durable(f)' <=> Durable(f))
  BY <1>1, <1>3, <1>4, MainTurns
<1>6. ~Raised => op["main"].at = "returned" /\ op["main"].result \in States /\ Says(op["main"].result)
  BY <1>1, <1>2 DEF Raised, IndInv, PrepareInv
<1>7. record' \in States \cup {"none"} /\ (main' = "staged" => record' \in States)
  BY <1>1, <1>6
<1>8. ThreadTypes'
  BY <1>1, <1>4, <1>7, MainTypes DEF MainPlaces, IndInv, ThreadTypes, LedgerRecord
<1>9. MainCall'
  BY <1>1, <1>2, <1>3, <1>4, <1>7 DEF IndInv, MainCall, Same, Stepping, Closing
<1>10. Shape("main")' /\ RecoverInv' /\ CommitInv'
  BY <1>3, <1>4 DEF Shape, RecoverInv, CommitInv
<1>11. PrepareInv'
  <2>1. CASE main' = "close"
    BY <1>3, <2>1 DEF PrepareInv
  <2>2. CASE main' = "staged"
    <3>1. record' = op["main"].result /\ Says(op["main"].result)
      BY <1>1, <1>6, <2>2
    <3>2. /\ Fresh(step) => Fresh(step)'
          /\ Durable(step) => Durable(step)'
          /\ Owed(step) => Owed(step)'
      BY <1>1, <1>5 DEF Fresh, Durable, Owed, Reported, Same
    <3>3. Says(record)'
      BY <1>1, <3>1, <3>2 DEF Says, Same
    <3> QED BY <1>3, <3>3 DEF PrepareInv
  <2> QED BY <1>4, <2>1, <2>2
<1>12. Account'
  BY <1>1, <1>4, <1>5, AccountStays DEF Stepping
<1> QED BY <1>5, <1>8, <1>9, <1>10, <1>11, <1>12 DEF IndInv

\* A step is withdrawn.
LEMMA WithdrawKeeps == ASSUME IndInv, Withdraw PROVE IndInv'
<1> USE TwoThreads
<1>1. /\ Same /\ UNCHANGED <<step, record, replay>>
      /\ main = "staged" /\ main' = "withdrawing"
      /\ ledger' = [ledger EXCEPT !.withdrawals = @ + 1]
      /\ IF record = "prepared" THEN Enter("main", "discard", step) ELSE op' = op
  BY DEF Withdraw, Main, Goes, Same, Enter, journalVars
<1>2. step \in Frames /\ op["main"].call = "none" /\ op["main"].at = "idle" /\ replay = {}
  BY <1>1 DEF IndInv, MainCall, Stepping, Shape
<1>3. /\ op' \in Records /\ op'["worker"] = op["worker"]
      /\ IF record = "prepared"
         THEN op'["main"].call = "discard" /\ op'["main"].frame = step /\ op'["main"].at = "delivered?"
         ELSE op'["main"].call = "none" /\ op'["main"].at = "idle"
  BY <1>1, <1>2, EnterTo DEF IndInv, Calls, JournalTypes, Records
<1>4. main \in Before /\ main \in Stepping /\ main' \in Stepping
  BY <1>1 DEF Before, Stepping
<1>5. /\ ledger \in LedgerRecord /\ ledger' \in LedgerRecord /\ ledger'.executed = ledger.executed
      /\ ledger'.handed = ledger.handed
  <2>1. ledger \in LedgerRecord
    BY DEF IndInv, ThreadTypes, LedgerRecord
  <2>2. ledger' = [ledger EXCEPT !.withdrawals = @ + 1]
    BY <1>1
  <2> QED BY ONLY <2>1, <2>2 DEF LedgerRecord
<1>6. /\ JournalTypes' /\ WorkerCall' /\ Shape("worker")' /\ Durability' /\ DeliverInv' /\ Numbered' /\ Lifecycle' /\ Jobs'
      /\ \A f : (HasJob(f)' <=> HasJob(f)) /\ (Durable(f)' <=> Durable(f))
  BY <1>1, <1>2, <1>3, <1>4, <1>5, MainTurns
<1>7. ThreadTypes'
  BY <1>1, <1>5, MainTypes DEF MainPlaces, IndInv, ThreadTypes
<1>8. MainCall'
  BY <1>1, <1>2, <1>3 DEF IndInv, MainCall, Same, Stepping, Closing
<1>9. Shape("main")' /\ RecoverInv' /\ PrepareInv' /\ CommitInv'
  BY <1>1, <1>3 DEF Shape, RecoverInv, PrepareInv, CommitInv
<1>10. Account'
  BY <1>1, <1>4, <1>5, <1>6, AccountStays DEF Stepping
<1> QED BY <1>6, <1>7, <1>8, <1>9, <1>10 DEF IndInv

\* The withdrawal is done.
LEMMA WithdrawnKeeps == ASSUME IndInv, Withdrawn PROVE IndInv'
<1> USE TwoThreads
<1>1. /\ Same /\ UNCHANGED <<step, replay, ledger>>
      /\ main = "withdrawing" /\ main' \in {"close", "prepare"} /\ record' = "none"
      /\ record = "prepared" => op["main"].at \in {"returned", "raised"}
      /\ IF record = "prepared" THEN Take("main") ELSE op' = op
  BY DEF Withdrawn, Main, Same, Take, journalVars, Finished
<1>2. /\ step \in Frames /\ replay = {}
      /\ record # "prepared" => op["main"].call = "none" /\ op["main"].at = "idle"
  BY <1>1 DEF IndInv, MainCall, Stepping, Shape
<1>3. /\ op' \in Records /\ op'["worker"] = op["worker"]
      /\ op'["main"].call = "none" /\ op'["main"].at = "idle"
  BY <1>1, <1>2, TakeTo DEF IndInv, JournalTypes, Records
<1>4. main' \in Stepping \cup {"close"} /\ main \in Before /\ main \in Stepping
  BY <1>1 DEF Before, Stepping
<1>5. /\ JournalTypes' /\ WorkerCall' /\ Shape("worker")' /\ Durability' /\ DeliverInv' /\ Numbered' /\ Lifecycle' /\ Jobs'
      /\ \A f : (HasJob(f)' <=> HasJob(f)) /\ (Durable(f)' <=> Durable(f))
  BY <1>1, <1>2, <1>3, <1>4, MainTurns
<1>6. ThreadTypes'
  BY <1>1, MainTypes DEF MainPlaces, IndInv, ThreadTypes, LedgerRecord
<1>7. MainCall'
  BY <1>1, <1>2, <1>3 DEF IndInv, MainCall, Same, Stepping, Closing
<1>8. Shape("main")' /\ RecoverInv' /\ PrepareInv' /\ CommitInv'
  BY <1>1, <1>3 DEF Shape, RecoverInv, PrepareInv, CommitInv
<1>9. Account'
  BY <1>1, <1>4, <1>5, AccountStays DEF Stepping
<1> QED BY <1>5, <1>6, <1>7, <1>8, <1>9 DEF IndInv

\* A frame with a link among the delivered ones is durable there, or its job is not done.
LEMMA DeliveredOwed ==
  ASSUME IndInv, NEW f \in live["delivered"]
  PROVE  f \in disk["delivered"] \/ HasJob(f)
<1>1. CASE f \in disk["delivered"]
  BY <1>1
<1>2. CASE f \notin disk["delivered"]
  <2>1. op["worker"].call = "deliver" /\ op["worker"].frame = f
    BY <1>2 DEF IndInv, Durability
  <2> QED BY <2>1, InDelivery
<1> QED BY <1>1, <1>2

\* One more frame is handed off.
LEMMA AccountGrows ==
  ASSUME IndInv, Same, step \in Frames, ledger'.handed = ledger.handed \cup {step}, replay' = replay, step' = step,
         main \in Stepping \ {"enqueue"}, main' \in {"enqueue", "consensus"}, Durable(step),
         main' = "enqueue" \/ Owed(step) \/ step \in live["delivered"],
         \A f : (HasJob(f)' <=> HasJob(f)) /\ (Durable(f)' <=> Durable(f))
  PROVE  Account'
<1>1. UNCHANGED live /\ UNCHANGED disk /\ UNCHANGED queue
  BY DEF Same
<1>2. \A f : Owed(f) => Owed(f)'
  BY <1>1 DEF Owed, Reported
<1>3. Running
  BY DEF Running, Stepping
<1>4. Owed(step) \/ step \in disk["delivered"] \/ main' = "enqueue"
  BY DeliveredOwed DEF Owed
<1>5. \A f \in {step} : Owed(f)' \/ f \in disk["delivered"]
  <2>1. CASE main' = "enqueue"
    BY <2>1 DEF Owed
  <2>2. CASE main' # "enqueue"
    BY <1>2, <1>4, <2>2
  <2> QED BY <2>1, <2>2
<1>6. \A f \in ledger'.handed : Durable(f)'
  BY DEF IndInv, Account
<1>7. \A f \in ledger'.handed : Owed(f)' \/ f \in disk'["delivered"]
  BY <1>1, <1>2, <1>3, <1>5 DEF IndInv, Account
<1>8. \A f \in live'["pending"] :
        f > step' \/ (f = step' /\ main' \notin {"committing", "enqueue", "consensus"})
          => Owed(f)' \/ f \in live'["delivered"]
  BY <1>1, <1>2, <1>3 DEF IndInv, Account
<1> QED BY <1>6, <1>7, <1>8 DEF Account

\* A step is accepted and its frame offered, or found committed.
LEMMA FinalizeKeeps == ASSUME IndInv, Finalize PROVE IndInv'
<1> USE TwoThreads
<1>1. Same /\ UNCHANGED <<step, record, replay>> /\ main = "staged"
  BY DEF Finalize, Main, Same, Enter, journalVars
<1>2. /\ step \in Frames /\ op["main"].call = "none" /\ op["main"].at = "idle" /\ replay = {}
      /\ record \in States /\ Says(record)
  BY <1>1 DEF IndInv, MainCall, Stepping, Shape, PrepareInv
<1>3. main \in Before /\ main \in Stepping
  BY <1>1 DEF Before, Stepping
<1>4. CASE record = "prepared"
  <2>1. /\ Enter("main", "commit", step) /\ main' = "committing"
        /\ ledger' = [ledger EXCEPT !.offered = @ \cup {step}]
    BY <1>4 DEF Finalize, Goes
  <2>2. /\ op' \in Records /\ op'["worker"] = op["worker"]
        /\ op'["main"].call = "commit" /\ op'["main"].frame = step /\ op'["main"].at = "delivered?"
    BY <1>2, <2>1, EnterTo DEF IndInv, Calls
  <2>3. /\ ledger \in LedgerRecord /\ ledger' \in LedgerRecord /\ ledger'.executed = ledger.executed
        /\ ledger'.handed = ledger.handed /\ ledger'.offered = ledger.offered \cup {step}
    BY <1>2, <2>1 DEF IndInv, ThreadTypes, LedgerRecord
  <2>4. main' \in Stepping
    BY <2>1 DEF Stepping
  <2>5. /\ JournalTypes' /\ WorkerCall' /\ Shape("worker")' /\ Durability' /\ DeliverInv' /\ Numbered' /\ Lifecycle' /\ Jobs'
        /\ \A f : (HasJob(f)' <=> HasJob(f)) /\ (Durable(f)' <=> Durable(f))
    BY <1>1, <1>2, <1>3, <2>2, <2>3, <2>4, MainTurns
  <2>6. ThreadTypes'
    BY <1>1, <2>1, <2>3, MainTypes DEF MainPlaces, IndInv, ThreadTypes
  <2>7. MainCall'
    BY <1>1, <1>2, <1>4, <2>1, <2>2, <2>3 DEF IndInv, MainCall, Same, Stepping, Closing
  <2>8. Shape("main")' /\ RecoverInv' /\ PrepareInv'
    BY <2>1, <2>2 DEF Shape, RecoverInv, PrepareInv
  <2>9. CommitInv'
    <3>1. Fresh(step)'
      BY <1>1, <1>2, <1>4, <2>5 DEF Says, Fresh, Same
    <3> QED BY <2>1, <2>2, <3>1 DEF CommitInv
  <2>10. Account'
    BY <1>1, <1>3, <2>1, <2>3, <2>4, <2>5, AccountStays DEF Stepping
  <2> QED BY <2>5, <2>6, <2>7, <2>8, <2>9, <2>10 DEF IndInv
<1>5. CASE record # "prepared"
  <2>1. op' = op /\ main' = "consensus" /\ ledger' = [ledger EXCEPT !.handed = @ \cup {step}]
    BY <1>5 DEF Finalize, Goes, journalVars
  <2>2. op' \in Records
    BY <2>1 DEF IndInv, JournalTypes, Records
  <2>3. /\ ledger \in LedgerRecord /\ ledger' \in LedgerRecord /\ ledger'.executed = ledger.executed
        /\ ledger'.handed = ledger.handed \cup {step} /\ ledger'.offered = ledger.offered
    BY <1>2, <2>1 DEF IndInv, ThreadTypes, LedgerRecord
  <2>4. main' \in Stepping
    BY <2>1 DEF Stepping
  <2>5. /\ JournalTypes' /\ WorkerCall' /\ Shape("worker")' /\ Durability' /\ DeliverInv' /\ Numbered' /\ Lifecycle' /\ Jobs'
        /\ \A f : (HasJob(f)' <=> HasJob(f)) /\ (Durable(f)' <=> Durable(f))
    BY <1>1, <1>2, <1>3, <2>1, <2>2, <2>3, <2>4, MainTurns
  <2>6. ThreadTypes'
    BY <1>1, <2>1, <2>3, MainTypes DEF MainPlaces, IndInv, ThreadTypes
  <2>7. MainCall'
    BY <1>1, <1>2, <2>1, <2>3 DEF IndInv, MainCall, Same, Stepping, Closing
  <2>8. Shape("main")' /\ RecoverInv' /\ PrepareInv' /\ CommitInv'
    BY <1>2, <2>1 DEF Shape, RecoverInv, PrepareInv, CommitInv
  <2>9. Durable(step) /\ (Owed(step) \/ step \in live["delivered"])
    BY <1>2, <1>5 DEF Says, States
  <2>10. Account'
    BY <1>1, <1>2, <1>3, <2>1, <2>3, <2>5, <2>9, AccountGrows
  <2> QED BY <2>5, <2>6, <2>7, <2>8, <2>10 DEF IndInv
<1> QED BY <1>4, <1>5

\* commit has returned or raised.
LEMMA CommittedKeeps == ASSUME IndInv, Committed PROVE IndInv'
<1> USE TwoThreads
<1>1. /\ Same /\ UNCHANGED <<step, record, replay>> /\ main = "committing" /\ Take("main")
      /\ op["main"].at \in {"returned", "raised"}
      /\ ledger' = (IF Raised THEN ledger ELSE [ledger EXCEPT !.handed = @ \cup {step}])
      /\ main' = (IF ~Raised /\ op["main"].result = "pending" THEN "enqueue" ELSE "consensus")
  BY DEF Committed, Main, Goes, Same, Take, Finished
<1>2. step \in Frames /\ op["main"].call = "commit" /\ replay = {}
  BY <1>1 DEF IndInv, MainCall, Stepping
<1>3. /\ op' \in Records /\ op'["worker"] = op["worker"]
      /\ op'["main"].call = "none" /\ op'["main"].at = "idle"
  BY <1>1, TakeTo DEF IndInv
<1>4. main' \in {"enqueue", "consensus"} /\ main' \in Stepping /\ main \in Before /\ main \in Stepping
  BY <1>1 DEF Before, Stepping
<1>5. /\ ledger \in LedgerRecord /\ ledger' \in LedgerRecord /\ ledger'.executed = ledger.executed
      /\ ledger'.handed = (IF Raised THEN ledger.handed ELSE ledger.handed \cup {step})
      /\ ledger'.offered = ledger.offered
  <2>1. ledger \in LedgerRecord
    BY DEF IndInv, ThreadTypes, LedgerRecord
  <2>2. CASE Raised
    BY <1>1, <2>1, <2>2
  <2>3. CASE ~Raised
    <3>1. ledger' = [ledger EXCEPT !.handed = @ \cup {step}]
      BY <1>1, <2>3
    <3> QED BY <1>2, <2>1, <2>3, <3>1 DEF LedgerRecord
  <2> QED BY <2>2, <2>3
<1>6. /\ JournalTypes' /\ WorkerCall' /\ Shape("worker")' /\ Durability' /\ DeliverInv' /\ Numbered' /\ Lifecycle' /\ Jobs'
      /\ \A f : (HasJob(f)' <=> HasJob(f)) /\ (Durable(f)' <=> Durable(f))
  BY <1>1, <1>3, <1>4, <1>5, MainTurns
<1>7. ThreadTypes'
  BY <1>1, <1>4, <1>5, MainTypes DEF MainPlaces, IndInv, ThreadTypes
<1>8. MainCall'
  BY <1>1, <1>2, <1>3, <1>4 DEF IndInv, MainCall, Same, Stepping, Closing
<1>9. Shape("main")' /\ RecoverInv' /\ PrepareInv'
  BY <1>3, <1>4 DEF Shape, RecoverInv, PrepareInv
<1>10. ~Raised =>
         /\ op["main"].result \in {"pending", "delivered"} /\ Durable(step)
         /\ op["main"].result = "pending" => ~HasJob(step) /\ step \notin live["delivered"]
         /\ op["main"].result = "delivered" => step \in live["delivered"]
  <2>1. ~Raised => op["main"].at = "returned"
    BY <1>1 DEF Raised
  <2> QED BY <1>2, <2>1 DEF IndInv, CommitInv
<1>11. CommitInv'
  <2>1. main' = "enqueue" => Durable(step) /\ ~HasJob(step) /\ step \notin live["delivered"]
    BY <1>1, <1>10
  <2>2. main' = "enqueue" => Durable(step)' /\ ~HasJob(step)' /\ step' \notin live'["delivered"]
    BY <1>1, <1>6, <2>1 DEF Same, Durable
  <2> QED BY <1>3, <2>2 DEF CommitInv
<1>12. Account'
  <2>1. CASE Raised
    <3>1. main' = "consensus"
      BY <1>1, <2>1
    <3> QED BY <1>1, <1>4, <1>5, <1>6, <2>1, <3>1, AccountStays
  <2>2. CASE ~Raised
    <3>1. main' = "enqueue" \/ step \in live["delivered"]
      BY <1>1, <1>10, <2>2
    <3> QED BY <1>1, <1>2, <1>4, <1>5, <1>6, <1>10, <2>2, <3>1, AccountGrows
  <2> QED BY <2>1, <2>2
<1> QED BY <1>6, <1>7, <1>8, <1>9, <1>11, <1>12 DEF IndInv

\* The gate is resolved and the next step begins.
LEMMA ResolveKeeps == ASSUME IndInv, Resolve PROVE IndInv'
<1> USE TwoThreads
<1>1. /\ Same /\ UNCHANGED <<op, replay, ledger>> /\ main = "consensus" /\ record' = "none"
      /\ step' = step + 1 /\ main' = (IF step + 1 = Last THEN "close" ELSE "prepare")
  BY DEF Resolve, Main, Goes, Same, journalVars
<1>2. step \in Frames /\ op["main"].call = "none" /\ op["main"].at = "idle" /\ replay = {}
  BY <1>1 DEF IndInv, MainCall, Stepping, Shape
<1>3. /\ step' \in 1 .. Last /\ step \in Nat /\ (main' = "prepare" => step' \in Frames)
      /\ main' \in {"close", "prepare"}
  BY <1>1, <1>2, DeliveryAssumption DEF Last
<1>4. main' \in Stepping \cup {"close"} /\ main \in Before /\ main \in Stepping
  BY <1>1, <1>3 DEF Before, Stepping
<1>5. op' \in Records
  BY <1>1 DEF IndInv, JournalTypes, Records
<1>6. /\ JournalTypes' /\ WorkerCall' /\ Shape("worker")' /\ Durability' /\ DeliverInv' /\ Numbered' /\ Lifecycle' /\ Jobs'
      /\ \A f : (HasJob(f)' <=> HasJob(f)) /\ (Durable(f)' <=> Durable(f))
  BY <1>1, <1>2, <1>3, <1>4, <1>5, MainTurns
<1>7. ThreadTypes'
  BY <1>1, <1>3, MainTypes DEF MainPlaces, IndInv, ThreadTypes, LedgerRecord
<1>8. MainCall'
  BY <1>1, <1>2, <1>3 DEF IndInv, MainCall, Same, Stepping, Closing
<1>9. Shape("main")' /\ RecoverInv' /\ PrepareInv' /\ CommitInv'
  BY <1>1, <1>2, <1>3 DEF Shape, RecoverInv, PrepareInv, CommitInv
<1>10. Account'
  <2>1. UNCHANGED live /\ UNCHANGED disk /\ UNCHANGED queue
    BY <1>1 DEF Same
  <2>2. \A f : Owed(f)' <=> Owed(f)
    BY <1>1, <1>3, <1>6, <2>1 DEF Owed, Reported
  <2>3. Running
    BY <1>1 DEF Running
  <2>4. \A f \in live["pending"] : f > step' \/ f = step' => Owed(f) \/ f \in live["delivered"]
    <3>1. \A f \in live["pending"] : f \in Nat
      BY DeliveryAssumption DEF IndInv, JournalTypes, States
    <3>2. \A f \in live["pending"] : f > step' \/ f = step' => f > step
      BY <1>1, <1>3, <3>1
    <3> QED BY <2>3, <3>2 DEF IndInv, Account
  <2> QED BY <1>1, <1>6, <2>1, <2>2, <2>3, <2>4 DEF IndInv, Account
<1> QED BY <1>6, <1>7, <1>8, <1>9, <1>10 DEF IndInv

\* The submission of a job that the frame has not yet.
LEMMA JobAdded ==
  ASSUME IndInv, NEW f \in Frames, Enqueued(f, main = "enqueue"),
         main \in {"replay", "enqueue"}, main' \in {"replay", "consensus"},
         UNCHANGED <<live, disk, op, item, wpc, attempt, ledger, step, record>>,
         replay' \subseteq replay \ {f},
         Durable(f), ~HasJob(f), f \notin live["delivered"]
  PROVE  /\ JournalTypes' /\ ThreadTypes' /\ WorkerCall' /\ Shape("main")' /\ Shape("worker")' /\ Durability'
         /\ RecoverInv' /\ DeliverInv' /\ Jobs' /\ Numbered' /\ Lifecycle'
         /\ \A g : (HasJob(g)' <=> HasJob(g) \/ g = f) /\ (Durable(g)' <=> Durable(g)) /\ (Reported(g)' <=> Reported(g))
         /\ queue.closed = FALSE
<1> DEFINE e == [kind |-> "job", frame |-> f, seq |-> queue.next]
<1>1. fifo' = Append(fifo, e) /\ queue' = [queue EXCEPT !.next = @ + 1, !.pending = @ + 1]
  BY DEF Enqueued, Submit
<1>2. queue \in QueueRecord /\ fifo \in Seq(Task) /\ Len(fifo) \in Nat
  BY DEF IndInv, ThreadTypes, QueueRecord
<1>3. e \in Task /\ e.kind = "job" /\ e.frame = f /\ e.seq = queue.next
  BY <1>2 DEF Task, Kinds, QueueRecord
<1> HIDE DEF e
<1>4. /\ queue' \in QueueRecord /\ queue'.next = queue.next + 1 /\ queue'.pending = queue.pending + 1
      /\ queue'.reports = queue.reports /\ queue'.closed = queue.closed /\ queue'.closePrepared = queue.closePrepared
  <2>1. PICK q : q = queue'
    OBVIOUS
  <2>2. q = [next |-> queue.next + 1, pending |-> queue.pending + 1, reports |-> queue.reports,
             closeRequested |-> queue.closeRequested, closePrepared |-> queue.closePrepared, closed |-> queue.closed]
    BY <1>1, <1>2, <2>1 DEF QueueRecord
  <2>3. q \in QueueRecord /\ q.next = queue.next + 1 /\ q.pending = queue.pending + 1
        /\ q.reports = queue.reports /\ q.closed = queue.closed /\ q.closePrepared = queue.closePrepared
    BY ONLY <1>2, <2>2 DEF QueueRecord
  <2> QED BY <2>1, <2>3
<1>5. /\ fifo' \in Seq(Task) /\ Len(fifo') = Len(fifo) + 1
      /\ \A i \in 1 .. Len(fifo) : fifo'[i] = fifo[i]
      /\ fifo'[Len(fifo) + 1] = e
      /\ \A g : Queued(g)' <=> Queued(g) \/ f = g
  BY <1>1, <1>2, <1>3, Appended
<1>6. Working' <=> Working
  BY DEF Working
<1>7. \A g : (HasJob(g)' <=> HasJob(g) \/ g = f) /\ (Durable(g)' <=> Durable(g)) /\ (Reported(g)' <=> Reported(g))
  BY <1>4, <1>5, <1>6 DEF HasJob, Durable, Reported
<1>8. queue.closed = FALSE /\ queue.closePrepared = FALSE
  BY <1>2 DEF IndInv, Numbered, QueueRecord, Closing
<1>9. JournalTypes' /\ ThreadTypes'
  <2>1. main' \in MainPlaces /\ replay' \subseteq Frames
    BY DEF MainPlaces, IndInv, ThreadTypes
  <2> QED BY <1>4, <1>5, <2>1 DEF IndInv, JournalTypes, ThreadTypes, QueueRecord
<1>10. Shape("main")' /\ Shape("worker")' /\ RecoverInv' /\ DeliverInv'
  <2>1. Shape("main")'
    BY DEF IndInv, Shape
  <2>2. Shape("worker")'
    BY DEF IndInv, Shape
  <2>3. RecoverInv' /\ DeliverInv'
    BY DEF IndInv, RecoverInv, DeliverInv
  <2> QED BY <2>1, <2>2, <2>3
<1>11. Durability'
  BY <1>7 DEF IndInv, Durability
<1>12. /\ wpc = "get" \/ Working
       /\ \A i \in 1 .. Len(fifo) : fifo[i].kind = "job"
  BY DEF IndInv, Lifecycle, Stepping
<1>13. \A i \in 1 .. Len(fifo') : (i \in 1 .. Len(fifo) /\ fifo'[i] = fifo[i]) \/ (i = Len(fifo) + 1 /\ fifo'[i] = e)
  BY <1>2, <1>5
<1>14. WorkerCall'
  <2>1. \A i \in 1 .. Len(fifo') : fifo'[i].kind = "job" => fifo'[i].frame \in Frames
    BY <1>3, <1>13 DEF IndInv, WorkerCall
  <2>2. wpc # "unstarted"
    BY <1>12 DEF Working
  <2> QED BY <1>6, <2>1, <2>2 DEF IndInv, WorkerCall
<1>15. Lifecycle'
  BY <1>3, <1>6, <1>12, <1>13 DEF Lifecycle, Stepping
<1>16. Jobs'
  <2>1. \A g \in Frames : HasJob(g)' => Durable(g)'
    BY <1>7 DEF IndInv, Jobs
  <2>2. \A g \in Frames : Queued(g)' => g \notin live'["delivered"] /\ ~(Working' /\ item'.frame = g)
    BY <1>5, <1>6 DEF IndInv, Jobs, HasJob
  <2>3. \A i \in 1 .. Len(fifo) : fifo[i].frame # f
    BY <1>12 DEF HasJob, Queued
  <2>4. \A i \in 1 .. Len(fifo'), j \in 1 .. Len(fifo') :
          i # j /\ fifo'[i].kind = "job" /\ fifo'[j].kind = "job" => fifo'[i].frame # fifo'[j].frame
    BY <1>3, <1>13, <2>3 DEF IndInv, Jobs
  <2>5. wpc' \in {"gate", "execute"} /\ attempt' = 0 => item'.frame \notin live'["delivered"]
    BY DEF IndInv, Jobs
  <2>6. \A g \in replay' : Durable(g)' /\ ~HasJob(g)' /\ g \notin live'["delivered"]
    BY <1>7 DEF IndInv, Jobs
  <2> QED BY <2>1, <2>2, <2>4, <2>5, <2>6 DEF Jobs
<1>17. Numbered'
  <2>1. Len(queue.reports) \in Nat /\ Busy \in Nat /\ Busy' = Busy /\ queue.pending \in Nat
    BY <1>2, <1>6 DEF QueueRecord, Busy
  <2>2. /\ \A i \in 1 .. Len(fifo) : fifo[i].seq = Len(queue.reports) + Busy + i
        /\ queue.pending = Len(fifo) + Busy
    <3>1. CASE \A i \in 1 .. Len(fifo) : fifo[i].kind # "job"
      <4>1. Len(fifo) # 0 => 1 \in 1 .. Len(fifo)
        BY <1>2
      <4>2. Len(fifo) = 0
        BY <1>2, <1>12, <3>1, <4>1
      <4> QED BY <2>1, <3>1, <4>2 DEF IndInv, Numbered, Busy
    <3>2. CASE ~(\A i \in 1 .. Len(fifo) : fifo[i].kind # "job")
      BY <3>2 DEF IndInv, Numbered
    <3> QED BY <3>1, <3>2
  <2>3. queue.next = Len(queue.reports) + Len(fifo) + Busy + 1
    <3>1. queue.next = Len(queue.reports) + queue.pending + 1
      BY DEF IndInv, Numbered
    <3>2. PICK n \in Nat, l \in Nat, b \in Nat : n = Len(fifo) /\ l = Len(queue.reports) /\ b = Busy
      BY <1>2, <2>1
    <3>3. queue.pending = n + b
      BY <2>2, <3>2
    <3>4. queue.next = l + (n + b) + 1
      BY <3>1, <3>2, <3>3
    <3>5. l + (n + b) + 1 = l + n + b + 1
      BY ONLY n \in Nat, l \in Nat, b \in Nat
    <3> QED BY <3>2, <3>4, <3>5
  <2>4. \A i \in 1 .. Len(fifo') : fifo'[i].kind = "job" /\ fifo'[i].seq = Len(queue.reports) + Busy + i
    <3>1. PICK n \in Nat, l \in Nat, b \in Nat : n = Len(fifo) /\ l = Len(queue.reports) /\ b = Busy
      BY <1>2, <2>1
    <3>2. e.seq = l + b + (n + 1)
      <4>1. e.seq = l + n + b + 1
        BY <1>3, <2>3, <3>1
      <4>2. l + n + b + 1 = l + b + (n + 1)
        BY ONLY n \in Nat, l \in Nat, b \in Nat
      <4> QED BY <4>1, <4>2
    <3>3. TAKE i \in 1 .. Len(fifo')
    <3>4. CASE i \in 1 .. Len(fifo) /\ fifo'[i] = fifo[i]
      BY <1>12, <2>2, <3>4
    <3>5. CASE i = Len(fifo) + 1 /\ fifo'[i] = e
      BY <1>3, <3>1, <3>2, <3>5
    <3> QED BY <1>13, <3>4, <3>5
  <2>5. queue'.pending = Len(fifo') + Busy'
    BY <1>2, <1>4, <1>5, <2>1, <2>2
  <2>6. queue'.next = Len(queue'.reports) + queue'.pending + 1
    <3>1. queue.next = Len(queue.reports) + queue.pending + 1
      BY DEF IndInv, Numbered
    <3> QED BY ONLY <1>4, <2>1, <3>1
  <2>7. Working' => item'.seq = Len(queue'.reports) + 1
    BY <1>4, <1>6 DEF IndInv, Numbered
  <2> QED BY <1>4, <1>8, <2>1, <2>4, <2>5, <2>6, <2>7 DEF Numbered
<1> QED BY <1>7, <1>8, <1>9, <1>10, <1>11, <1>14, <1>15, <1>16, <1>17

\* A committed frame is queued.
LEMMA PrepareSubmissionKeeps == ASSUME IndInv, PrepareSubmission PROVE IndInv'
<1>1. /\ main = "enqueue" /\ main' = "consensus" /\ Enqueued(step, TRUE)
      /\ UNCHANGED <<live, disk, op, item, wpc, attempt, ledger, step, record, replay>>
  BY DEF PrepareSubmission, Main, Goes, journalVars
<1>2. /\ step \in Frames /\ replay = {} /\ op["main"].call = "none"
      /\ Durable(step) /\ ~HasJob(step) /\ step \notin live["delivered"]
  BY <1>1 DEF IndInv, MainCall, Stepping, CommitInv
<1>3. Enqueued(step, main = "enqueue")
  BY <1>1 DEF Enqueued
<1>4. /\ JournalTypes' /\ ThreadTypes' /\ WorkerCall' /\ Shape("main")' /\ Shape("worker")' /\ Durability'
      /\ RecoverInv' /\ DeliverInv' /\ Jobs' /\ Numbered' /\ Lifecycle'
      /\ \A g : (HasJob(g)' <=> HasJob(g) \/ g = step) /\ (Durable(g)' <=> Durable(g)) /\ (Reported(g)' <=> Reported(g))
  BY <1>1, <1>2, <1>3, JobAdded
<1>5. MainCall'
  BY <1>1, <1>2 DEF IndInv, MainCall, Stepping, Closing
<1>6. PrepareInv' /\ CommitInv'
  BY <1>1, <1>2 DEF PrepareInv, CommitInv
<1>7. Account'
  <2>1. \A g : Owed(g) => Owed(g)'
    BY <1>1, <1>4 DEF Owed
  <2>2. Running
    BY <1>1 DEF Running
  <2> QED BY <1>1, <1>4, <2>1, <2>2 DEF IndInv, Account
<1> QED BY <1>4, <1>5, <1>6, <1>7 DEF IndInv

\* A pending record is queued, or none is left.
LEMMA ReplayKeeps == ASSUME IndInv, Replay PROVE IndInv'
<1>1. CASE replay = {} /\ Goes(IF step = Last THEN "close" ELSE "prepare") /\ UNCHANGED <<replay, fifo, queue, gate>>
  BY <1>1, ReplayedKeeps
<1>2. CASE \E f \in replay : Enqueued(f, FALSE) /\ replay' = replay \ {f} /\ UNCHANGED main
  <2>1. PICK f \in replay : Enqueued(f, FALSE) /\ replay' = replay \ {f} /\ UNCHANGED main
    BY <1>2
  <2>2. /\ main = "replay" /\ main' = "replay"
        /\ UNCHANGED <<live, disk, op, item, wpc, attempt, ledger, step, record>>
    BY <2>1 DEF Replay, Main, journalVars
  <2>3. /\ f \in Frames /\ op["main"].call = "none"
        /\ Durable(f) /\ ~HasJob(f) /\ f \notin live["delivered"]
    BY <2>2 DEF IndInv, MainCall, ThreadTypes, Jobs
  <2>4. Enqueued(f, main = "enqueue")
    BY <2>1, <2>2 DEF Enqueued
  <2>5. /\ JournalTypes' /\ ThreadTypes' /\ WorkerCall' /\ Shape("main")' /\ Shape("worker")' /\ Durability'
        /\ RecoverInv' /\ DeliverInv' /\ Jobs' /\ Numbered' /\ Lifecycle'
        /\ \A g : (HasJob(g)' <=> HasJob(g) \/ g = f) /\ (Durable(g)' <=> Durable(g)) /\ (Reported(g)' <=> Reported(g))
    BY <2>1, <2>2, <2>3, <2>4, JobAdded
  <2>6. MainCall'
    BY <2>2, <2>3 DEF IndInv, MainCall, Stepping, Closing
  <2>7. PrepareInv' /\ CommitInv'
    BY <2>2, <2>3 DEF PrepareInv, CommitInv
  <2>8. Account'
    <3>1. \A g : Owed(g) => Owed(g)'
      BY <2>1, <2>2, <2>5 DEF Owed
    <3>2. Running
      BY <2>2 DEF Running
    <3> QED BY <2>2, <2>5, <3>1, <3>2 DEF IndInv, Account
  <2> QED BY <2>5, <2>6, <2>7, <2>8 DEF IndInv
<1> QED BY <1>1, <1>2 DEF Replay

-----------------------------------------------------------------------------
\* A step of the worker thread leaves the links and the simulation thread alone; a job
\* that it finishes is durable or reported.
LEMMA WorkerTurns ==
  ASSUME IndInv, UNCHANGED <<live, disk, main, step, record, replay>>, op' \in Records, op'["main"] = op["main"],
         ledger'.offered = ledger.offered, ledger'.handed = ledger.handed, queue'.closed = queue.closed,
         wpc \notin {"unstarted", "stopped"}, op["worker"].at # "sync",
         \A f : HasJob(f)' => HasJob(f),
         \A f : HasJob(f) => HasJob(f)' \/ Reported(f)' \/ f \in disk["delivered"],
         \A f : Reported(f) => Reported(f)'
  PROVE  JournalTypes' /\ MainCall' /\ MainView' /\ Account' /\ Durability'
<1>1. \A f : Durable(f)' <=> Durable(f)
  BY DEF Durable
<1>2. \A f : Owed(f) => Owed(f)' \/ f \in disk["delivered"]
  BY DEF Owed
<1>3. disk["delivered"] \subseteq live["delivered"]
  BY DEF IndInv, Durability
<1>4. JournalTypes'
  BY DEF IndInv, JournalTypes, Records
<1>5. MainCall'
  <2>1. main \notin {"open", "opening", "initialize", "ended"}
    BY DEF IndInv, MainCall
  <2> QED BY <2>1 DEF IndInv, MainCall
<1>6. Shape("main")' /\ RecoverInv'
  <2>1. Shape("main")'
    BY DEF IndInv, Shape
  <2>2. RecoverInv'
    BY DEF IndInv, RecoverInv
  <2> QED BY <2>1, <2>2
<1>7. /\ Durable(step)' <=> Durable(step)
      /\ Fresh(step) => Fresh(step)'
      /\ ~HasJob(step) => ~HasJob(step)'
      /\ Owed(step) => Owed(step)' \/ step \in live["delivered"]
  BY <1>1, <1>2, <1>3 DEF Fresh, Durable
<1>8. PrepareInv'
  <2>1. ASSUME NEW r, Says(r)
        PROVE  /\ r = "prepared" => Fresh(step)'
               /\ r = "pending" => Durable(step)' /\ (Owed(step)' \/ step' \in live'["delivered"])
               /\ r = "delivered" => Durable(step)' /\ step' \in live'["delivered"]
    BY <2>1, <1>7 DEF Says
  <2> QED BY <1>7, <2>1 DEF IndInv, PrepareInv, Says
<1>9. CommitInv'
  BY <1>7 DEF IndInv, CommitInv
<1>10. Durability'
  <2>1. live["delivered"] \subseteq disk["delivered"]
    BY DEF IndInv, Durability
  <2> QED BY <1>1, <2>1 DEF IndInv, Durability
<1>11. Account'
  <2>1. Running' <=> Running
    BY DEF Running
  <2>2. \A f \in ledger'.handed : Durable(f)'
    BY <1>1 DEF IndInv, Account
  <2>3. Running' => \A f \in ledger'.handed : Owed(f)' \/ f \in disk'["delivered"]
    BY <1>2, <2>1 DEF IndInv, Account
  <2>4. Running' => \A f \in live'["pending"] :
          f > step' \/ (f = step' /\ main' \notin {"committing", "enqueue", "consensus"})
            => Owed(f)' \/ f \in live'["delivered"]
    BY <1>2, <1>3, <2>1 DEF IndInv, Account
  <2> QED BY <2>2, <2>3, <2>4 DEF Account
<1> QED BY <1>4, <1>5, <1>6, <1>8, <1>9, <1>10, <1>11 DEF MainView

\* Outside its calls the worker's record is idle.
LEMMA WorkerIdle ==
  ASSUME IndInv, wpc # "acknowledge"
  PROVE  op["worker"].call = "none" /\ op["worker"].at = "idle"
  BY DEF IndInv, WorkerCall, Shape

\* The worker takes a task.
LEMMA GetKeeps == ASSUME IndInv, Get PROVE IndInv'
<1> USE TwoThreads
<1>1. /\ wpc = "get" /\ fifo # <<>> /\ item' = Head(fifo) /\ fifo' = Tail(fifo) /\ attempt' = 0
      /\ wpc' = (CASE Head(fifo).kind = "job" -> "gate"
                   [] Head(fifo).kind = "stop" -> "stopped"
                   [] OTHER -> "call")
      /\ UNCHANGED <<live, disk, op, main, step, record, replay, queue, answer, ledger>>
  BY DEF Get, journalVars
<1>2. fifo \in Seq(Task)
  BY DEF IndInv, ThreadTypes
<1>3. /\ Head(fifo) = fifo[1] /\ fifo[1] \in Task /\ 1 \in 1 .. Len(fifo)
      /\ fifo' \in Seq(Task) /\ Len(fifo) \in Nat /\ Len(fifo') = Len(fifo) - 1
      /\ \A i \in 1 .. Len(fifo') : fifo'[i] = fifo[i + 1] /\ i + 1 \in 1 .. Len(fifo)
      /\ \A f : Queued(f) <=> Queued(f)' \/ (fifo[1].kind = "job" /\ fifo[1].frame = f)
  BY <1>1, <1>2, Popped
<1>4. /\ ~Working /\ (Working' <=> fifo[1].kind = "job") /\ wpc' \in {"gate", "stopped", "call"}
      /\ fifo[1].kind = "job" => wpc' = "gate"
      /\ fifo[1].kind = "stop" => wpc' = "stopped"
      /\ fifo[1].kind \notin {"job", "stop"} => wpc' = "call"
  <2>1. fifo[1].kind = "job" => wpc' = "gate"
    BY <1>1, <1>3
  <2>2. fifo[1].kind = "stop" => wpc' = "stopped"
    BY <1>1, <1>3
  <2>3. fifo[1].kind \notin {"job", "stop"} => wpc' = "call"
    BY <1>1, <1>3
  <2> QED BY <1>1, <2>1, <2>2, <2>3 DEF Working
<1>5. \A f : HasJob(f)' <=> HasJob(f)
  BY <1>1, <1>3, <1>4 DEF HasJob
<1>6. \A f : (Reported(f)' <=> Reported(f)) /\ (Durable(f)' <=> Durable(f))
  BY <1>1 DEF Reported, Durable
<1>7. op["worker"].call = "none" /\ op["worker"].at = "idle" /\ op \in Records
  BY <1>1, WorkerIdle DEF IndInv, JournalTypes, Records
<1>8. JournalTypes' /\ MainCall' /\ MainView' /\ Account' /\ Durability'
  BY <1>1, <1>5, <1>6, <1>7, WorkerTurns
<1>9. ThreadTypes'
  <2>1. item' \in [kind : Kinds \cup {"none"}, frame : Frames \cup {0}, seq : Nat] /\ wpc' \in WorkerPlaces
    BY <1>1, <1>3, <1>4 DEF Task, WorkerPlaces
  <2> QED BY <1>1, <1>3, <2>1 DEF IndInv, ThreadTypes
<1>10. Shape("worker")' /\ DeliverInv'
  BY <1>1, <1>4, <1>7 DEF Shape, DeliverInv
<1>11. WorkerCall'
  <2>1. \A i \in 1 .. Len(fifo') : fifo'[i].kind = "job" => fifo'[i].frame \in Frames
    BY <1>3 DEF IndInv, WorkerCall
  <2>2. fifo[1].kind = "job" => fifo[1].frame \in Frames
    BY <1>3 DEF IndInv, WorkerCall
  <2> QED BY <1>1, <1>3, <1>4, <1>7, <2>1, <2>2 DEF WorkerCall
<1>12. Jobs'
  <2>1. \A f \in Frames : HasJob(f)' => Durable(f)'
    BY <1>5, <1>6 DEF IndInv, Jobs
  <2>2. \A i \in 1 .. Len(fifo'), j \in 1 .. Len(fifo') :
          i # j /\ fifo'[i].kind = "job" /\ fifo'[j].kind = "job" => fifo'[i].frame # fifo'[j].frame
    <3>1. \A i \in 1 .. Len(fifo'), j \in 1 .. Len(fifo') : i # j => i + 1 # j + 1
      OBVIOUS
    <3> QED BY <1>3, <3>1 DEF IndInv, Jobs
  <2>3. ASSUME NEW f \in Frames, Queued(f)'
        PROVE  f \notin live'["delivered"] /\ ~(Working' /\ item'.frame = f)
    <3>1. Queued(f)
      BY <1>3, <2>3
    <3>2. PICK i \in 1 .. Len(fifo') : fifo'[i].kind = "job" /\ fifo'[i].frame = f
      BY <2>3 DEF Queued
    <3>3. i + 1 \in 1 .. Len(fifo) /\ i + 1 # 1 /\ fifo'[i] = fifo[i + 1]
      BY <1>3, <3>2
    <3>4. fifo[1].kind = "job" => fifo[1].frame # f
      BY <1>3, <3>2, <3>3 DEF IndInv, Jobs
    <3> QED BY <1>1, <1>3, <1>4, <3>1, <3>4 DEF IndInv, Jobs
  <2>4. wpc' \in {"gate", "execute"} => item'.frame \notin live'["delivered"]
    <3>1. SUFFICES ASSUME wpc' = "gate" PROVE item'.frame \notin live'["delivered"]
      BY <1>4
    <3>2. fifo[1].kind = "job" /\ item' = fifo[1]
      BY <1>1, <1>3, <1>4, <3>1
    <3>3. Queued(fifo[1].frame) /\ fifo[1].frame \in Frames
      BY <1>3, <3>2 DEF IndInv, WorkerCall
    <3> QED BY <1>1, <3>2, <3>3 DEF IndInv, Jobs
  <2>5. \A f \in replay' : Durable(f)' /\ ~HasJob(f)' /\ f \notin live'["delivered"]
    BY <1>1, <1>5, <1>6 DEF IndInv, Jobs
  <2> QED BY <2>1, <2>2, <2>3, <2>4, <2>5 DEF Jobs
<1>13. Lifecycle'
  <2>1. CASE fifo[1].kind = "job"
    <3>1. main \notin {"initializing", "finalizing", "aborting", "abort", "stop", "retained", "join"}
      BY <1>1, <2>1 DEF IndInv, Lifecycle
    <3> QED BY <1>1, <1>3, <1>4, <2>1, <3>1 DEF IndInv, Lifecycle
  <2>2. CASE fifo[1].kind # "job"
    <3>1. main \notin {"replay", "close", "drain"} \cup Stepping
      BY <1>3, <2>2 DEF IndInv, Lifecycle
    <3>2. CASE main \in {"initializing", "finalizing", "aborting"}
      <4>1. Len(fifo) = 1 /\ fifo[1].kind \in {"initialize", "finalize", "abort"} /\ answer = "none"
        BY <1>1, <3>2 DEF IndInv, Lifecycle
      <4>2. fifo' = <<>> /\ wpc' = "call"
        BY <1>3, <1>4, <4>1
      <4> QED BY <1>1, <3>1, <3>2, <4>1, <4>2 DEF Lifecycle
    <3>3. CASE main = "join"
      <4>1. fifo[1].kind = "stop"
        BY <1>1, <3>3 DEF IndInv, Lifecycle
      <4> QED BY <1>1, <1>4, <3>1, <3>3, <4>1 DEF Lifecycle
    <3>4. CASE main \notin {"initializing", "finalizing", "aborting", "join"}
      <4>1. main \notin {"abort", "stop", "retained"}
        BY <1>1 DEF IndInv, Lifecycle
      <4> QED BY <1>1, <3>1, <3>4, <4>1 DEF Lifecycle
    <3> QED BY <3>2, <3>3, <3>4
  <2> QED BY <2>1, <2>2
<1>14. Numbered'
  <2>1. Len(queue.reports) \in Nat /\ queue.pending \in Nat
    BY DEF IndInv, ThreadTypes
  <2>2. PICK n \in Nat, l \in Nat : n = Len(fifo) /\ l = Len(queue.reports)
    BY <1>3, <2>1
  <2>3. /\ queue.next = Len(queue.reports) + queue.pending + 1
        /\ queue.closePrepared => queue.pending = 0 /\ main \in Closing \cup {"stop", "join", "ended", "retained"}
        /\ queue.closed => queue.pending = 0 /\ replay = {} /\ main \in {"stop", "join", "ended"}
    BY DEF IndInv, Numbered
  <2>4. CASE fifo[1].kind = "job"
    <3>1. /\ \A i \in 1 .. n : fifo[i].kind = "job" /\ fifo[i].seq = l + i
          /\ queue.pending = n
      <4>1. Busy = 0
        BY <1>4 DEF Busy
      <4>2. /\ \A i \in 1 .. Len(fifo) : fifo[i].kind = "job" /\ fifo[i].seq = Len(queue.reports) + Busy + i
            /\ queue.pending = Len(fifo) + Busy
        BY <1>3, <2>4 DEF IndInv, Numbered
      <4> QED BY <2>2, <4>1, <4>2
    <3>2. Busy' = 1 /\ item'.seq = l + 1
      BY <1>1, <1>3, <1>4, <2>2, <2>4, <3>1 DEF Busy
    <3>3. \A i \in 1 .. Len(fifo') : fifo'[i].kind = "job" /\ fifo'[i].seq = l + 1 + i
      <4>1. TAKE i \in 1 .. Len(fifo')
      <4>2. fifo'[i] = fifo[i + 1] /\ i + 1 \in 1 .. n
        BY <1>3, <2>2
      <4> QED BY <2>2, <3>1, <4>2
    <3>4. queue.pending = Len(fifo') + 1
      BY <1>3, <2>2, <3>1
    <3> QED BY <1>1, <2>2, <2>3, <3>2, <3>3, <3>4 DEF Numbered
  <2>5. CASE fifo[1].kind # "job"
    <3>1. (\A i \in 1 .. Len(fifo) : fifo[i].kind # "job") /\ queue.pending = 0
      BY <1>3, <2>5 DEF IndInv, Numbered
    <3>2. \A i \in 1 .. Len(fifo') : fifo'[i].kind # "job"
      BY <1>3, <3>1
    <3> QED BY <1>1, <1>4, <2>3, <2>5, <3>1, <3>2 DEF Numbered
  <2> QED BY <2>4, <2>5
<1> QED BY <1>8, <1>9, <1>10, <1>11, <1>12, <1>13, <1>14 DEF IndInv, MainView

\* The worker calls the provider.
LEMMA CallKeeps == ASSUME IndInv, Call PROVE IndInv'
<1> USE TwoThreads
<1>1. /\ wpc = "call" /\ wpc' = "get" /\ answer' \in {"ok", "failed"} /\ item' = NoTask
      /\ UNCHANGED <<live, disk, op, main, step, record, replay, fifo, queue, attempt, ledger>>
  BY DEF Call, journalVars
<1>2. ~Working /\ ~Working'
  BY <1>1 DEF Working
<1>3. \A f : (HasJob(f)' <=> HasJob(f)) /\ (Queued(f)' <=> Queued(f))
  BY <1>1, <1>2 DEF HasJob, Queued
<1>4. \A f : (Reported(f)' <=> Reported(f)) /\ (Durable(f)' <=> Durable(f))
  BY <1>1 DEF Reported, Durable
<1>5. op["worker"].call = "none" /\ op["worker"].at = "idle" /\ op \in Records
  BY <1>1, WorkerIdle DEF IndInv, JournalTypes, Records
<1>6. JournalTypes' /\ MainCall' /\ MainView' /\ Account' /\ Durability'
  BY <1>1, <1>3, <1>4, <1>5, WorkerTurns
<1>7. ThreadTypes'
  <2>1. item' \in [kind : Kinds \cup {"none"}, frame : Frames \cup {0}, seq : Nat] /\ wpc' \in WorkerPlaces
    BY <1>1 DEF NoTask, Kinds, WorkerPlaces
  <2> QED BY <1>1, <2>1 DEF IndInv, ThreadTypes
<1>8. Shape("worker")' /\ DeliverInv'
  BY <1>1, <1>5 DEF Shape, DeliverInv
<1>9. WorkerCall'
  BY <1>1, <1>2, <1>5 DEF IndInv, WorkerCall
<1>10. Jobs'
  BY <1>1, <1>2, <1>3, <1>4 DEF IndInv, Jobs
<1>11. Lifecycle'
  BY <1>1, <1>2 DEF IndInv, Lifecycle
<1>12. Numbered'
  BY <1>1, <1>2 DEF IndInv, Numbered, Busy
<1> QED BY <1>6, <1>7, <1>8, <1>9, <1>10, <1>11, <1>12 DEF IndInv, MainView

\* A step of the worker on the job it has in hand.
LEMMA JobGoesOn ==
  ASSUME IndInv, Working, Working', UNCHANGED <<live, disk, main, step, record, replay, fifo, queue, item, answer>>,
         attempt' \in Nat, ledger' \in LedgerRecord, ledger'.offered = ledger.offered, ledger'.handed = ledger.handed,
         wpc' \in WorkerPlaces, op' \in Records, op'["main"] = op["main"], op["worker"].at # "sync"
  PROVE  /\ JournalTypes' /\ ThreadTypes' /\ MainCall' /\ MainView' /\ Account' /\ Durability' /\ Lifecycle' /\ Numbered'
         /\ (wpc' \in {"gate", "execute"} /\ attempt' = 0 => item.frame \notin live["delivered"]) => Jobs'
<1>1. \A f : (HasJob(f)' <=> HasJob(f)) /\ (Queued(f)' <=> Queued(f))
  BY DEF HasJob, Queued
<1>2. \A f : (Reported(f)' <=> Reported(f)) /\ (Durable(f)' <=> Durable(f))
  BY DEF Reported, Durable
<1>3. wpc \notin {"unstarted", "stopped"}
  BY DEF Working
<1>4. JournalTypes' /\ MainCall' /\ MainView' /\ Account' /\ Durability'
  BY <1>1, <1>2, <1>3, WorkerTurns
<1>5. ThreadTypes'
  BY DEF IndInv, ThreadTypes, LedgerRecord
<1>6. Lifecycle'
  <2>1. wpc # "get" /\ wpc # "call" /\ wpc # "stopped"
    BY DEF Working
  <2> QED BY <2>1 DEF IndInv, Lifecycle
<1>7. Numbered'
  BY DEF IndInv, Numbered, Busy
<1>8. ASSUME wpc' \in {"gate", "execute"} /\ attempt' = 0 => item.frame \notin live["delivered"]
      PROVE  Jobs'
  BY <1>1, <1>2, <1>8 DEF IndInv, Jobs
<1> QED BY <1>4, <1>5, <1>6, <1>7, <1>8

\* A submission was resolved.
LEMMA PassGateKeeps == ASSUME IndInv, PassGate PROVE IndInv'
<1> USE TwoThreads
<1>1. /\ wpc = "gate" /\ wpc' \in {"record skipped", "execute"}
      /\ UNCHANGED <<live, disk, op, main, step, record, replay, fifo, queue, item, answer, attempt, ledger>>
  BY DEF PassGate, journalVars
<1>2. Working /\ Working' /\ wpc' \in WorkerPlaces
  BY <1>1 DEF Working, WorkerPlaces
<1>3. op["worker"].call = "none" /\ op["worker"].at = "idle" /\ op \in Records
  BY <1>1, WorkerIdle DEF IndInv, JournalTypes, Records
<1>4. attempt \in Nat /\ ledger \in LedgerRecord /\ (attempt = 0 => item.frame \notin live["delivered"])
  BY <1>1 DEF IndInv, ThreadTypes, LedgerRecord, Jobs
<1>5. /\ JournalTypes' /\ ThreadTypes' /\ MainCall' /\ MainView' /\ Account' /\ Durability' /\ Lifecycle' /\ Numbered'
      /\ Jobs'
  BY <1>1, <1>2, <1>3, <1>4, JobGoesOn
<1>6. Shape("worker")' /\ DeliverInv'
  BY <1>1, <1>3 DEF Shape, DeliverInv
<1>7. WorkerCall'
  BY <1>1, <1>2, <1>3 DEF IndInv, WorkerCall
<1> QED BY <1>5, <1>6, <1>7 DEF IndInv, MainView

\* The provider executes a frame.
LEMMA ExecuteKeeps == ASSUME IndInv, Execute PROVE IndInv'
<1> USE TwoThreads
<1>1. /\ wpc = "execute" /\ attempt' = attempt + 1
      /\ UNCHANGED <<main, step, record, replay, fifo, queue, item, answer>>
  BY DEF Execute
<1>2. Working /\ item.frame \in Frames
  BY <1>1 DEF Working, IndInv, WorkerCall
<1>3. op["worker"].call = "none" /\ op["worker"].at = "idle" /\ op \in Records /\ JournalTypes
  BY <1>1, WorkerIdle DEF IndInv, JournalTypes, Records
<1>4. attempt \in Nat /\ attempt + 1 \in Nat /\ attempt + 1 # 0 /\ attempt + 1 > 0 /\ ledger \in LedgerRecord
  BY DEF IndInv, ThreadTypes, LedgerRecord
<1>5. CASE /\ Enter("worker", "deliver", item.frame) /\ wpc' = "acknowledge"
           /\ ledger' = [ledger EXCEPT !.entered = @ \cup {item.frame}, !.executed = @ \cup {item.frame}]
  <2>1. /\ op' \in Records /\ op'["worker"].call = "deliver" /\ op'["worker"].frame = item.frame
        /\ op'["worker"].at = "delivered?" /\ op'["main"] = op["main"]
        /\ UNCHANGED <<live, disk>>
    BY <1>2, <1>3, <1>5, EnterTo DEF Calls
  <2>2. /\ ledger' \in LedgerRecord /\ ledger'.offered = ledger.offered /\ ledger'.handed = ledger.handed
        /\ ledger'.executed = ledger.executed \cup {item.frame}
    <3>1. PICK g : g = ledger'
      OBVIOUS
    <3>2. g = [handed |-> ledger.handed, offered |-> ledger.offered, entered |-> ledger.entered \cup {item.frame},
               executed |-> ledger.executed \cup {item.frame}, processes |-> ledger.processes,
               withdrawals |-> ledger.withdrawals, faults |-> ledger.faults, exposed |-> ledger.exposed]
      BY <1>4, <1>5, <3>1 DEF LedgerRecord
    <3>3. /\ g \in LedgerRecord /\ g.offered = ledger.offered /\ g.handed = ledger.handed
          /\ g.executed = ledger.executed \cup {item.frame}
      BY ONLY <1>2, <1>4, <3>2 DEF LedgerRecord
    <3> QED BY <3>1, <3>3
  <2>3. Working' /\ wpc' \in WorkerPlaces
    BY <1>5 DEF Working, WorkerPlaces
  <2>4. /\ JournalTypes' /\ ThreadTypes' /\ MainCall' /\ MainView' /\ Account' /\ Durability' /\ Lifecycle' /\ Numbered'
        /\ Jobs'
    BY <1>1, <1>2, <1>3, <1>4, <2>1, <2>2, <2>3, JobGoesOn
  <2>5. Shape("worker")' /\ DeliverInv'
    BY <1>5, <2>1 DEF Shape, DeliverInv
  <2>6. WorkerCall'
    BY <1>1, <1>2, <1>4, <1>5, <2>1, <2>2, <2>3 DEF IndInv, WorkerCall
  <2> QED BY <2>4, <2>5, <2>6 DEF IndInv, MainView
<1>6. CASE /\ ledger' = [ledger EXCEPT !.entered = @ \cup {item.frame}]
           /\ wpc' = IF attempt + 1 < MaxAttempts THEN "execute" ELSE "record skipped"
           /\ UNCHANGED journalVars
  <2>1. UNCHANGED <<live, disk, op>> /\ wpc' \in {"execute", "record skipped"}
    BY <1>6 DEF journalVars
  <2>2. /\ ledger' \in LedgerRecord /\ ledger'.offered = ledger.offered /\ ledger'.handed = ledger.handed
        /\ ledger'.executed = ledger.executed
    <3>1. ledger' = [ledger EXCEPT !.entered = @ \cup {item.frame}]
      BY <1>6
    <3> QED BY ONLY <1>2, <1>4, <3>1 DEF LedgerRecord
  <2>3. Working' /\ wpc' \in WorkerPlaces
    BY <2>1 DEF Working, WorkerPlaces
  <2>4. /\ JournalTypes' /\ ThreadTypes' /\ MainCall' /\ MainView' /\ Account' /\ Durability' /\ Lifecycle' /\ Numbered'
        /\ Jobs'
    BY <1>1, <1>2, <1>3, <1>4, <2>1, <2>2, <2>3, JobGoesOn
  <2>5. Shape("worker")' /\ DeliverInv'
    BY <1>3, <2>1 DEF Shape, DeliverInv
  <2>6. WorkerCall'
    BY <1>1, <1>2, <1>3, <2>1, <2>2, <2>3 DEF IndInv, WorkerCall
  <2> QED BY <2>4, <2>5, <2>6 DEF IndInv, MainView
<1> QED BY <1>5, <1>6 DEF Execute

\* delivered has returned or raised.
LEMMA AcknowledgeKeeps == ASSUME IndInv, Acknowledge PROVE IndInv'
<1> USE TwoThreads
<1>1. /\ wpc = "acknowledge" /\ op["worker"].at \in {"returned", "raised"} /\ Take("worker")
      /\ wpc' = (CASE op["worker"].at = "returned" -> "record delivered"
                   [] op["worker"].at = "raised" /\ attempt < MaxAttempts -> "execute"
                   [] OTHER -> "record skipped")
      /\ UNCHANGED <<main, step, record, replay, fifo, queue, item, answer, attempt, ledger>>
  BY DEF Acknowledge
<1>2. /\ Working /\ item.frame \in Frames /\ attempt \in Nat /\ attempt > 0 /\ ledger \in LedgerRecord
      /\ op["worker"].call = "deliver" /\ op["worker"].frame = item.frame /\ JournalTypes
  BY <1>1 DEF Working, IndInv, WorkerCall, ThreadTypes, LedgerRecord
<1>3. /\ op' \in Records /\ op'["worker"].call = "none" /\ op'["worker"].at = "idle"
      /\ op'["main"] = op["main"] /\ UNCHANGED <<live, disk>>
  BY <1>1, <1>2, TakeTo
<1>4. /\ wpc' \in {"record delivered", "execute", "record skipped"}
      /\ wpc' = "record delivered" => op["worker"].at = "returned"
  BY <1>1
<1>5. Working' /\ wpc' \in WorkerPlaces
  BY <1>4 DEF Working, WorkerPlaces
<1>6. /\ JournalTypes' /\ ThreadTypes' /\ MainCall' /\ MainView' /\ Account' /\ Durability' /\ Lifecycle' /\ Numbered'
      /\ Jobs'
  <2>1. attempt' \in Nat /\ attempt' # 0 /\ op["worker"].at # "sync" /\ ledger' = ledger
    <3>1. attempt' = attempt /\ op["worker"].at # "sync" /\ ledger' = ledger
      BY <1>1
    <3>2. attempt \in Nat /\ attempt # 0
      BY <1>2
    <3> QED BY ONLY <3>1, <3>2
  <2>2. wpc' \in {"gate", "execute"} /\ attempt' = 0 => item.frame \notin live["delivered"]
    BY <2>1
  <2> QED BY <1>1, <1>2, <1>3, <1>5, <2>1, <2>2, JobGoesOn
<1>7. Shape("worker")'
  BY <1>3 DEF Shape
<1>8. DeliverInv'
  <2>1. wpc' = "record delivered" => item.frame \in disk["delivered"]
    BY <1>2, <1>4 DEF IndInv, DeliverInv
  <2> QED BY <1>1, <1>3, <2>1 DEF DeliverInv
<1>9. WorkerCall'
  BY <1>1, <1>2, <1>3, <1>4, <1>5 DEF IndInv, WorkerCall
<1> QED BY <1>6, <1>7, <1>8, <1>9 DEF IndInv, MainView

\* Appending to a sequence.
LEMMA Longer ==
  ASSUME NEW S, NEW s \in Seq(S), NEW e \in S
  PROVE  /\ Append(s, e) \in Seq(S) /\ Len(Append(s, e)) = Len(s) + 1
         /\ \A i \in 1 .. Len(s) : Append(s, e)[i] = s[i]
         /\ Append(s, e)[Len(s) + 1] = e
  OBVIOUS

\* A job is reported.
LEMMA RecordKeeps == ASSUME IndInv, Record PROVE IndInv'
<1> USE TwoThreads
<1> DEFINE r == [seq |-> item.seq, frame |-> item.frame,
                 status |-> IF wpc = "record skipped" THEN "skipped" ELSE "delivered"]
<1>1. /\ wpc \in {"record delivered", "record skipped"} /\ item' = NoTask /\ wpc' = "get" /\ attempt' = 0
      /\ queue' = [queue EXCEPT !.pending = @ - 1, !.reports = Append(@, r)]
      /\ UNCHANGED <<live, disk, op, main, step, record, replay, fifo, answer, ledger>>
  BY DEF Record, journalVars
<1>2. /\ Working /\ ~Working' /\ item.frame \in Frames /\ item.seq = Len(queue.reports) + 1
      /\ queue \in QueueRecord /\ fifo \in Seq(Task) /\ Len(fifo) \in Nat /\ item.seq \in Nat
      /\ Len(queue.reports) \in Nat /\ queue.pending \in Nat
  <2>1. Working /\ ~Working'
    BY <1>1 DEF Working
  <2>2. item.frame \in Frames
    BY <2>1 DEF IndInv, WorkerCall
  <2>3. item.seq = Len(queue.reports) + 1
    BY <2>1 DEF IndInv, Numbered
  <2>4. queue \in QueueRecord /\ fifo \in Seq(Task) /\ item.seq \in Nat
    BY DEF IndInv, ThreadTypes, QueueRecord
  <2>5. Len(fifo) \in Nat
    BY <2>4
  <2>6. queue.reports \in Seq(Filed) /\ queue.pending \in Nat
    BY <2>4 DEF QueueRecord
  <2>7. Len(queue.reports) \in Nat
    BY <2>6
  <2> QED BY <2>1, <2>2, <2>3, <2>4, <2>5, <2>6, <2>7
<1>3. /\ r \in Filed /\ r.seq = item.seq /\ r.frame = item.frame
      /\ wpc = "record skipped" => r.status = "skipped"
  BY <1>2 DEF Filed
<1> HIDE DEF r
<1>4. /\ \A i \in 1 .. Len(fifo) : fifo[i].kind = "job" /\ fifo[i].seq = Len(queue.reports) + 1 + i
      /\ queue.pending = Len(fifo) + 1
      /\ queue.next = Len(queue.reports) + queue.pending + 1
      /\ queue.closePrepared = FALSE /\ queue.closed = FALSE
  <2>1. Busy = 1
    BY <1>2 DEF Busy
  <2>2. /\ \A i \in 1 .. Len(fifo) : fifo[i].kind = "job" /\ fifo[i].seq = Len(queue.reports) + Busy + i
        /\ queue.pending = Len(fifo) + Busy
        /\ queue.next = Len(queue.reports) + queue.pending + 1
        /\ queue.closePrepared => queue.pending = 0
        /\ queue.closed => queue.pending = 0
    BY <1>2 DEF IndInv, Numbered
  <2>3. queue.pending # 0
    BY <1>2, <2>1, <2>2
  <2>4. queue.closePrepared \in BOOLEAN /\ queue.closed \in BOOLEAN
    BY <1>2 DEF QueueRecord
  <2> QED BY <2>1, <2>2, <2>3, <2>4
<1>5. /\ queue' \in QueueRecord /\ queue'.next = queue.next /\ queue'.pending = queue.pending - 1
      /\ queue'.reports = Append(queue.reports, r)
      /\ queue'.closePrepared = queue.closePrepared /\ queue'.closed = queue.closed
  <2>1. PICK q : q = queue'
    OBVIOUS
  <2>0. PICK s : s = Append(queue.reports, r)
    OBVIOUS
  <2>2. q = [next |-> queue.next, pending |-> queue.pending - 1, reports |-> s,
             closeRequested |-> queue.closeRequested, closePrepared |-> queue.closePrepared, closed |-> queue.closed]
    <3>1. q = [queue EXCEPT !.pending = queue.pending - 1, !.reports = s]
      BY <1>1, <2>0, <2>1
    <3> QED BY ONLY <1>2, <3>1 DEF QueueRecord
  <2>3. queue.pending - 1 \in Nat /\ Append(queue.reports, r) \in Seq(Filed)
    <3>1. queue.pending - 1 \in Nat
      BY <1>2, <1>4
    <3>2. queue.reports \in Seq(Filed)
      BY <1>2 DEF QueueRecord
    <3> QED BY <1>3, <3>1, <3>2, Longer
  <2>4. /\ q \in QueueRecord /\ q.next = queue.next /\ q.pending = queue.pending - 1
        /\ q.reports = s
        /\ q.closePrepared = queue.closePrepared /\ q.closed = queue.closed
    BY ONLY <1>2, <2>0, <2>2, <2>3 DEF QueueRecord
  <2> QED BY <2>0, <2>1, <2>4
<1>6. /\ Len(queue'.reports) = Len(queue.reports) + 1
      /\ \A i \in 1 .. Len(queue.reports) : queue'.reports[i] = queue.reports[i]
      /\ queue'.reports[Len(queue.reports) + 1] = r
  <2>1. queue.reports \in Seq(Filed)
    BY <1>2 DEF QueueRecord
  <2>2. PICK s, l : s = queue.reports /\ l = queue'.reports
    OBVIOUS
  <2>3. s \in Seq(Filed) /\ l = Append(s, r)
    BY <1>5, <2>1, <2>2
  <2>4. Len(l) = Len(s) + 1 /\ (\A i \in 1 .. Len(s) : l[i] = s[i]) /\ l[Len(s) + 1] = r
    <3>1. r \in Filed
      BY <1>3
    <3>2. /\ Len(Append(s, r)) = Len(s) + 1 /\ (\A i \in 1 .. Len(s) : Append(s, r)[i] = s[i])
          /\ Append(s, r)[Len(s) + 1] = r
      BY <2>3, <3>1, Longer
    <3> QED BY ONLY <2>3, <3>2
  <2> QED BY <2>2, <2>4
<1>7. \A f : (Queued(f)' <=> Queued(f)) /\ (Durable(f)' <=> Durable(f))
  BY <1>1 DEF Queued, Durable
<1>8. \A f : HasJob(f)' <=> Queued(f)
  BY <1>2, <1>7 DEF HasJob
<1>9. \A f : Reported(f) => Reported(f)'
  <2>1. TAKE f
  <2>2. HAVE Reported(f)
  <2>3. PICK i \in 1 .. Len(queue.reports) :
          queue.reports[i].seq = i /\ queue.reports[i].frame = f /\ queue.reports[i].status = "skipped"
    BY <2>2 DEF Reported
  <2>4. i \in 1 .. Len(queue'.reports) /\ queue'.reports[i] = queue.reports[i]
    BY <1>2, <1>6, <2>3
  <2> QED BY <2>3, <2>4 DEF Reported
<1>11. \A f : f = item.frame => Reported(f)' \/ f \in disk["delivered"]
  <2>1. TAKE f
  <2>2. HAVE f = item.frame
  <2>3. CASE wpc = "record delivered"
    BY <2>2, <2>3 DEF IndInv, DeliverInv
  <2>4. CASE wpc = "record skipped"
    <3>1. Len(queue.reports) + 1 \in 1 .. Len(queue'.reports)
      BY <1>2, <1>6
    <3>2. r.seq = Len(queue.reports) + 1 /\ r.frame = f /\ r.status = "skipped"
      BY <1>2, <1>3, <2>2, <2>4
    <3> QED BY <1>6, <3>1, <3>2 DEF Reported
  <2> QED BY <1>1, <2>3, <2>4
<1>12. \A f : HasJob(f) => HasJob(f)' \/ Reported(f)' \/ f \in disk["delivered"]
  BY <1>8, <1>11 DEF HasJob
<1>13. \A f : HasJob(f)' => HasJob(f)
  BY <1>8 DEF HasJob
<1>14. op["worker"].call = "none" /\ op["worker"].at = "idle" /\ op \in Records
  BY <1>1, WorkerIdle DEF IndInv, JournalTypes, Records
<1>15. JournalTypes' /\ MainCall' /\ MainView' /\ Account' /\ Durability'
  BY <1>1, <1>5, <1>9, <1>12, <1>13, <1>14, WorkerTurns
<1>16. ThreadTypes'
  <2>1. item' \in [kind : Kinds \cup {"none"}, frame : Frames \cup {0}, seq : Nat] /\ wpc' \in WorkerPlaces /\ attempt' \in Nat
    BY <1>1 DEF NoTask, Kinds, WorkerPlaces
  <2> QED BY <1>1, <1>5, <2>1 DEF IndInv, ThreadTypes, QueueRecord
<1>17. Shape("worker")' /\ DeliverInv'
  BY <1>1, <1>14 DEF Shape, DeliverInv
<1>18. WorkerCall'
  BY <1>1, <1>2, <1>14 DEF IndInv, WorkerCall
<1>19. Jobs'
  <2>1. \A f \in Frames : HasJob(f)' => Durable(f)'
    BY <1>7, <1>13 DEF IndInv, Jobs
  <2>2. \A f \in Frames : Queued(f)' => f \notin live'["delivered"] /\ ~(Working' /\ item'.frame = f)
    BY <1>1, <1>2, <1>7 DEF IndInv, Jobs
  <2>3. \A i \in 1 .. Len(fifo'), j \in 1 .. Len(fifo') :
          i # j /\ fifo'[i].kind = "job" /\ fifo'[j].kind = "job" => fifo'[i].frame # fifo'[j].frame
    <3>1. fifo' = fifo
      BY <1>1
    <3>2. \A i \in 1 .. Len(fifo), j \in 1 .. Len(fifo) :
            i # j /\ fifo[i].kind = "job" /\ fifo[j].kind = "job" => fifo[i].frame # fifo[j].frame
      BY DEF IndInv, Jobs
    <3> QED BY ONLY <3>1, <3>2
  <2>4. wpc' \notin {"gate", "execute"}
    BY <1>1
  <2>5. \A f \in replay' : Durable(f)' /\ ~HasJob(f)' /\ f \notin live'["delivered"]
    BY <1>1, <1>7, <1>13 DEF IndInv, Jobs
  <2> QED BY <2>1, <2>2, <2>3, <2>4, <2>5 DEF Jobs
<1>20. Lifecycle'
  <2>1. wpc # "get" /\ wpc # "call" /\ wpc # "stopped"
    BY <1>1
  <2> QED BY <1>1, <2>1 DEF IndInv, Lifecycle
<1>21. Numbered'
  <2>1. PICK n \in Nat, l \in Nat : n = Len(fifo) /\ l = Len(queue.reports)
    BY <1>2
  <2>2. Busy' = 0 /\ Len(queue'.reports) = l + 1 /\ queue'.pending = n
    BY <1>2, <1>4, <1>5, <1>6, <2>1 DEF Busy
  <2>3. \A i \in 1 .. n : fifo[i].kind = "job" /\ fifo[i].seq = l + 1 + 0 + i
    BY <1>4, <2>1
  <2>4. queue'.next = l + 1 + n + 1
    <3>1. queue'.next = l + (n + 1) + 1
      BY <1>4, <1>5, <2>1
    <3>2. l + (n + 1) + 1 = l + 1 + n + 1
      BY ONLY n \in Nat, l \in Nat
    <3> QED BY <3>1, <3>2
  <2>5. queue'.next = Len(queue'.reports) + queue'.pending + 1
    BY <2>2, <2>4
  <2>6. \A i \in 1 .. Len(fifo') : fifo'[i].kind = "job" /\ fifo'[i].seq = Len(queue'.reports) + Busy' + i
    <3>1. fifo' = fifo /\ Len(fifo) = n /\ Len(queue'.reports) = l + 1 /\ Busy' = 0
      BY <1>1, <2>1, <2>2
    <3> QED BY ONLY <3>1, <2>3
  <2>7. queue'.pending = Len(fifo') + Busy'
    <3>1. fifo' = fifo /\ Len(fifo) = n /\ queue'.pending = n /\ Busy' = 0
      BY <1>1, <2>1, <2>2
    <3> QED BY ONLY <3>1, n \in Nat
  <2>8. queue'.closePrepared = FALSE /\ queue'.closed = FALSE
    BY <1>4, <1>5
  <2> QED BY <1>2, <2>5, <2>6, <2>7, <2>8 DEF Numbered
<1> QED BY <1>15, <1>16, <1>17, <1>18, <1>19, <1>20, <1>21 DEF IndInv, MainView

-----------------------------------------------------------------------------
\* What a process finds that starts: nothing of the threads of the one before, and
\* every link that was certain to survive.
LEMMA LinksSurvive ==
  ASSUME IndInv, MachineCrash \/ (~Undurable /\ ProcessCrash)
  PROVE  /\ live' \in [States -> SUBSET Frames] /\ disk' \in [States -> SUBSET Frames]
         /\ live'["pending"] \subseteq disk'["pending"]
         /\ live'["delivered"] \subseteq disk'["delivered"] /\ disk'["delivered"] \subseteq live'["delivered"]
         /\ disk'["pending"] \subseteq live'["pending"] \cup disk'["delivered"]
         /\ \A f : Durable(f) => Durable(f)'
<1> USE TwoThreads
<1>1. CASE MachineCrash
  <2>1. PICK left \in [States -> SUBSET Frames] :
          /\ \A s \in States : live[s] \cap disk[s] \subseteq left[s] /\ left[s] \subseteq live[s] \cup disk[s]
          /\ live' = left /\ disk' = left
    BY <1>1 DEF MachineCrash
  <2>2. "pending" \in States /\ "delivered" \in States
    BY DEF States
  <2>3. disk["delivered"] \subseteq live["delivered"] /\ disk["pending"] \subseteq live["pending"] \cup disk["delivered"]
    BY DEF IndInv, Durability
  <2>4. disk["delivered"] \subseteq left["delivered"] /\ disk["pending"] \cap live["pending"] \subseteq left["pending"]
    BY <2>1, <2>2, <2>3
  <2>5. \A f : Durable(f) => Durable(f)'
    BY <2>1, <2>3, <2>4 DEF Durable
  <2> QED BY <2>1, <2>5
<1>2. CASE ~Undurable /\ ProcessCrash
  <2>1. UNCHANGED <<live, disk>>
    BY <1>2 DEF ProcessCrash
  <2>4. /\ live["pending"] \subseteq disk["pending"]
        /\ live["delivered"] \subseteq disk["delivered"] /\ disk["delivered"] \subseteq live["delivered"]
        /\ disk["pending"] \subseteq live["pending"] \cup disk["delivered"]
    BY <1>2 DEF Undurable, IndInv, Durability
  <2>5. \A f : Durable(f)' <=> Durable(f)
    BY <2>1 DEF Durable
  <2>6. live \in [States -> SUBSET Frames] /\ disk \in [States -> SUBSET Frames]
    BY DEF IndInv, JournalTypes
  <2> QED BY <2>1, <2>4, <2>5, <2>6
<1> QED BY <1>1, <1>2

\* What the ledger records of a fault or a restart.
LEMMA FaultRecorded ==
  ASSUME ledger \in LedgerRecord, NEW b \in BOOLEAN, ledger' = [ledger EXCEPT !.faults = @ + 1, !.exposed = @ \/ b]
  PROVE  /\ ledger' \in LedgerRecord /\ ledger'.handed = ledger.handed
         /\ ledger'.offered = ledger.offered /\ ledger'.executed = ledger.executed
         /\ ledger'.exposed = (ledger.exposed \/ b)
<1>1. PICK c \in BOOLEAN : c = (ledger.exposed \/ b)
  OBVIOUS
<1>2. PICK g : g = ledger' /\ g = [ledger EXCEPT !.faults = @ + 1, !.exposed = c]
  BY <1>1
<1>3. g = [handed |-> ledger.handed, offered |-> ledger.offered, entered |-> ledger.entered, executed |-> ledger.executed,
           processes |-> ledger.processes, withdrawals |-> ledger.withdrawals, faults |-> ledger.faults + 1, exposed |-> c]
  BY ONLY <1>2, ledger \in LedgerRecord DEF LedgerRecord
<1>4. /\ g \in LedgerRecord /\ g.handed = ledger.handed /\ g.offered = ledger.offered
      /\ g.executed = ledger.executed /\ g.exposed = c
  BY ONLY <1>3, c \in BOOLEAN, ledger \in LedgerRecord DEF LedgerRecord
<1> QED BY <1>1, <1>2, <1>4

\* A process that is killed, and the ledger of the next one.
LEMMA KillRecorded ==
  ASSUME ledger \in LedgerRecord, NEW b \in BOOLEAN, ledger' = [ledger EXCEPT !.processes = @ + 1, !.exposed = @ \/ b]
  PROVE  /\ ledger' \in LedgerRecord /\ ledger'.handed = ledger.handed
         /\ ledger'.offered = ledger.offered /\ ledger'.executed = ledger.executed
         /\ ledger'.exposed = (ledger.exposed \/ b)
<1>1. PICK c \in BOOLEAN : c = (ledger.exposed \/ b)
  OBVIOUS
<1>2. PICK g : g = ledger' /\ g = [ledger EXCEPT !.processes = @ + 1, !.exposed = c]
  BY <1>1
<1>3. g = [handed |-> ledger.handed, offered |-> ledger.offered, entered |-> ledger.entered, executed |-> ledger.executed,
           processes |-> ledger.processes + 1, withdrawals |-> ledger.withdrawals, faults |-> ledger.faults, exposed |-> c]
  BY ONLY <1>2, ledger \in LedgerRecord DEF LedgerRecord
<1>4. /\ g \in LedgerRecord /\ g.handed = ledger.handed /\ g.offered = ledger.offered
      /\ g.executed = ledger.executed /\ g.exposed = c
  BY ONLY <1>3, c \in BOOLEAN, ledger \in LedgerRecord DEF LedgerRecord
<1> QED BY <1>1, <1>2, <1>4

\* A restart that abandons no promotion follows a crash of the machine, or finds
\* every promotion durable.
LEMMA RestartLedger ==
  ASSUME IndInv, Restart, ~ledger'.exposed
  PROVE  /\ ledger' \in LedgerRecord /\ ledger'.handed = ledger.handed
         /\ ledger'.offered = ledger.offered /\ ledger'.executed = ledger.executed
         /\ ~ledger.exposed
         /\ MachineCrash \/ (~Undurable /\ ProcessCrash)
<1>1. ledger \in LedgerRecord
  BY DEF IndInv, ThreadTypes
<1>2. CASE ProcessCrash /\ ledger' = [ledger EXCEPT !.processes = @ + 1, !.exposed = @ \/ Undurable]
  <2>1. Undurable \in BOOLEAN
    BY DEF Undurable
  <2> QED BY <1>1, <1>2, <2>1, KillRecorded
<1>3. CASE MachineCrash /\ ledger' = [ledger EXCEPT !.processes = @ + 1]
  <2>1. /\ ledger' \in LedgerRecord /\ ledger'.handed = ledger.handed
        /\ ledger'.offered = ledger.offered /\ ledger'.executed = ledger.executed
        /\ ledger'.exposed = ledger.exposed
    BY ONLY <1>1, <1>3 DEF LedgerRecord
  <2> QED BY <1>3, <2>1
<1> QED BY <1>2, <1>3 DEF Restart

\* Another process starts.
LEMMA RestartKeeps == ASSUME IndInv, Restart, ~ledger'.exposed PROVE IndInv'
<1> USE TwoThreads
<1>0. /\ ledger' \in LedgerRecord /\ ledger'.handed = ledger.handed
      /\ MachineCrash \/ (~Undurable /\ ProcessCrash)
  BY RestartLedger
<1>1. MachineCrash \/ (~Undurable /\ ProcessCrash)
  BY <1>0
<1>2. /\ live' \in [States -> SUBSET Frames] /\ disk' \in [States -> SUBSET Frames]
      /\ live'["pending"] \subseteq disk'["pending"]
      /\ live'["delivered"] \subseteq disk'["delivered"] /\ disk'["delivered"] \subseteq live'["delivered"]
      /\ disk'["pending"] \subseteq live'["pending"] \cup disk'["delivered"]
      /\ \A f : Durable(f) => Durable(f)'
  BY <1>1, LinksSurvive
<1>3. /\ op' \in Records /\ op'["main"].call = "none" /\ op'["main"].at = "idle"
      /\ op'["worker"].call = "none" /\ op'["worker"].at = "idle"
  <2>1. op' = [t \in Threads |-> Idle]
    BY <1>1 DEF MachineCrash, ProcessCrash
  <2>2. Idle \in [call : Calls, frame : Frames \cup {0}, at : Places, dir : States, then : Places, result : Results]
    BY DEF Idle, Calls, Places, States, Results
  <2>3. Idle.call = "none" /\ Idle.at = "idle"
    BY DEF Idle
  <2> QED BY <2>1, <2>2, <2>3 DEF Records
<1>4. PICK s \in 1 .. step : StartProcess(s)
  BY DEF Restart
<1>5. /\ main' = "open" /\ step' = s /\ record' = "none" /\ replay' = {} /\ fifo' = <<>> /\ item' = NoTask
      /\ wpc' = "unstarted" /\ attempt' = 0 /\ answer' = "none" /\ queue' = FreshQueue
  BY <1>4 DEF StartProcess
<1>6. /\ queue' \in QueueRecord /\ queue'.next = 1 /\ queue'.pending = 0 /\ Len(queue'.reports) = 0
      /\ queue'.closePrepared = FALSE /\ queue'.closed = FALSE
  <2>1. PICK q : q = queue'
    OBVIOUS
  <2>2. q = [next |-> 1, pending |-> 0, reports |-> <<>>, closeRequested |-> FALSE,
             closePrepared |-> FALSE, closed |-> FALSE]
    BY <1>5, <2>1 DEF FreshQueue
  <2>3. <<>> \in Seq(Filed) /\ Len(<<>>) = 0
    OBVIOUS
  <2>4. /\ q \in QueueRecord /\ q.next = 1 /\ q.pending = 0 /\ Len(q.reports) = 0
        /\ q.closePrepared = FALSE /\ q.closed = FALSE
    BY ONLY <2>2, <2>3 DEF QueueRecord
  <2> QED BY <2>1, <2>4
<1>7. ledger' \in LedgerRecord /\ ledger'.handed = ledger.handed
  BY <1>0
<1>8. ~Working' /\ Len(fifo') = 0 /\ \A f : ~Queued(f)' /\ ~HasJob(f)'
  <2>1. ~Working' /\ Len(fifo') = 0
    BY <1>5 DEF Working
  <2>2. \A f : ~Queued(f)'
    BY <2>1 DEF Queued
  <2> QED BY <2>1, <2>2 DEF HasJob
<1>9. JournalTypes'
  BY <1>2, <1>3 DEF JournalTypes, Records
<1>10. ThreadTypes'
  <2>1. step' \in 1 .. Last
    <3>1. step \in 1 .. Last /\ Last \in Nat
      BY DeliveryAssumption DEF IndInv, ThreadTypes, Last
    <3> QED BY <1>5, <3>1
  <2>2. fifo' \in Seq(Task) /\ attempt' \in Nat /\ replay' \subseteq Frames
    BY <1>5
  <2>3. main' \in MainPlaces /\ wpc' \in WorkerPlaces /\ record' \in States \cup {"none"}
    BY <1>5 DEF MainPlaces, WorkerPlaces
  <2>4. item' \in [kind : Kinds \cup {"none"}, frame : Frames \cup {0}, seq : Nat]
    BY <1>5 DEF NoTask
  <2> QED BY <1>6, <1>7, <2>1, <2>2, <2>3, <2>4 DEF ThreadTypes, QueueRecord
<1>11. MainCall'
  BY <1>3, <1>5 DEF MainCall, Stepping, Closing
<1>12. WorkerCall'
  BY <1>3, <1>5, <1>8 DEF WorkerCall
<1>13. Shape("main")' /\ Shape("worker")'
  BY <1>3 DEF Shape
<1>14. Durability'
  BY <1>2 DEF Durability
<1>15. RecoverInv' /\ PrepareInv' /\ CommitInv' /\ DeliverInv'
  BY <1>3, <1>5 DEF RecoverInv, PrepareInv, CommitInv, DeliverInv
<1>16. Jobs'
  BY <1>5, <1>8 DEF Jobs
<1>17. Numbered'
  BY <1>5, <1>6, <1>8 DEF Numbered, Busy
<1>18. Lifecycle'
  BY <1>5 DEF Lifecycle, Stepping
<1>19. Account'
  <2>1. ~Running'
    BY <1>5, <1>6 DEF Running
  <2>2. \A f \in ledger'.handed : Durable(f)'
    BY <1>2, <1>7 DEF IndInv, Account
  <2> QED BY <2>1, <2>2 DEF Account
<1> QED BY <1>9, <1>10, <1>11, <1>12, <1>13, <1>14, <1>15, <1>16, <1>17, <1>18, <1>19 DEF IndInv

\* The first process starts on empty directories.
LEMMA Initially == ASSUME Init PROVE IndInv
<1> USE TwoThreads
<1>1. /\ live = [s \in States |-> {}] /\ disk = [s \in States |-> {}] /\ op = [t \in Threads |-> Idle]
      /\ main = "open" /\ step = 1 /\ record = "none" /\ replay = {} /\ fifo = <<>> /\ item = NoTask
      /\ wpc = "unstarted" /\ attempt = 0 /\ answer = "none" /\ queue = FreshQueue
  BY DEF Init, JournalInit
<1>2. \A s \in States : live[s] = {} /\ disk[s] = {}
  BY <1>1
<1>3. /\ op \in Records /\ op["main"].call = "none" /\ op["main"].at = "idle"
      /\ op["worker"].call = "none" /\ op["worker"].at = "idle"
  <2>2. Idle \in [call : Calls, frame : Frames \cup {0}, at : Places, dir : States, then : Places, result : Results]
    BY DEF Idle, Calls, Places, States, Results
  <2>3. Idle.call = "none" /\ Idle.at = "idle"
    BY DEF Idle
  <2> QED BY <1>1, <2>2, <2>3 DEF Records
<1>6. /\ queue \in QueueRecord /\ queue.next = 1 /\ queue.pending = 0 /\ Len(queue.reports) = 0
      /\ queue.closePrepared = FALSE /\ queue.closed = FALSE
  <2>2. queue = [next |-> 1, pending |-> 0, reports |-> <<>>, closeRequested |-> FALSE,
                 closePrepared |-> FALSE, closed |-> FALSE]
    BY <1>1 DEF FreshQueue
  <2>3. <<>> \in Seq(Filed) /\ Len(<<>>) = 0
    OBVIOUS
  <2> QED BY ONLY <2>2, <2>3 DEF QueueRecord
<1>7. ledger \in LedgerRecord /\ ledger.handed = {}
  BY DEF Init, LedgerRecord
<1>8. ~Working /\ Len(fifo) = 0 /\ \A f : ~Queued(f) /\ ~HasJob(f)
  <2>1. ~Working /\ Len(fifo) = 0
    BY <1>1 DEF Working
  <2>2. \A f : ~Queued(f)
    BY <2>1 DEF Queued
  <2> QED BY <2>1, <2>2 DEF HasJob
<1>9. JournalTypes
  BY <1>1, <1>3 DEF JournalTypes, Records
<1>10. ThreadTypes
  <2>1. step \in 1 .. Last
    BY <1>1, DeliveryAssumption DEF Last
  <2>2. fifo \in Seq(Task) /\ attempt \in Nat /\ replay \subseteq Frames
    BY <1>1
  <2>3. main \in MainPlaces /\ wpc \in WorkerPlaces /\ record \in States \cup {"none"}
    BY <1>1 DEF MainPlaces, WorkerPlaces
  <2>4. item \in [kind : Kinds \cup {"none"}, frame : Frames \cup {0}, seq : Nat]
    BY <1>1 DEF NoTask
  <2> QED BY <1>6, <1>7, <2>1, <2>2, <2>3, <2>4 DEF ThreadTypes, QueueRecord
<1>11. MainCall /\ WorkerCall
  BY <1>1, <1>3, <1>8 DEF MainCall, WorkerCall, Stepping, Closing
<1>13. Shape("main") /\ Shape("worker")
  BY <1>3 DEF Shape
<1>14. Durability
  BY <1>2 DEF Durability, States
<1>15. RecoverInv /\ PrepareInv /\ CommitInv /\ DeliverInv
  BY <1>1, <1>3 DEF RecoverInv, PrepareInv, CommitInv, DeliverInv
<1>16. Jobs
  BY <1>1, <1>8 DEF Jobs
<1>17. Numbered /\ Lifecycle
  BY <1>1, <1>6, <1>8 DEF Numbered, Busy, Lifecycle, Stepping
<1>19. Account
  BY <1>1, <1>6, <1>7 DEF Account, Running
<1> QED BY <1>9, <1>10, <1>11, <1>13, <1>14, <1>15, <1>16, <1>17, <1>19 DEF IndInv

-----------------------------------------------------------------------------
\* A failing call that abandons no promotion.
LEMMA FaultLedger ==
  ASSUME IndInv, IOFails, ~ledger'.exposed
  PROVE  /\ ledger' \in LedgerRecord /\ ledger'.handed = ledger.handed
         /\ ledger'.offered = ledger.offered /\ ledger'.executed = ledger.executed
         /\ ~ledger.exposed /\ UNCHANGED threadVars
         /\ \E t \in Threads : \E at : CallFails(t, at) /\ ~Abandons(t, at)
<1>1. ledger \in LedgerRecord
  BY DEF IndInv, ThreadTypes
<1>2. PICK t \in Threads, at \in {"link", "sync", "unlink", "sync unlink"} :
        CallFails(t, at) /\ ledger' = [ledger EXCEPT !.faults = @ + 1, !.exposed = @ \/ Abandons(t, at)]
  BY DEF IOFails
<1>3. Abandons(t, at) \in BOOLEAN
  BY DEF Abandons
<1>4. /\ ledger' \in LedgerRecord /\ ledger'.handed = ledger.handed
      /\ ledger'.offered = ledger.offered /\ ledger'.executed = ledger.executed
      /\ ledger'.exposed = (ledger.exposed \/ Abandons(t, at))
  BY <1>1, <1>2, <1>3, FaultRecorded
<1> QED BY <1>2, <1>4 DEF IOFails

\* Every step that abandons no promotion keeps the invariant.
LEMMA StepKeeps == ASSUME Trusted, IndInv, [Next]_vars, ~ledger'.exposed PROVE IndInv'
<1> USE TwoThreads
<1>1. ASSUME NEW t \in {"main", "worker"}, OnlyJournal,
             JournalStep(t) \/ \E at : CallFails(t, at) /\ ~Abandons(t, at)
      PROVE  IndInv'
  BY <1>1, MainJournalKeeps, WorkerJournalKeeps
<1>2. ledger \in LedgerRecord
  BY DEF IndInv, ThreadTypes
<1>3. CASE MainStep
  <2>1. CASE JournalSteps("main")
    <3>1. OnlyJournal
      BY <1>2, <2>1 DEF JournalSteps, OnlyJournal
    <3> QED BY <1>1, <2>1, <3>1 DEF JournalSteps
  <2> QED BY <1>3, <2>1, OpenJournalKeeps, InspectJournalKeeps, ConstructQueueKeeps, SessionFailsKeeps,
             InitializedKeeps, ReplayKeeps, PrepareKeeps, PreparedKeeps, WithdrawKeeps, WithdrawnKeeps,
             FinalizeKeeps, CommittedKeeps, PrepareSubmissionKeeps, ResolveKeeps, CloseKeeps, DrainedKeeps,
             FinalizedKeeps, AbortSessionKeeps, AbortedKeeps, StopWorkerKeeps, JoinedKeeps DEF MainStep
<1>4. CASE WorkerStep
  <2>1. CASE JournalSteps("worker")
    <3>1. OnlyJournal
      BY <1>2, <2>1 DEF JournalSteps, OnlyJournal
    <3> QED BY <1>1, <2>1, <3>1 DEF JournalSteps
  <2> QED BY <1>4, <2>1, GetKeeps, CallKeeps, PassGateKeeps, ExecuteKeeps, AcknowledgeKeeps, RecordKeeps
          DEF WorkerStep
<1>5. CASE IOFails
  <2>1. /\ ledger' \in LedgerRecord /\ ledger'.handed = ledger.handed
        /\ ledger'.offered = ledger.offered /\ ledger'.executed = ledger.executed
        /\ UNCHANGED threadVars
        /\ \E t \in Threads : \E at : CallFails(t, at) /\ ~Abandons(t, at)
    BY <1>5, FaultLedger
  <2>3. OnlyJournal
    BY <2>1 DEF OnlyJournal
  <2> QED BY <1>1, <2>1, <2>3
<1>6. CASE Restart
  BY <1>6, RestartKeeps
<1>7. CASE UNCHANGED vars
  <2>1. OnlyJournal /\ UNCHANGED <<live, disk, op>>
    BY <1>2, <1>7 DEF OnlyJournal, vars, journalVars
  <2>2. op \in Records
    BY DEF IndInv, JournalTypes, Records
  <2>3. Durability'
    <3>1. \A f : Durable(f)' <=> Durable(f)
      BY <2>1, LinksStay
    <3> QED BY <2>1, <3>1 DEF IndInv, Durability
  <2> QED BY <2>1, <2>2, <2>3, RestStays DEF IndInv, MainView
<1> QED BY <1>3, <1>4, <1>5, <1>6, <1>7 DEF Next

-----------------------------------------------------------------------------
\* A promotion that was abandoned stays abandoned.
LEMMA ExposedStays ==
  ASSUME "exposed" \in DOMAIN ledger, [Next]_vars
  PROVE  "exposed" \in DOMAIN ledger' /\ (ledger.exposed => ledger'.exposed)
<1>1. CASE UNCHANGED ledger
  BY <1>1
<1>2. CASE ledger' = [ledger EXCEPT !.withdrawals = @ + 1]
  BY ONLY <1>2, "exposed" \in DOMAIN ledger
<1>3. CASE ledger' = [ledger EXCEPT !.offered = @ \cup {step}]
  BY ONLY <1>3, "exposed" \in DOMAIN ledger
<1>4. CASE ledger' = [ledger EXCEPT !.handed = @ \cup {step}]
  BY ONLY <1>4, "exposed" \in DOMAIN ledger
<1>5. CASE ledger' = [ledger EXCEPT !.entered = @ \cup {item.frame}, !.executed = @ \cup {item.frame}]
  BY ONLY <1>5, "exposed" \in DOMAIN ledger
<1>6. CASE ledger' = [ledger EXCEPT !.entered = @ \cup {item.frame}]
  BY ONLY <1>6, "exposed" \in DOMAIN ledger
<1>7. CASE ledger' = [ledger EXCEPT !.processes = @ + 1]
  BY ONLY <1>7, "exposed" \in DOMAIN ledger
<1>8. CASE \E b \in BOOLEAN : ledger' = [ledger EXCEPT !.faults = @ + 1, !.exposed = @ \/ b]
  BY ONLY <1>8, "exposed" \in DOMAIN ledger
<1>9. CASE \E b \in BOOLEAN : ledger' = [ledger EXCEPT !.processes = @ + 1, !.exposed = @ \/ b]
  BY ONLY <1>9, "exposed" \in DOMAIN ledger
<1>10. CASE IOFails
  <2>1. PICK t \in Threads, at \in {"link", "sync", "unlink", "sync unlink"} :
          ledger' = [ledger EXCEPT !.faults = @ + 1, !.exposed = @ \/ Abandons(t, at)]
    BY <1>10 DEF IOFails
  <2>2. Abandons(t, at) \in BOOLEAN
    BY DEF Abandons
  <2> QED BY <1>8, <2>1, <2>2
<1>11. CASE Restart
  <2>1. Undurable \in BOOLEAN
    BY DEF Undurable
  <2> QED BY <1>7, <1>9, <1>11, <2>1 DEF Restart
<1>12. CASE MainStep \/ WorkerStep
  <2>1. \/ UNCHANGED ledger \/ ledger' = [ledger EXCEPT !.withdrawals = @ + 1]
        \/ ledger' = [ledger EXCEPT !.offered = @ \cup {step}]
        \/ ledger' = [ledger EXCEPT !.handed = @ \cup {step}]
        \/ ledger' = [ledger EXCEPT !.entered = @ \cup {item.frame}, !.executed = @ \cup {item.frame}]
        \/ ledger' = [ledger EXCEPT !.entered = @ \cup {item.frame}]
    BY <1>12 DEF MainStep, WorkerStep, OpenJournal, InspectJournal, ConstructQueue, SessionFails, Initialized,
                 Replay, Prepare, Prepared, Withdraw, Withdrawn, Finalize, Committed, PrepareSubmission, Resolve,
                 Close, Drained, Finalized, AbortSession, Aborted, StopWorker, Joined, JournalSteps, Get, Call,
                 PassGate, Execute, Acknowledge, Record
  <2> QED BY <1>1, <1>2, <1>3, <1>4, <1>5, <1>6, <2>1
<1> QED BY <1>1, <1>10, <1>11, <1>12 DEF Next, vars

Guarded == "exposed" \in DOMAIN ledger /\ (~ledger.exposed => IndInv)

\* The inductive invariant holds in every reachable state of the two threads, the
\* queue and the journal, whatever the interleaving, the crashes, the kills and the
\* failed system calls, up to the first promotion abandoned between its link and its
\* fsync.
THEOREM DeliveryInvariant == ASSUME Trusted PROVE Spec => []Guarded
<1>1. Init => Guarded
  BY Initially DEF Guarded, Init
<1>2. Guarded /\ [Next]_vars => Guarded'
  BY StepKeeps, ExposedStays DEF Guarded
<1> QED BY <1>1, <1>2, PTL DEF Spec

\* HandedOffSurvives: a frame whose commit returned, or that was found committed when
\* its step finalized, keeps a durable link through every crash of the machine at any
\* system call, every kill of the process and every failing call, up to the first
\* promotion that is abandoned between its link and its fsync.
THEOREM HandOffsSurvive == ASSUME Trusted PROVE Spec => []HandedOffSurvives
<1>1. Guarded => HandedOffSurvives
  BY DEF Guarded, IndInv, Account, Durable, HandedOffSurvives
<1> QED BY <1>1, DeliveryInvariant, PTL

\* AcknowledgedIsFinal: a job that is executed for the first time is for a frame
\* whose acknowledgement is not durable, so neither a replay nor a repeated step
\* delivers an acknowledged frame again, up to the first abandoned promotion.
THEOREM AcknowledgementsAreFinal == ASSUME Trusted PROVE Spec => AcknowledgedIsFinal
<1>1. Guarded /\ [Next]_vars
        => [Execute /\ attempt = 0 /\ ~ledger.exposed => item.frame \notin disk["delivered"]]_vars
  <2>1. SUFFICES ASSUME IndInv, Execute, attempt = 0
                 PROVE  item.frame \notin disk["delivered"]
    BY DEF Guarded
  <2>2. wpc = "execute"
    BY <2>1 DEF Execute
  <2>3. item.frame \notin live["delivered"] /\ disk["delivered"] \subseteq live["delivered"]
    BY <2>1, <2>2 DEF IndInv, Jobs, Durability
  <2> QED BY <2>3
<1> QED BY <1>1, DeliveryInvariant, PTL DEF Spec, AcknowledgedIsFinal

\* NoSilentLoss: when a run has closed its queue, every frame handed off by it or by
\* an earlier process has a durable acknowledgement, or is still pending on the disk
\* and reported as skipped, under the sequence number of its job, up to the first
\* abandoned promotion.
THEOREM LossIsReported == ASSUME Trusted PROVE Spec => []NoSilentLoss
<1>1. Guarded => NoSilentLoss
  <2>1. SUFFICES ASSUME IndInv, queue.closed, NEW f \in ledger.handed \ disk["delivered"]
                 PROVE  /\ f \in disk["pending"]
                        /\ \E i \in DOMAIN queue.reports :
                             queue.reports[i] = [seq |-> i, frame |-> f, status |-> "skipped"]
    BY DEF NoSilentLoss, Guarded
  <2>2. f \in disk["pending"]
    BY <2>1 DEF IndInv, Account, Durable
  <2>3. queue.pending = 0 /\ replay = {} /\ main \in {"stop", "join", "ended"}
    BY <2>1 DEF IndInv, Numbered
  <2>4. ~HasJob(f)
    <3>1. CASE ~Working /\ \A i \in 1 .. Len(fifo) : fifo[i].kind # "job"
      BY <3>1 DEF HasJob, Queued
    <3>2. CASE queue.pending = Len(fifo) + Busy
      <4>1. fifo \in Seq(Task)
        BY <2>1 DEF IndInv, ThreadTypes
      <4>2. Len(fifo) \in Nat /\ Busy \in {0, 1}
        BY <4>1 DEF Busy
      <4>3. Len(fifo) = 0 /\ Busy = 0
        BY <2>3, <3>2, <4>2
      <4>4. ~Working
        BY <4>3 DEF Busy
      <4> QED BY <4>3, <4>4 DEF HasJob, Queued
    <3> QED BY <2>1, <3>1, <3>2 DEF IndInv, Numbered
  <2>5. Reported(f)
    BY <2>1, <2>3, <2>4 DEF IndInv, Account, Running, Owed
  <2>6. PICK i \in 1 .. Len(queue.reports) :
          queue.reports[i].seq = i /\ queue.reports[i].frame = f /\ queue.reports[i].status = "skipped"
    BY <2>5 DEF Reported
  <2>7. queue.reports \in Seq(Filed)
    BY <2>1 DEF IndInv, ThreadTypes
  <2>8. i \in DOMAIN queue.reports /\ queue.reports[i] \in Filed
    BY <2>6, <2>7
  <2>9. queue.reports[i] = [seq |-> i, frame |-> f, status |-> "skipped"]
    BY <2>6, <2>8 DEF Filed
  <2> QED BY <2>2, <2>8, <2>9
<1> QED BY <1>1, DeliveryInvariant, PTL

-----------------------------------------------------------------------------
\* The status that the contract gives a frame, by the links it has.
Linked(f) == \E s \in States : f \in live[s] \cup disk[s]

\* The four cases of StatusOf, before and after a step.
LEMMA StatusIs ==
  ASSUME NEW f
  PROVE  /\ f \in disk["delivered"] => StatusOf(f) = "delivered"
         /\ f \in disk["pending"] \ disk["delivered"] => StatusOf(f) = "committed"
         /\ ~Durable(f) /\ Linked(f) => StatusOf(f) = "prepared"
         /\ ~Durable(f) /\ ~Linked(f) => StatusOf(f) = "absent"
         /\ f \in disk'["delivered"] => StatusOf(f)' = "delivered"
         /\ f \in disk'["pending"] \ disk'["delivered"] => StatusOf(f)' = "committed"
         /\ ~Durable(f)' /\ Linked(f)' => StatusOf(f)' = "prepared"
         /\ ~Durable(f)' /\ ~Linked(f)' => StatusOf(f)' = "absent"
  BY DEF StatusOf, Durable, Linked

\* A step that leaves the status of every frame but one, or of every frame.
LEMMA OneBecomes ==
  ASSUME NEW g \in Frames, NEW b, \A f \in Frames \ {g} : StatusOf(f)' = StatusOf(f), StatusOf(g)' = b
  PROVE  Contract!Becomes(g, StatusOf(g), b)
  BY DEF Contract!Becomes

\* No frame changes its status.
LEMMA NoneBecomes ==
  ASSUME \A f \in Frames : StatusOf(f)' = StatusOf(f)
  PROVE  UNCHANGED [f \in Frames |-> StatusOf(f)]
  OBVIOUS

\* Without a change of the directories no frame changes its status.
LEMMA LinksUnmoved ==
  ASSUME UNCHANGED <<live, disk>>
  PROVE  UNCHANGED [f \in Frames |-> StatusOf(f)]
  BY DEF StatusOf

\* The steps of the contract that the journal takes.
Kept ==
  /\ ledger'.offered = ledger.offered /\ ledger'.executed = ledger.executed
  /\ ledger'.exposed = ledger.exposed
ContractStep == [Contract!Next]_Contract!contractVars

\* A step that the contract does not see.
LEMMA Stutters ==
  ASSUME Kept, \A f \in Frames : StatusOf(f)' = StatusOf(f)
  PROVE  ContractStep
  BY NoneBecomes DEF Kept, ContractStep, Contract!contractVars

\* A step that prepares g.
LEMMA Prepares ==
  ASSUME Kept, NEW g \in Frames, \A f \in Frames \ {g} : StatusOf(f)' = StatusOf(f),
         StatusOf(g) = "absent", StatusOf(g)' = "prepared"
  PROVE  ContractStep
<1>1. Contract!Becomes(g, "absent", "prepared")
  BY OneBecomes
<1>2. Contract!Prepare(g)
  BY <1>1 DEF Contract!Prepare, Kept
<1> QED BY <1>2 DEF ContractStep, Contract!Next, Contract!Promised, Kept

\* A step that discards g.
LEMMA Discards ==
  ASSUME Kept, NEW g \in Frames, \A f \in Frames \ {g} : StatusOf(f)' = StatusOf(f),
         StatusOf(g) = "prepared", StatusOf(g)' = "absent"
  PROVE  ContractStep
<1>1. Contract!Becomes(g, "prepared", "absent")
  BY OneBecomes
<1>2. Contract!Discard(g)
  BY <1>1 DEF Contract!Discard, Kept
<1> QED BY <1>2 DEF ContractStep, Contract!Next, Contract!Promised, Kept

\* A step that commits g.
LEMMA Commits ==
  ASSUME Kept, NEW g \in Frames, \A f \in Frames \ {g} : StatusOf(f)' = StatusOf(f),
         g \in ledger.offered, StatusOf(g) = "prepared", StatusOf(g)' = "committed"
  PROVE  ContractStep
<1>1. Contract!Becomes(g, "prepared", "committed")
  BY OneBecomes
<1>2. Contract!Commit(g)
  BY <1>1 DEF Contract!Commit, Kept
<1> QED BY <1>2 DEF ContractStep, Contract!Next, Contract!Promised, Kept

\* A step that acknowledges g.
LEMMA Acknowledges ==
  ASSUME Kept, NEW g \in Frames, \A f \in Frames \ {g} : StatusOf(f)' = StatusOf(f),
         g \in ledger.executed, StatusOf(g) = "committed", StatusOf(g)' = "delivered"
  PROVE  ContractStep
<1>1. Contract!Becomes(g, "committed", "delivered")
  BY OneBecomes
<1>2. Contract!Acknowledge(g)
  BY <1>1 DEF Contract!Acknowledge, Kept
<1> QED BY <1>2 DEF ContractStep, Contract!Next, Contract!Promised, Kept

\* A link of a frame can only prepare it.
LEMMA LinkRefines ==
  ASSUME Kept, UNCHANGED disk, NEW d \in States, NEW g, live \in [States -> SUBSET Frames],
         live' = [live EXCEPT ![d] = @ \cup {g}]
  PROVE  ContractStep
<1>1. \A f \in Frames : Durable(f)' <=> Durable(f)
  BY DEF Durable
<1>2. \A f \in Frames \ {g} : Linked(f)' <=> Linked(f)
  BY DEF Linked
<1>3. \A f \in Frames \ {g} : StatusOf(f)' = StatusOf(f)
  BY <1>1, <1>2, StatusIs DEF Durable
<1>4. CASE g \notin Frames \/ Durable(g)
  <2>1. Durable(g) => StatusOf(g)' = StatusOf(g)
    BY <1>1, StatusIs DEF Durable
  <2> QED BY <1>3, <1>4, <2>1, Stutters
<1>5. CASE g \in Frames /\ ~Durable(g)
  <2>1. Linked(g)'
    BY DEF Linked
  <2>2. StatusOf(g)' = "prepared"
    BY <1>1, <1>5, <2>1, StatusIs
  <2>3. StatusOf(g) = "prepared" \/ StatusOf(g) = "absent"
    BY <1>5, StatusIs
  <2>4. CASE StatusOf(g) = "prepared"
    BY <1>3, <2>2, <2>4, Stutters
  <2>5. CASE StatusOf(g) = "absent"
    BY <1>3, <1>5, <2>2, <2>5, Prepares
  <2> QED BY <2>3, <2>4, <2>5
<1> QED BY <1>4, <1>5

\* An unlink of a frame can only discard it.
LEMMA UnlinkRefines ==
  ASSUME Kept, UNCHANGED disk, NEW d \in States, NEW g, live \in [States -> SUBSET Frames],
         live' = [live EXCEPT ![d] = @ \ {g}]
  PROVE  ContractStep
<1>1. \A f \in Frames : Durable(f)' <=> Durable(f)
  BY DEF Durable
<1>2. \A f \in Frames \ {g} : Linked(f)' <=> Linked(f)
  BY DEF Linked
<1>3. \A f \in Frames \ {g} : StatusOf(f)' = StatusOf(f)
  BY <1>1, <1>2, StatusIs DEF Durable
<1>4. CASE g \notin Frames \/ Durable(g)
  <2>1. Durable(g) => StatusOf(g)' = StatusOf(g)
    BY <1>1, StatusIs DEF Durable
  <2> QED BY <1>3, <1>4, <2>1, Stutters
<1>5. CASE g \in Frames /\ ~Durable(g)
  <2>1. Linked(g)' => Linked(g)
    BY DEF Linked
  <2>2. \/ StatusOf(g)' = StatusOf(g)
        \/ StatusOf(g) = "prepared" /\ StatusOf(g)' = "absent"
    BY <1>1, <1>5, <2>1, StatusIs
  <2> QED BY <1>3, <1>5, <2>2, Stutters, Discards
<1> QED BY <1>4, <1>5

\* A sync of "pending" or "delivered" decides at most one frame, the one the main
\* thread commits or the worker acknowledges.  A sync of "prepared" may complete the
\* discards of several frames whose own sync failed.
LEMMA SyncRefines ==
  ASSUME IndInv, Kept, UNCHANGED live, NEW d \in States, disk' = [disk EXCEPT ![d] = live[d]]
  PROVE  ContractStep
<1>0. /\ disk \in [States -> SUBSET Frames] /\ live \in [States -> SUBSET Frames]
      /\ disk'[d] = live[d] /\ \A s \in States : s # d => disk'[s] = disk[s]
  BY DEF IndInv, JournalTypes
<1>1. CASE d = "prepared"
  <2>1. disk'["pending"] = disk["pending"] /\ disk'["delivered"] = disk["delivered"]
    BY <1>0, <1>1 DEF States
  <2>2. \A f : Durable(f)' <=> Durable(f)
    BY <2>1 DEF Durable
  <2>3. \A f \in Frames : Linked(f)' => Linked(f)
    BY <1>0, <1>1 DEF Linked
  <2>4. ASSUME NEW f \in Frames
        PROVE  /\ StatusOf(f)' \in {"absent", "prepared", "committed", "delivered"}
               /\ StatusOf(f)' \in Contract!After(f)
    <3>1. CASE Durable(f)
      <4>1. StatusOf(f)' = StatusOf(f) /\ StatusOf(f) \in {"committed", "delivered"}
        BY <2>1, <3>1, StatusIs DEF Durable
      <4> QED BY <2>4, <4>1 DEF Contract!After
    <3>2. CASE ~Durable(f) /\ Linked(f)
      <4>1. StatusOf(f) = "prepared" /\ StatusOf(f)' \in {"prepared", "absent"}
        BY <2>2, <3>2, StatusIs
      <4> QED BY <2>4, <4>1 DEF Contract!After
    <3>3. CASE ~Durable(f) /\ ~Linked(f)
      <4>1. StatusOf(f) = "absent" /\ StatusOf(f)' = "absent"
        BY <2>2, <2>3, <3>3, StatusIs
      <4> QED BY <2>4, <4>1 DEF Contract!After
    <3> QED BY <3>1, <3>2, <3>3
  <2>5. Contract!Crash
    BY <2>4 DEF Contract!Crash, Kept
  <2> QED BY <2>5 DEF ContractStep, Contract!Next, Contract!Promised, Kept
<1>2. CASE d = "pending"
  <2>1. disk'["pending"] = live["pending"] /\ disk'["delivered"] = disk["delivered"] /\ disk'["prepared"] = disk["prepared"]
    BY <1>0, <1>2 DEF States
  <2>2. disk["pending"] \subseteq live["pending"] \cup disk["delivered"]
    BY DEF IndInv, Durability
  <2>3. \A f \in live["pending"] \ disk["pending"] : f = op["main"].frame /\ op["main"].call = "commit"
    BY DEF IndInv, Durability
  <2>4. \A f \in Frames : ~Durable(f) => (Linked(f)' <=> Linked(f))
    <3>1. \A f \in Frames : f \notin disk["pending"] => (Linked(f)' <=> Linked(f))
      BY <1>0, <1>2 DEF Linked
    <3> QED BY <3>1 DEF Durable
  <2>5. \A f \in Frames : f \notin live["pending"] \ disk["pending"] => StatusOf(f)' = StatusOf(f)
    <3>1. TAKE f \in Frames
    <3>2. HAVE f \notin live["pending"] \ disk["pending"]
    <3>3. Durable(f)' <=> Durable(f)
      BY <2>1, <2>2, <3>2 DEF Durable
    <3>4. CASE Durable(f)
      BY <2>1, <2>2, <3>2, <3>4, StatusIs DEF Durable
    <3>5. CASE ~Durable(f)
      BY <2>4, <3>3, <3>5, StatusIs
    <3> QED BY <3>4, <3>5
  <2>6. CASE \A f \in Frames : StatusOf(f)' = StatusOf(f)
    BY <2>6, Stutters
  <2>7. CASE \E f \in Frames : StatusOf(f)' # StatusOf(f)
    <3>1. PICK g \in Frames : StatusOf(g)' # StatusOf(g)
      BY <2>7
    <3>2. g \in live["pending"] \ disk["pending"] /\ g = op["main"].frame /\ op["main"].call = "commit"
      BY <2>3, <2>5, <3>1
    <3>3. \A f \in Frames \ {g} : StatusOf(f)' = StatusOf(f)
      BY <2>3, <2>5, <3>2
    <3>4. g \in ledger.offered
      BY <3>2 DEF IndInv, MainCall
    <3>5. g \notin disk["delivered"]
      BY <2>1, <3>1, StatusIs
    <3>6. Linked(g) /\ ~Durable(g)
      BY <3>2, <3>5 DEF Linked, States, Durable
    <3>7. StatusOf(g) = "prepared" /\ StatusOf(g)' = "committed"
      BY <2>1, <3>2, <3>5, <3>6, StatusIs
    <3> QED BY <3>3, <3>4, <3>7, Commits
  <2> QED BY <2>6, <2>7
<1>3. CASE d = "delivered"
  <2>1. disk'["delivered"] = live["delivered"] /\ disk'["pending"] = disk["pending"] /\ disk'["prepared"] = disk["prepared"]
    BY <1>0, <1>3 DEF States
  <2>2. disk["delivered"] \subseteq live["delivered"]
    BY DEF IndInv, Durability
  <2>3. \A f \in live["delivered"] \ disk["delivered"] :
          f = op["worker"].frame /\ op["worker"].call = "deliver" /\ op["worker"].at = "sync"
    BY DEF IndInv, Durability
  <2>4. \A f \in Frames : f \notin live["delivered"] \ disk["delivered"] => StatusOf(f)' = StatusOf(f)
    <3>1. TAKE f \in Frames
    <3>2. HAVE f \notin live["delivered"] \ disk["delivered"]
    <3>3. (f \in disk'["delivered"] <=> f \in disk["delivered"]) /\ (Durable(f)' <=> Durable(f))
      BY <2>1, <2>2, <3>2 DEF Durable
    <3>4. Linked(f)' <=> Linked(f)
      BY <1>0, <1>3, <3>2, <3>3 DEF Linked
    <3>5. CASE Durable(f)
      BY <2>1, <3>3, <3>5, StatusIs DEF Durable
    <3>6. CASE ~Durable(f)
      BY <3>3, <3>4, <3>6, StatusIs
    <3> QED BY <3>5, <3>6
  <2>6. CASE \A f \in Frames : StatusOf(f)' = StatusOf(f)
    BY <2>6, Stutters
  <2>7. CASE \E f \in Frames : StatusOf(f)' # StatusOf(f)
    <3>1. PICK g \in Frames : StatusOf(g)' # StatusOf(g)
      BY <2>7
    <3>2. /\ g \in live["delivered"] \ disk["delivered"] /\ g = op["worker"].frame
          /\ op["worker"].call = "deliver" /\ op["worker"].at = "sync"
      BY <2>3, <2>4, <3>1
    <3>3. \A f \in Frames \ {g} : StatusOf(f)' = StatusOf(f)
      BY <2>3, <2>4, <3>2
    <3>4. g \in ledger.executed
      BY <3>2 DEF IndInv, WorkerCall
    <3>5. g \in disk["pending"]
      BY <3>2 DEF IndInv, DeliverInv
    <3>6. StatusOf(g) = "committed" /\ StatusOf(g)' = "delivered"
      BY <2>1, <3>2, <3>5, StatusIs
    <3> QED BY <3>3, <3>4, <3>6, Acknowledges
  <2> QED BY <2>6, <2>7
<1> QED BY <1>1, <1>2, <1>3 DEF States

\* A crash of the machine undoes or completes what was under way, frame by frame.
LEMMA CrashRefines ==
  ASSUME IndInv, Kept, MachineCrash
  PROVE  ContractStep
<1> DEFINE All == {"absent", "prepared", "committed", "delivered"}
<1>1. PICK left \in [States -> SUBSET Frames] :
        /\ \A s \in States : live[s] \cap disk[s] \subseteq left[s] /\ left[s] \subseteq live[s] \cup disk[s]
        /\ live' = left /\ disk' = left
  BY DEF MachineCrash
<1>2. /\ disk["delivered"] \subseteq live["delivered"]
      /\ disk["pending"] \subseteq live["pending"] \cup disk["delivered"]
  BY DEF IndInv, Durability
<1>3. /\ disk["delivered"] \subseteq left["delivered"] /\ left["delivered"] \subseteq live["delivered"] \cup disk["delivered"]
      /\ disk["pending"] \cap live["pending"] \subseteq left["pending"]
      /\ left["pending"] \subseteq live["pending"] \cup disk["pending"]
  BY <1>1, <1>2 DEF States
<1>4. ASSUME NEW f \in Frames PROVE StatusOf(f)' \in All /\ StatusOf(f)' \in Contract!After(f)
  <2>1. Linked(f)' => Linked(f)
    BY <1>1 DEF Linked
  <2>2. CASE f \in disk["delivered"]
    <3>1. StatusOf(f) = "delivered" /\ StatusOf(f)' = "delivered"
      BY <1>1, <1>3, <2>2, StatusIs
    <3> QED BY <1>4, <3>1 DEF Contract!After
  <2>3. CASE f \in disk["pending"] \ disk["delivered"]
    <3>1. StatusOf(f) = "committed" /\ f \in left["pending"]
      BY <1>2, <1>3, <2>3, StatusIs
    <3>2. CASE f \in left["delivered"]
      <4>1. f \in live["delivered"] \ disk["delivered"]
        BY <1>3, <2>3, <3>2
      <4>2. f \in ledger.executed
        BY <4>1 DEF IndInv, Durability, WorkerCall
      <4>3. StatusOf(f)' = "delivered"
        BY <1>1, <3>2, StatusIs
      <4> QED BY <1>4, <3>1, <4>2, <4>3 DEF Contract!After
    <3>3. CASE f \notin left["delivered"]
      <4>1. StatusOf(f)' = "committed"
        BY <1>1, <3>1, <3>3, StatusIs
      <4> QED BY <1>4, <3>1, <4>1 DEF Contract!After
    <3> QED BY <3>2, <3>3
  <2>4. CASE ~Durable(f) /\ Linked(f)
    <3>1. StatusOf(f) = "prepared" /\ f \notin disk["pending"] /\ f \notin disk["delivered"]
      BY <2>4, StatusIs DEF Durable
    <3>2. f \notin left["delivered"]
      <4>1. f \notin live["delivered"]
        BY <3>1 DEF IndInv, Durability, DeliverInv
      <4> QED BY <1>3, <3>1, <4>1
    <3>3. CASE f \in left["pending"]
      <4>1. f \in live["pending"] \ disk["pending"]
        BY <1>3, <3>1, <3>3
      <4>2. f \in ledger.offered
        BY <4>1 DEF IndInv, Durability, MainCall
      <4>3. StatusOf(f)' = "committed"
        BY <1>1, <3>2, <3>3, StatusIs
      <4> QED BY <1>4, <3>1, <4>2, <4>3 DEF Contract!After
    <3>4. CASE f \notin left["pending"]
      <4>1. ~Durable(f)'
        BY <1>1, <3>2, <3>4 DEF Durable
      <4>2. StatusOf(f)' = "prepared" \/ StatusOf(f)' = "absent"
        BY <4>1, StatusIs
      <4> QED BY <1>4, <3>1, <4>2 DEF Contract!After
    <3> QED BY <3>3, <3>4
  <2>5. CASE ~Durable(f) /\ ~Linked(f)
    <3>1. ~Linked(f)'
      BY <2>1, <2>5
    <3>2. ~Durable(f)'
      BY <3>1 DEF Durable, Linked, States
    <3>3. StatusOf(f) = "absent" /\ StatusOf(f)' = "absent"
      BY <2>5, <3>1, <3>2, StatusIs
    <3> QED BY <1>4, <3>3 DEF Contract!After
  <2> QED BY <2>2, <2>3, <2>4, <2>5 DEF Durable
<1>5. Contract!Crash
  BY <1>4 DEF Contract!Crash, Kept
<1> QED BY <1>5 DEF ContractStep, Contract!Next, Contract!Promised, Kept

\* Every step of a call keeps the contract.
LEMMA JournalRefines ==
  ASSUME Trusted, IndInv, Kept, NEW t \in Threads, JournalStep(t) \/ UNCHANGED <<live, disk>>
  PROVE  ContractStep
<1>1. live \in [States -> SUBSET Frames] /\ op[t].frame \in Frames \cup {0} /\ op[t].dir \in States
  BY DEF IndInv, JournalTypes
<1>2. Target(t) \in States
  BY DEF Target, States
<1>3. CASE UNCHANGED <<live, disk>>
  <2>1. \A f \in Frames : StatusOf(f)' = StatusOf(f)
    BY <1>3 DEF StatusOf
  <2> QED BY <2>1, Stutters
<1>4. CASE Link(t)
  <2>1. UNCHANGED disk /\ live' = [live EXCEPT ![Target(t)] = @ \cup {op[t].frame}]
    BY <1>4 DEF Link
  <2> QED BY <1>1, <1>2, <2>1, LinkRefines
<1>5. CASE Unlink(t)
  <2>1. UNCHANGED disk /\ live' = [live EXCEPT ![op[t].dir] = @ \ {op[t].frame}]
    BY <1>5 DEF Unlink
  <2> QED BY <1>1, <2>1, UnlinkRefines
<1>6. CASE Sync(t)
  <2>1. UNCHANGED live /\ disk' = [disk EXCEPT ![Target(t)] = live[Target(t)]]
    BY <1>6 DEF Sync, Synced, Trusted
  <2> QED BY <1>2, <2>1, SyncRefines
<1>7. CASE SyncUnlink(t)
  <2>1. UNCHANGED live /\ disk' = [disk EXCEPT ![op[t].dir] = live[op[t].dir]]
    BY <1>7 DEF SyncUnlink, Synced, Trusted
  <2> QED BY <1>1, <2>1, SyncRefines
<1>8. CASE Inspect(t) \/ PromoteSource(t) \/ PromoteCleanup(t) \/ RemoveStale(t) \/ Finish(t) \/ Recover(t)
  <2>1. UNCHANGED <<live, disk>>
    BY <1>8 DEF Inspect, PromoteSource, PromoteCleanup, RemoveStale, Finish, Recover
  <2> QED BY <1>3, <2>1
<1> QED BY <1>3, <1>4, <1>5, <1>6, <1>7, <1>8 DEF JournalStep

\* ImplementsJournalContract: under the links it leaves and whatever crashes, the
\* journal driven by both threads commits only frames that were offered, executes
\* only committed ones, acknowledges only executed ones and takes nothing back; the
\* contract lapses with the first promotion that is abandoned.
THEOREM DeliveryKeepsContract == ASSUME Trusted PROVE Spec => ImplementsJournalContract
<1>1. Init => Contract!Init
  <2>1. SUFFICES ASSUME Init PROVE Contract!Init
    OBVIOUS
  <2>2. \A s \in States : live[s] = {} /\ disk[s] = {}
    BY <2>1 DEF Init, JournalInit
  <2>3. \A f \in Frames : ~Linked(f) /\ ~Durable(f)
    BY <2>2 DEF Linked, Durable, States
  <2>4. \A f \in Frames : StatusOf(f) = "absent"
    BY <2>3, StatusIs
  <2>5. ledger.offered = {} /\ ledger.executed = {} /\ ledger.exposed = FALSE
    BY <2>1 DEF Init
  <2> QED BY <2>4, <2>5 DEF Contract!Init
<1>2. Guarded /\ [Next]_vars => [Contract!Next]_Contract!contractVars
  <2> USE TwoThreads
  <2>0. CASE ledger'.exposed
    BY <2>0 DEF Contract!Next, Contract!Lapse
  <2>1. SUFFICES ASSUME IndInv, [Next]_vars, ~ledger'.exposed PROVE ContractStep
    BY <2>0, ExposedStays DEF ContractStep, Guarded
  <2>2. ledger \in LedgerRecord
    BY <2>1 DEF IndInv, ThreadTypes
  <2>3. CASE UNCHANGED vars
    BY <2>1, <2>3, JournalRefines DEF vars, journalVars, Kept
  <2>4. CASE JournalSteps("main") \/ JournalSteps("worker")
    BY <2>1, <2>4, JournalRefines DEF JournalSteps, Kept
  <2>5. CASE Finalize
    <3>1. CASE record = "prepared"
      <4>1. step \in Frames
        BY <2>1, <2>5 DEF Finalize, Main, IndInv, MainCall, Stepping
      <4>2. UNCHANGED <<live, disk>>
        BY <2>5, <3>1 DEF Finalize, Enter
      <4>3. ledger' = [ledger EXCEPT !.offered = @ \cup {step}]
        BY <2>5, <3>1 DEF Finalize
      <4>4. /\ ledger'.offered = ledger.offered \cup {step} /\ ledger'.executed = ledger.executed
            /\ ledger'.exposed = ledger.exposed
        BY ONLY <2>2, <4>3 DEF LedgerRecord
      <4>5. Contract!Offer(step)
        BY <4>2, <4>4, LinksUnmoved DEF Contract!Offer
      <4> QED BY <4>1, <4>4, <4>5 DEF ContractStep, Contract!Next, Contract!Promised, Kept
    <3>2. CASE record # "prepared"
      <4>1. UNCHANGED <<live, disk>> /\ ledger' = [ledger EXCEPT !.handed = @ \cup {step}]
        BY <2>5, <3>2 DEF Finalize, journalVars
      <4>2. Kept
        BY ONLY <2>2, <4>1 DEF LedgerRecord, Kept
      <4> QED BY <2>1, <4>1, <4>2, JournalRefines
    <3> QED BY <3>1, <3>2
  <2>6. CASE Execute
    <3>1. wpc = "execute" /\ UNCHANGED <<live, disk>>
      BY <2>6 DEF Execute, Enter, journalVars
    <3>2. item.frame \in Frames /\ HasJob(item.frame)
      BY <2>1, <3>1 DEF IndInv, WorkerCall, Working, HasJob
    <3>3. StatusOf(item.frame) \in {"committed", "delivered"}
      BY <2>1, <3>2, StatusIs DEF IndInv, Jobs, Durable
    <3>4. CASE ledger' = [ledger EXCEPT !.entered = @ \cup {item.frame}, !.executed = @ \cup {item.frame}]
      <4>1. /\ ledger'.offered = ledger.offered /\ ledger'.executed = ledger.executed \cup {item.frame}
            /\ ledger'.exposed = ledger.exposed
        <5>1. PICK g : g = ledger'
          OBVIOUS
        <5>2. g = [handed |-> ledger.handed, offered |-> ledger.offered, entered |-> ledger.entered \cup {item.frame},
                   executed |-> ledger.executed \cup {item.frame}, processes |-> ledger.processes,
                   withdrawals |-> ledger.withdrawals, faults |-> ledger.faults, exposed |-> ledger.exposed]
          BY ONLY <2>2, <3>4, <5>1 DEF LedgerRecord
        <5>3. /\ g.offered = ledger.offered /\ g.executed = ledger.executed \cup {item.frame}
              /\ g.exposed = ledger.exposed
          BY ONLY <5>2
        <5> QED BY <5>1, <5>3
      <4>2. Contract!Execute(item.frame)
        BY <3>1, <3>2, <3>3, <4>1, LinksUnmoved DEF Contract!Execute
      <4> QED BY <3>2, <4>1, <4>2 DEF ContractStep, Contract!Next, Contract!Promised, Kept
    <3>5. CASE ledger' = [ledger EXCEPT !.entered = @ \cup {item.frame}]
      <4>1. Kept
        BY ONLY <2>2, <3>5 DEF LedgerRecord, Kept
      <4> QED BY <2>1, <3>1, <4>1, JournalRefines
    <3> QED BY <2>6, <3>4, <3>5 DEF Execute
  <2>7. CASE Committed
    <3>1. UNCHANGED <<live, disk>>
      BY <2>7 DEF Committed, Take
    <3>2. ledger' = ledger \/ ledger' = [ledger EXCEPT !.handed = @ \cup {step}]
      BY <2>7 DEF Committed
    <3>3. Kept
      BY ONLY <2>2, <3>2 DEF LedgerRecord, Kept
    <3> QED BY <2>1, <3>1, <3>3, JournalRefines
  <2>8. CASE Withdraw
    <3>1. UNCHANGED <<live, disk>>
      BY <2>8 DEF Withdraw, Enter, journalVars
    <3>2. ledger' = [ledger EXCEPT !.withdrawals = @ + 1]
      BY <2>8 DEF Withdraw
    <3>3. Kept
      BY ONLY <2>2, <3>2 DEF LedgerRecord, Kept
    <3> QED BY <2>1, <3>1, <3>3, JournalRefines
  <2>9. CASE IOFails
    <3>1. UNCHANGED <<live, disk>>
      BY <2>9 DEF IOFails, CallFails
    <3>2. ledger.exposed \in BOOLEAN /\ ledger'.exposed \in BOOLEAN
      BY <2>1, <2>2, <2>9, FaultLedger DEF LedgerRecord
    <3>3. Kept
      BY <2>1, <2>9, <3>2, FaultLedger DEF Kept
    <3> QED BY <2>1, <3>1, <3>3, JournalRefines
  <2>10. CASE Restart
    <3>1. ledger.exposed \in BOOLEAN /\ ledger'.exposed \in BOOLEAN
      BY <2>1, <2>2, <2>10, RestartLedger DEF LedgerRecord
    <3>2. Kept
      BY <2>1, <2>10, <3>1, RestartLedger DEF Kept
    <3>3. MachineCrash \/ UNCHANGED <<live, disk>>
      BY <2>10 DEF Restart, ProcessCrash
    <3> QED BY <2>1, <3>2, <3>3, CrashRefines, JournalRefines
  <2>11. CASE \/ OpenJournal \/ InspectJournal \/ ConstructQueue \/ SessionFails \/ Initialized \/ Replay
              \/ Prepare \/ Prepared \/ Withdrawn \/ PrepareSubmission \/ Resolve
              \/ Close \/ Drained \/ Finalized \/ AbortSession \/ Aborted \/ StopWorker \/ Joined
              \/ Get \/ Call \/ PassGate \/ Acknowledge \/ Record
    <3>1. UNCHANGED <<live, disk>> /\ UNCHANGED ledger
      BY <2>11 DEF OpenJournal, InspectJournal, ConstructQueue, SessionFails, Initialized, Replay, Prepare,
                   Prepared, Withdrawn, PrepareSubmission, Resolve, Close, Drained, Finalized, AbortSession,
                   Aborted, StopWorker, Joined, Get, Call, PassGate, Acknowledge, Record, Enter, Take, journalVars
    <3> QED BY <2>1, <3>1, JournalRefines DEF Kept
  <2> QED BY <2>1, <2>3, <2>4, <2>5, <2>6, <2>7, <2>8, <2>9, <2>10, <2>11 DEF Next, MainStep, WorkerStep
<1> QED BY <1>1, <1>2, DeliveryInvariant, PTL DEF Spec, ImplementsJournalContract, Contract!Spec
=============================================================================
