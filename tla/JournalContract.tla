--------------------------- MODULE JournalContract ---------------------------
(***************************************************************************)
(* What the durable observer journal promises its users, frame by frame:   *)
(* a frame is committed only once its step offered it, acknowledged only   *)
(* once the provider executed it, and from the commit on nothing takes it  *)
(* back.  A crash may undo a preparation, or complete a transition that    *)
(* had already been asked for; it changes nothing else.  The promise ends  *)
(* when a link is left unsynced for good (lapsed).                         *)
(***************************************************************************)
CONSTANT Frames

VARIABLES
    status,     \* frame -> "absent", "prepared", "committed" or "delivered"
    offered,    \* frames of accepted steps whose commit was asked for
    executed,   \* frames the provider executed
    lapsed      \* nothing is promised any more

contractVars == <<status, offered, executed, lapsed>>

Init ==
    /\ status = [f \in Frames |-> "absent"]
    /\ offered = {}
    /\ executed = {}
    /\ lapsed = FALSE

Becomes(f, from, to) == status[f] = from /\ status' = [status EXCEPT ![f] = to]

Prepare(f) == Becomes(f, "absent", "prepared") /\ UNCHANGED <<offered, executed>>
Discard(f) == Becomes(f, "prepared", "absent") /\ UNCHANGED <<offered, executed>>
Offer(f) == offered' = offered \cup {f} /\ UNCHANGED <<status, executed>>
Commit(f) == f \in offered /\ Becomes(f, "prepared", "committed") /\ UNCHANGED <<offered, executed>>
Execute(f) ==
    /\ status[f] \in {"committed", "delivered"}
    /\ executed' = executed \cup {f}
    /\ UNCHANGED <<status, offered>>
Acknowledge(f) == f \in executed /\ Becomes(f, "committed", "delivered") /\ UNCHANGED <<offered, executed>>

\* Where a crash may leave a frame.
After(f) ==
    {status[f]}
    \cup (IF status[f] = "prepared" THEN {"absent"} ELSE {})
    \cup (IF status[f] = "prepared" /\ f \in offered THEN {"committed"} ELSE {})
    \cup (IF status[f] = "committed" /\ f \in executed THEN {"delivered"} ELSE {})

Crash ==
    /\ status' \in [Frames -> {"absent", "prepared", "committed", "delivered"}]
    /\ \A f \in Frames : status'[f] \in After(f)
    /\ UNCHANGED <<offered, executed>>

Lapse == lapsed'

Promised ==
    \/ \E f \in Frames : Prepare(f) \/ Discard(f) \/ Offer(f) \/ Commit(f) \/ Execute(f) \/ Acknowledge(f)
    \/ Crash

Next == Lapse \/ (Promised /\ UNCHANGED lapsed)

Spec == Init /\ [][Next]_contractVars
=============================================================================
