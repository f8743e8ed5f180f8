-------------------------- MODULE MCCollectiveStep --------------------------
(* Model-checking instance of CollectiveStep. *)
EXTENDS CollectiveStep

MCPhases == <<"phase", "status">>
\* Two payloads that differ in their text only, one of another reason, and one
\* of a category that is not retried.
MCPayloads == {[control |-> "limit", text |-> 1], [control |-> "limit", text |-> 2],
               [control |-> "singular", text |-> 1], [control |-> "capability", text |-> 1]}
MCTerminal == {"capability"}
=============================================================================
