-------------------------- MODULE MCMultiLayoutStep --------------------------
(* Model-checking instance of MultiLayoutStep: three layouts in a ring of     *)
(* mappings, with every choice of synchronization and of port order.          *)
EXTENDS MultiLayoutStep

Link(s, t, m, point) == [source |-> s, target |-> t, map |-> m, sync |-> point]
Ring(a, b, c) == <<Link(1, 2, 1, a), Link(2, 3, 2, b), Link(3, 1, 3, c)>>
Points == {"before", "after"}

\* The ports of a Program that is repeated in every substep.
Unroll(ports, substeps) ==
  [i \in 1 .. (substeps * Len(ports)) |->
     <<ports[((i - 1) % Len(ports)) + 1], ((i - 1) \div Len(ports)) + 1>>]
Plan(routes, programs, substeps, stride, physical) ==
  [routes |-> routes, program |-> [l \in Layouts |-> Unroll(programs[l], substeps)],
   stride |-> stride, physical |-> physical]

Ordinary == {Plan(Ring("before", "before", "before"), <<<<>>, <<>>, <<>>>>, 1, 1, FALSE)}
Physical == {Plan(Ring(a, b, c), <<<<>>, <<>>, <<>>>>, 1, 1, TRUE) :
               a \in Points, b \in Points, c \in Points}

\* Two Program maps and a mapping at a step boundary, with a Program that runs
\* every second step.
Mixed == {Plan(Ring("stage", "stage", c), <<<<1>>, p, q>>, 1, 2, TRUE) :
            c \in Points, p \in {<<1, 2>>, <<2, 1>>}, q \in {<<2>>, <<>>}}

\* Program maps only: each Program meets its two ports in either order.
Staged == {Plan(Ring("stage", "stage", "stage"), <<p, q, r>>, 1, 1, FALSE) :
             p \in {<<1, 3>>, <<3, 1>>}, q \in {<<1, 2>>, <<2, 1>>},
             r \in {<<2, 3>>, <<3, 2>>}}

\* Two invocations of one mapping, met again in the second substep.
Repeated == {Plan(<<Link(1, 2, 1, "stage"), Link(1, 2, 1, "stage"), Link(2, 3, 2, c)>>,
                  <<<<1, 2>>, p, <<>>>>, 2, 1, TRUE) :
               c \in Points, p \in {<<1, 2>>, <<2, 1>>}}

MCPlans == Ordinary \cup Physical \cup Mixed \cup Staged \cup Repeated
=============================================================================
