------------------------------- MODULE MCFeed -------------------------------
EXTENDS Feed

CONSTANTS a1, a2

\* Feed treats all approvals alike, and both verdicts: of the behaviours that
\* differ in their names only, the one that requests a1 first and whose first
\* click approves stands for the others.
Canonical ==
    /\ row[a1] = NoRow /\ writing[a1] = {} => row[a2] = NoRow /\ writing[a2] = {}
    /\ posts # <<>> => posts[1].status = "approved"

\* Bounds: a second click gives the same approval the other verdict or the other
\* approval the same one; two transactions under way; two events on the wire.
SecondClick ==
    Len(posts) = 2 =>
        (posts[1].approval = posts[2].approval <=> posts[1].status # posts[2].status)

Bounded ==
    /\ Canonical /\ SecondClick
    /\ Cardinality(writing[a1]) + Cardinality(writing[a2]) <= 2
    /\ Len(wire) <= 2
=============================================================================
