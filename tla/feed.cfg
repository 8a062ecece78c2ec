\* Two approvals, two polls per stream, the latest backlog holds both; the two
\* instants share a millisecond.
CONSTANTS
    a1 = a1
    a2 = a2
    Approval = {a1, a2}
    LIMIT = 2
    ITERATIONS = 2
    MicrosPerMilli = 2
    MaxTime = 1
    MaxClicks = 2
CONSTRAINT Bounded
SPECIFICATION FairSpec
INVARIANTS
    OkIsTheDecision
PROPERTIES
    DecisionIsShown
