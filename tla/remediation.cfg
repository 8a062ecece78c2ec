\* Two runs, one useful and one useless change, the code's two re-plans, a death.
CONSTANTS
    t1 = t1
    t2 = t2
    good = good
    bad = bad
    NoKey = NoKey
    Task = {t1, t2}
    Key = {good, bad}
    Helps <- OneGoodChange
    MaxReplans = 2
    MaxCrashes = 1
SPECIFICATION FairSpec
INVARIANTS
    TypeOK
    ChangesAreApproved
    LedgerFollowsDecision
    IntentIsOne
    EpisodesAreTrue
    DoneIsRecorded
    RunsAgree
PROPERTIES
    DecisionFinal
    ImplementsLifecycle
    RunEnds
\* every run may be over and every approval decided
CHECK_DEADLOCK FALSE
