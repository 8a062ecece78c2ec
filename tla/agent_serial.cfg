\* One query, two occurrences, deaths of processes and stops.
CONSTANTS
    Proc = {p1, p2}
    Msg = {m1, m2}
    GroupOf <- OneQuery
    MaxReceives = 2
    Mishaps = {"sigterm"}
    MaxTasks = 3
    MaxCrashes = 2
SPECIFICATION FairSpec
INVARIANTS
    ObserveFindsTask
    ProgressIsKept
PROPERTIES
    MessagesEnd
\* every message may be acked or dead
CHECK_DEADLOCK FALSE
