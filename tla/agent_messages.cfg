\* One message, delivered again during its calls, late and failing renewals, errors
\* of the lease's statements, a death or a stop.
CONSTANTS
    Proc = {p1, p2}
    Msg = {m1}
    GroupOf <- OneQuery
    MaxReceives = 2
    Mishaps = {"redelivery", "renewal", "sigterm", "lease"}
    MaxTasks = 2
    MaxCrashes = 1
SPECIFICATION Spec
SYMMETRY ProcSymmetric
INVARIANTS
    TypeOK
    LeaseIsUsed
    OneHolder
PROPERTIES
    ClosedUnderLease
\* every message may be acked or dead
CHECK_DEADLOCK FALSE
