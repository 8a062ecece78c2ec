\* One scope, two procedures, the second of a failing change.
CONSTANTS
    s1 = s1
    a = a
    b = b
    a1 = a1
    a2 = a2
    b1 = b1
    b2 = b2
    w1 = w1
    w2 = w2
    d1 = d1
    d2 = d2
    Scope = {s1}
    Name = {a, b}
    Episode = {a1, a2, b1, b2}
    ScopeOf <- MCScopeOf
    NameOf <- MCNameOf
    Succeeded = {a1, a2}
    Seeded = {a1, a2, b1}
    MinCluster = 2
    MayUpdate = TRUE
    Worker = {w1, w2}
    Decayer = {d1, d2}
    MaxBusy = 3
SPECIFICATION Spec
SYMMETRY Symmetric
INVARIANTS
    TypeOK
    PromotedWhole
    CitableIsActive
    FirstIsLeftToHuman
