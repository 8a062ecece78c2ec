\* A table that does not exist reaches the human.
CONSTANTS
    orders = orders
    ghost = ghost
    Malformed = Malformed
    city = city
    status = status
    NoTable = NoTable
    custom = custom
    NoName = NoName
    Table = {orders, ghost, Malformed}
    Column = {city, status}
    Change <- MCChange
    Clean = {orders, ghost, city, status, custom}
    Name = {custom}
    DefaultName <- MCDefaultName
    Schemas <- MCSchemas
    MaxRounds = 2
    MaxRetries = 2
    MaxReplans = 1
    Window = 0
    MaxTime = 1
    MaxChanges = 1
    MaxCrashes = 1
SPECIFICATION Spec
PROPERTIES
    NothingFabricated
\* the run may be over
CHECK_DEADLOCK FALSE
