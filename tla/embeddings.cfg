\* One text to search with, one to find, a model before the one of now; the
\* backfill takes a row at a time and fails twice.
CONSTANTS
    query = query
    episode = episode
    now = now
    old = old
    i1 = i1
    i3 = i3
    i4 = i4
    c1 = c1
    f1 = f1
    Text = {query, episode}
    QueryText = {query}
    Model = {now, old}
    MODEL_ID = now
    Item = {i1, i3, i4}
    ContentOf <- MCContentOf
    NoVector = NoVector
    Caller = {c1}
    Filler = {f1}
    MAX_RETRIES = 2
    MAX_BATCH = 1
    RowLimit = 1
    AnnLimit = 2
    MaxFaults = 2
SPECIFICATION FairSpec
INVARIANTS
    OneSpace
    QueryIsQuery
PROPERTIES
    EveryItemEmbedded
