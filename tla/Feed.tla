--------------------------------- MODULE Feed ---------------------------------
(***************************************************************************)
(* The approval queue of the dashboard: rows of the approvals table, the   *)
(* server-sent events that carry them to a browser, and the clicks that    *)
(* come back.                                                              *)
(*                                                                         *)
(* A decision is one UPDATE ... WHERE status = 'pending' (the approvals    *)
(* Lambda's, or the agent's at the gate's deadline).  Its decided_at is    *)
(* now() of its transaction, which may commit after transactions that      *)
(* began later.  A stream (dashboard/src/lib/sse.ts) polls                 *)
(* ITERATIONS times for rows above its cursor and then closes; the         *)
(* browser's EventSource reconnects with no cursor (lib/useSse.ts).        *)
(*                                                                         *)
(* Timestamps have microseconds; the driver reads them into a Date, which  *)
(* keeps the milliseconds, and the cursor is such a Date.                  *)
(***************************************************************************)
EXTENDS Naturals, Sequences, FiniteSets, SequencesExt

CONSTANTS
    Approval,      \* approval ids
    LIMIT,         \* rows per poll, 25
    ITERATIONS,    \* polls per stream, 12
    MicrosPerMilli,
    MaxTime,       \* bound: the last instant
    MaxClicks      \* bound: clicks of the viewer

ASSUME FeedAssumption ==
    /\ IsFiniteSet(Approval)
    /\ LIMIT \in Nat \ {0} /\ ITERATIONS \in Nat \ {0}
    /\ MicrosPerMilli \in Nat \ {0}
    /\ MaxTime \in Nat \ {0} /\ MaxClicks \in Nat

VARIABLES
    now,       \* microseconds
    row,       \* the approvals table
    writing,   \* per approval, transactions begun and not yet over
    stream,    \* the server's side of the viewer's connection
    wire,      \* events sent and not yet received
    shown,     \* what the browser shows of each approval
    busy,      \* busyId: the approval whose buttons are disabled, or none
    posts      \* the viewer's POSTs, in the order of the clicks

vars == <<now, row, writing, stream, wire, shown, busy, posts>>

-----------------------------------------------------------------------------
(* The table.                                                               *)

Decided == {"approved", "rejected", "expired"}

\* cursor_ts is COALESCE(decided_at, requested_at).
Row == [status: {"none", "pending"} \cup Decided, cursor_ts: 0 .. MaxTime]

NoRow == [status |-> "none", cursor_ts |-> 0]

\* A statement under way: the click it serves (0: the agent issued it), what it
\* writes, its now().
Write == [click: 0 .. MaxClicks, status: {"pending"} \cup Decided, at: 0 .. MaxTime]

Begin(a, c, status) ==
    writing' = [writing EXCEPT ![a] =
                   @ \cup {[click |-> c, status |-> status, at |-> now]}]

\* The agent requests an approval, once.
Request(a) ==
    /\ row[a] = NoRow /\ writing[a] = {}
    /\ Begin(a, 0, "pending")
    /\ UNCHANGED <<now, row, stream, wire, shown, busy, posts>>

\* The agent expires it at the gate's deadline.
Expire(a) ==
    /\ row[a].status = "pending"
    /\ \A x \in writing[a] : x.click # 0
    /\ Begin(a, 0, "expired")
    /\ UNCHANGED <<now, row, stream, wire, shown, busy, posts>>

\* Fault: the UPDATE forgets status = 'pending'.
MayWriteFault(a, x) ==
    IF x.status = "pending" THEN row[a] = NoRow ELSE row[a] # NoRow

\* The WHERE clause of decide_approval.
MayWrite(a, x) ==
    IF x.status = "pending" THEN row[a] = NoRow ELSE row[a].status = "pending"

Tick ==
    /\ now < MaxTime
    /\ now' = now + 1
    /\ UNCHANGED <<row, writing, stream, wire, shown, busy, posts>>

-----------------------------------------------------------------------------
(* The viewer's clicks, through the proxy route and the approvals Lambda.   *)

\* What the panel makes of an answer: res.ok, or an error (409, 502).
Post == [approval: Approval, status: {"approved", "rejected"},
         answer: {"waits", "ok", "error"}]

\* decide() in ApprovalQueuePanel.  The buttons are there while the row shown is
\* pending; one busyId disables those of one approval, so the next click, on
\* another, enables them while the POST is still under way.
Click(a, status) ==
    /\ Len(posts) < MaxClicks
    /\ shown[a] = "pending" /\ a \notin busy
    /\ busy' = {a}
    /\ posts' = Append(posts, [approval |-> a, status |-> status, answer |-> "waits"])
    /\ UNCHANGED <<now, row, writing, stream, wire, shown>>

\* The POST of click c is answered.  finally: setBusyId(null), whichever
\* approval it names by then.
Answer(c, answer) ==
    /\ posts' = [posts EXCEPT ![c].answer = answer]
    /\ busy' = {}

\* The Lambda's UPDATE for click c begins.
LambdaBegins(c) ==
    /\ posts[c].answer = "waits"
    /\ \A x \in writing[posts[c].approval] : x.click # c
    /\ Begin(posts[c].approval, c, posts[c].status)
    /\ UNCHANGED <<now, row, stream, wire, shown, busy, posts>>

\* A statement commits.  If a POST waits for it, rowcount = 1 answers 200,
\* otherwise get_approval_status finds the row and answers 409.
Commit(a, x) ==
    /\ x \in writing[a]
    /\ writing' = [writing EXCEPT ![a] = @ \ {x}]
    /\ row' = IF MayWrite(a, x)
              THEN [row EXCEPT ![a] = [status |-> x.status, cursor_ts |-> x.at]]
              ELSE row
    /\ IF x.click # 0 /\ posts[x.click].answer = "waits"
       THEN Answer(x.click, IF MayWrite(a, x) THEN "ok" ELSE "error")
       ELSE UNCHANGED <<busy, posts>>
    /\ UNCHANGED <<now, stream, wire, shown>>

\* A fetch fails, the browser's or the proxy's (502).  A statement begun goes on.
ClickFails(c) ==
    /\ posts[c].answer = "waits"
    /\ Answer(c, "error")
    /\ UNCHANGED <<now, row, writing, stream, wire, shown>>

-----------------------------------------------------------------------------
(* The stream.                                                              *)

Event == [approval: Approval, status: {"pending"} \cup Decided]

\* cursor {} is null.
Stream == [left: 0 .. ITERATIONS, cursor: SUBSET (0 .. MaxTime)]

Fresh == [left |-> ITERATIONS, cursor |-> {}]

Closed == [Fresh EXCEPT !.left = 0]

Rows == {a \in Approval : row[a] # NoRow}

\* The value of a cursor read back from a Date.
Millis(t) == t - (t % MicrosPerMilli)

\* WHERE cursor_ts > $1
Newer(cursor) ==
    {a \in Rows : \A c \in cursor : row[a].cursor_ts > Millis(c)}

\* ORDER BY cursor_ts: descending without a cursor, ascending with one.
Before(cursor, a, b) ==
    IF cursor = {} THEN row[a].cursor_ts > row[b].cursor_ts
    ELSE row[a].cursor_ts < row[b].cursor_ts

\* LIMIT: the latest rows without a cursor, with one the next rows above it,
\* ties in any order.  Both are delivered ascending.
Batch(cursor, batch) ==
    LET rows == IF cursor = {} THEN Rows ELSE Newer(cursor)
    IN  /\ batch \subseteq rows
        /\ \/ Cardinality(batch) = LIMIT
           \/ Cardinality(batch) < LIMIT /\ batch = rows
        /\ \A a \in batch : \A b \in rows \ batch : ~Before(cursor, b, a)

Ascending(s) ==
    \A i, j \in DOMAIN s : i < j => row[s[i]].cursor_ts <= row[s[j]].cursor_ts

EventOf(a) == [approval |-> a, status |-> row[a].status]

Poll ==
    /\ stream.left > 0
    /\ \E batch \in SUBSET Rows : \E s \in SetToSeqs(batch) :
         /\ Batch(stream.cursor, batch) /\ Ascending(s)
         /\ wire' = wire \o [i \in DOMAIN s |-> EventOf(s[i])]
         /\ stream' = [left |-> stream.left - 1,
                       cursor |-> IF batch = {} THEN stream.cursor
                                  ELSE {row[s[Len(s)]].cursor_ts}]
    /\ UNCHANGED <<now, row, writing, shown, busy, posts>>

\* The query raises: an error event, the cursor stays.
PollFails ==
    /\ stream.left > 0
    /\ stream' = [stream EXCEPT !.left = @ - 1]
    /\ UNCHANGED <<now, row, writing, wire, shown, busy, posts>>

\* onmessage: byKey.set(key, parsed), the last write wins.
Receive ==
    /\ wire # <<>>
    /\ shown' = [shown EXCEPT ![Head(wire).approval] = Head(wire).status]
    /\ wire' = Tail(wire)
    /\ UNCHANGED <<now, row, writing, stream, busy, posts>>

\* Fault: the stream goes on from the cursor of the last one.
ReconnectFault ==
    /\ stream.left = 0 /\ wire = <<>>
    /\ stream' = [stream EXCEPT !.left = ITERATIONS]
    /\ UNCHANGED <<now, row, writing, wire, shown, busy, posts>>

\* EventSource opens the route again: a stream of its own, cursor null.
Reconnect ==
    /\ stream.left = 0 /\ wire = <<>>
    /\ stream' = Fresh
    /\ UNCHANGED <<now, row, writing, wire, shown, busy, posts>>

\* The connection breaks: what is on the wire is lost.
Disconnect ==
    /\ stream.left > 0
    /\ stream' = Closed /\ wire' = <<>>
    /\ UNCHANGED <<now, row, writing, shown, busy, posts>>

Init ==
    /\ now = 0
    /\ row = [a \in Approval |-> NoRow]
    /\ writing = [a \in Approval |-> {}]
    /\ stream = Closed /\ wire = <<>>
    /\ shown = [a \in Approval |-> "none"]
    /\ busy = {} /\ posts = <<>>

Next ==
    \/ Tick
    \/ \E a \in Approval :
         \/ Request(a) \/ Expire(a)
         \/ \E status \in {"approved", "rejected"} : Click(a, status)
         \/ \E x \in writing[a] : Commit(a, x)
    \/ \E c \in DOMAIN posts : LambdaBegins(c) \/ ClickFails(c)
    \/ Poll \/ PollFails \/ Receive \/ Reconnect \/ Disconnect

Spec == Init /\ [][Next]_vars

\* A statement ends; the browser reads and reconnects; a query that is tried in
\* stream after stream succeeds in one of them, and its events arrive.  That it
\* reconnects supposes the route answers 200: an EventSource gives up otherwise.
Fairness ==
    /\ \A a \in Approval : WF_vars(\E x \in writing[a] : Commit(a, x))
    /\ WF_vars(Reconnect) /\ SF_vars(Poll)
    /\ \A a \in Approval : SF_vars(Receive /\ Head(wire).approval = a)

FairSpec == Spec /\ Fairness

-----------------------------------------------------------------------------
TypeOK ==
    /\ now \in 0 .. MaxTime
    /\ row \in [Approval -> Row]
    /\ writing \in [Approval -> SUBSET Write]
    /\ stream \in Stream
    /\ wire \in Seq(Event)
    /\ shown \in [Approval -> {"none", "pending"} \cup Decided]
    /\ busy \in SUBSET Approval
    /\ posts \in Seq(Post) /\ Len(posts) <= MaxClicks

\* A click answered 200 is the decision that stands, whatever the agent's
\* deadline and the viewer's other clicks, several of them under way at once and
\* some given up, wrote or still write about the same approval.
OkIsTheDecision ==
    \A c \in DOMAIN posts :
        posts[c].answer = "ok" => row[posts[c].approval].status = posts[c].status

\* Every decision reaches the browser, late commits, ties, lost connections and
\* failing polls notwithstanding: the fresh backlog of the next stream has it.
DecisionIsShown ==
    \A a \in Approval :
        row[a].status \in Decided ~> shown[a] = row[a].status

\* sse.ts: the rows of the next poll are strictly newer than the cursor, so that
\* no row is ever delivered twice.
StrictlyNewer ==
    \A c \in stream.cursor : \A a \in Newer(stream.cursor) : row[a].cursor_ts > c
=============================================================================
