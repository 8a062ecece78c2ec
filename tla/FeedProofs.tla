------------------------------ MODULE FeedProofs ------------------------------
(***************************************************************************)
(* Theorems about module Feed, for any number of approvals, clicks, polls  *)
(* and instants: what a click is told is what the table says, and what the *)
(* table says of a decision it says for good.                              *)
(***************************************************************************)
EXTENDS Feed, FiniteSetTheorems, TLAPS

-----------------------------------------------------------------------------
(* Types.                                                                  *)

\* A row that was written is not NoRow in part.
RowsWhole == \A a \in Approval : row[a] = NoRow \/ row[a].status # "none"

Typed == TypeOK /\ RowsWhole

\* An approval in the table has an event.
LEMMA EventTyped ==
  ASSUME Typed, NEW a \in Rows
  PROVE  EventOf(a) \in Event
BY DEF Typed, TypeOK, RowsWhole, Rows, Row, NoRow, EventOf, Event

\* An enumeration of a set of rows is a sequence over that set, as long as the
\* set is large.
LEMMA EnumerationTyped ==
  ASSUME NEW batch \in SUBSET Approval, NEW s \in SetToSeqs(batch)
  PROVE  /\ Cardinality(batch) \in Nat
         /\ Len(s) = Cardinality(batch) /\ DOMAIN s = 1 .. Len(s)
         /\ s \in Seq(batch)
         /\ batch # {} => Len(s) \in DOMAIN s
<1>1. IsFiniteSet(batch)
  BY FeedAssumption, FS_Subset
<1>2. Cardinality(batch) \in Nat /\ (Cardinality(batch) = 0 <=> batch = {})
  BY <1>1, FS_CardinalityType, FS_EmptySet
<1>3. s \in [1 .. Cardinality(batch) -> batch]
  BY DEF SetToSeqs
<1>4. s \in Seq(batch) /\ Len(s) = Cardinality(batch) /\ DOMAIN s = 1 .. Len(s)
  BY <1>2, <1>3
<1> QED
  BY <1>2, <1>4

LEMMA StreamsTyped == Fresh \in Stream /\ Closed \in Stream
BY FeedAssumption DEF Fresh, Closed, Stream

LEMMA BeginTyped ==
  ASSUME Typed, NEW a \in Approval, NEW c \in 0 .. MaxClicks,
         NEW status \in {"pending"} \cup Decided, Begin(a, c, status)
  PROVE  writing' \in [Approval -> SUBSET Write]
<1>1. [click |-> c, status |-> status, at |-> now] \in Write
  BY DEF Write, Typed, TypeOK
<1> QED
  BY <1>1 DEF Begin, Typed, TypeOK

\* The POST that is answered keeps its approval and its verdict, as do the others.
LEMMA AnswerTyped ==
  ASSUME Typed, NEW c \in DOMAIN posts, NEW answer \in {"ok", "error"},
         Answer(c, answer)
  PROVE  /\ busy' \in SUBSET Approval /\ posts' \in Seq(Post)
         /\ DOMAIN posts' = DOMAIN posts /\ Len(posts') = Len(posts)
         /\ \A d \in DOMAIN posts :
              /\ posts'[d].approval = posts[d].approval
              /\ posts'[d].status = posts[d].status
              /\ posts'[d].answer = IF d = c THEN answer ELSE posts[d].answer
<1>1. posts \in Seq(Post) /\ DOMAIN posts = 1 .. Len(posts) /\ Len(posts) \in Nat
  BY DEF Typed, TypeOK
<1>2. \A d \in DOMAIN posts : posts[d] \in Post
  BY <1>1
<1>3. posts' = [posts EXCEPT ![c].answer = answer] /\ busy' = {}
  BY DEF Answer
<1>4. /\ DOMAIN posts' = DOMAIN posts
      /\ \A d \in DOMAIN posts :
           /\ posts'[d] \in Post
           /\ posts'[d].approval = posts[d].approval
           /\ posts'[d].status = posts[d].status
           /\ posts'[d].answer = IF d = c THEN answer ELSE posts[d].answer
  BY <1>2, <1>3 DEF Post
<1>5. posts' \in Seq(Post) /\ Len(posts') = Len(posts)
  BY <1>1, <1>3, <1>4
<1> QED
  BY <1>3, <1>4, <1>5

LEMMA CommitTyped ==
  ASSUME Typed, NEW a \in Approval, NEW x, Commit(a, x),
         x.click # 0 => x.click \in DOMAIN posts
  PROVE  Typed'
<1>1. x \in Write
  BY DEF Commit, Typed, TypeOK
<1>2. [status |-> x.status, cursor_ts |-> x.at] \in Row
  BY <1>1 DEF Write, Row
<1>3. row' \in [Approval -> Row]
  BY <1>2 DEF Commit, Typed, TypeOK
<1>4. writing' \in [Approval -> SUBSET Write]
  BY DEF Commit, Typed, TypeOK
<1>5. busy' \in SUBSET Approval /\ posts' \in Seq(Post) /\ Len(posts') <= MaxClicks
  <2>1. CASE UNCHANGED <<busy, posts>>
    BY <2>1 DEF Typed, TypeOK
  <2>2. CASE x.click # 0 /\ Answer(x.click, IF MayWrite(a, x) THEN "ok" ELSE "error")
    BY <2>2, AnswerTyped DEF Typed, TypeOK
  <2> QED
    BY <2>1, <2>2 DEF Commit
<1>6. ASSUME NEW b \in Approval PROVE row'[b] = NoRow \/ row'[b].status # "none"
  <2>1. x.status # "none"
    BY <1>1 DEF Write, Decided
  <2>2. row[b] = NoRow \/ row[b].status # "none"
    BY DEF Typed, RowsWhole
  <2>3. row'[b] = row[b] \/ row'[b] = [status |-> x.status, cursor_ts |-> x.at]
    BY DEF Commit, Typed, TypeOK
  <2> QED
    BY <2>1, <2>2, <2>3
<1> QED
  BY <1>3, <1>4, <1>5, <1>6 DEF Commit, Typed, TypeOK, RowsWhole

LEMMA PollTyped ==
  ASSUME Typed, Poll
  PROVE  Typed'
<1>0. PICK batch \in SUBSET Rows : \E s \in SetToSeqs(batch) :
        /\ wire' = wire \o [i \in DOMAIN s |-> EventOf(s[i])]
        /\ stream' = [left |-> stream.left - 1,
                      cursor |-> IF batch = {} THEN stream.cursor
                                 ELSE {row[s[Len(s)]].cursor_ts}]
  BY DEF Poll
<1>1. PICK s \in SetToSeqs(batch) :
        /\ wire' = wire \o [i \in DOMAIN s |-> EventOf(s[i])]
        /\ stream' = [left |-> stream.left - 1,
                      cursor |-> IF batch = {} THEN stream.cursor
                                 ELSE {row[s[Len(s)]].cursor_ts}]
  BY <1>0
<1>2. batch \in SUBSET Approval
  BY DEF Rows
<1>3. /\ s \in Seq(batch) /\ DOMAIN s = 1 .. Len(s) /\ Len(s) \in Nat
      /\ batch # {} => Len(s) \in DOMAIN s
  BY <1>2, EnumerationTyped
<1>4. wire' \in Seq(Event)
  <2>1. \A i \in DOMAIN s : s[i] \in Rows
    BY <1>3
  <2>2. \A i \in DOMAIN s : EventOf(s[i]) \in Event
    BY <2>1, EventTyped
  <2>3. [i \in DOMAIN s |-> EventOf(s[i])] \in Seq(Event)
    BY <1>3, <2>2
  <2>4. wire \in Seq(Event)
    BY DEF Typed, TypeOK
  <2> QED
    BY <1>1, <2>3, <2>4
<1>5. stream' \in Stream
  <2>1. stream.left - 1 \in 0 .. ITERATIONS /\ stream.cursor \in SUBSET (0 .. MaxTime)
    BY FeedAssumption DEF Poll, Typed, TypeOK, Stream
  <2>2. batch # {} => s[Len(s)] \in Approval
    BY <1>2, <1>3
  <2>3. batch # {} => row[s[Len(s)]].cursor_ts \in 0 .. MaxTime
    BY <2>2 DEF Typed, TypeOK, Row
  <2> QED
    BY <1>1, <2>1, <2>3 DEF Stream
<1> QED
  BY <1>4, <1>5 DEF Poll, Typed, TypeOK, RowsWhole

LEMMA InitTyped == Init => Typed
<1> SUFFICES ASSUME Init PROVE Typed
  OBVIOUS
<1>1. NoRow \in Row
  BY FeedAssumption DEF NoRow, Row
<1>2. row \in [Approval -> Row] /\ RowsWhole
  BY <1>1 DEF Init, RowsWhole
<1>3. now \in 0 .. MaxTime /\ posts \in Seq(Post) /\ Len(posts) = 0
  BY FeedAssumption DEF Init
<1>4. stream \in Stream /\ wire \in Seq(Event)
  BY StreamsTyped DEF Init
<1> QED
  BY <1>2, <1>3, <1>4, FeedAssumption DEF Init, Typed, TypeOK

-----------------------------------------------------------------------------
(* A statement of a click is the one its POST asked for: of the same       *)
(* approval, with the same verdict, however many POSTs are under way and   *)
(* whichever of them the panel gave up.                                    *)

StatementsServeClicks ==
  \A a \in Approval : \A x \in writing[a] :
    x.click # 0 =>
      /\ x.click \in DOMAIN posts
      /\ posts[x.click].approval = a /\ posts[x.click].status = x.status

Inv == Typed /\ StatementsServeClicks /\ OkIsTheDecision

LEMMA NextTyped == Typed /\ StatementsServeClicks /\ [Next]_vars => Typed'
<1> SUFFICES ASSUME Typed, StatementsServeClicks, [Next]_vars PROVE Typed'
  OBVIOUS
<1>1. CASE Tick
  BY <1>1, FeedAssumption DEF Tick, Typed, TypeOK, RowsWhole
<1>2. ASSUME NEW a \in Approval, Request(a) PROVE Typed'
  <2>1. Begin(a, 0, "pending") /\ 0 \in 0 .. MaxClicks
    BY <1>2, FeedAssumption DEF Request
  <2>2. writing' \in [Approval -> SUBSET Write]
    BY <2>1, BeginTyped
  <2> QED
    BY <1>2, <2>2 DEF Request, Typed, TypeOK, RowsWhole
<1>3. ASSUME NEW a \in Approval, Expire(a) PROVE Typed'
  <2>1. Begin(a, 0, "expired") /\ 0 \in 0 .. MaxClicks /\ "expired" \in Decided
    BY <1>3, FeedAssumption DEF Expire, Decided
  <2>2. writing' \in [Approval -> SUBSET Write]
    BY <2>1, BeginTyped
  <2> QED
    BY <1>3, <2>2 DEF Expire, Typed, TypeOK, RowsWhole
<1>4. ASSUME NEW c \in DOMAIN posts, LambdaBegins(c) PROVE Typed'
  <2>1. c \in 1 .. Len(posts) /\ posts[c] \in Post /\ Len(posts) <= MaxClicks
    BY DEF Typed, TypeOK
  <2>2. /\ Begin(posts[c].approval, c, posts[c].status) /\ c \in 0 .. MaxClicks
        /\ posts[c].approval \in Approval /\ posts[c].status \in Decided
    BY <1>4, <2>1, FeedAssumption DEF LambdaBegins, Post, Decided
  <2>3. writing' \in [Approval -> SUBSET Write]
    BY <2>2, BeginTyped
  <2> QED
    BY <1>4, <2>3 DEF LambdaBegins, Typed, TypeOK, RowsWhole
<1>5. ASSUME NEW a \in Approval, NEW status \in {"approved", "rejected"},
             Click(a, status)
      PROVE Typed'
  <2>1. [approval |-> a, status |-> status, answer |-> "waits"] \in Post
    BY DEF Post
  <2>2. posts' \in Seq(Post) /\ Len(posts') <= MaxClicks
    BY <1>5, <2>1, FeedAssumption DEF Click, Typed, TypeOK
  <2> QED
    BY <1>5, <2>2 DEF Click, Typed, TypeOK, RowsWhole
<1>6. ASSUME NEW a \in Approval, NEW x \in writing[a], Commit(a, x) PROVE Typed'
  BY <1>6, CommitTyped DEF StatementsServeClicks
<1>7. ASSUME NEW c \in DOMAIN posts, ClickFails(c) PROVE Typed'
  <2>1. busy' \in SUBSET Approval /\ posts' \in Seq(Post) /\ Len(posts') = Len(posts)
    BY <1>7, AnswerTyped DEF ClickFails
  <2> QED
    BY <1>7, <2>1 DEF ClickFails, Typed, TypeOK, RowsWhole
<1>8. CASE Poll
  BY <1>8, PollTyped
<1>9. CASE PollFails
  <2>1. stream' \in Stream
    <3>1. stream \in Stream /\ stream.left > 0
      BY <1>9 DEF PollFails, Typed, TypeOK
    <3>2. stream.left - 1 \in 0 .. ITERATIONS
      BY <3>1, FeedAssumption DEF Stream
    <3> QED
      BY <1>9, <3>1, <3>2 DEF PollFails, Stream
  <2> QED
    BY <1>9, <2>1 DEF PollFails, Typed, TypeOK, RowsWhole
<1>10. CASE Receive
  <2>1. wire \in Seq(Event) /\ wire # <<>>
    BY <1>10 DEF Receive, Typed, TypeOK
  <2>2. Head(wire) \in Event /\ Tail(wire) \in Seq(Event)
    BY <2>1
  <2>3. Head(wire).status \in {"none", "pending"} \cup Decided
    BY <2>2 DEF Event
  <2>4. shown' \in [Approval -> {"none", "pending"} \cup Decided]
    BY <1>10, <2>3 DEF Receive, Typed, TypeOK
  <2> QED
    BY <1>10, <2>2, <2>4 DEF Receive, Typed, TypeOK, RowsWhole
<1>11. CASE Reconnect
  BY <1>11, StreamsTyped DEF Reconnect, Typed, TypeOK, RowsWhole
<1>12. CASE Disconnect
  BY <1>12, StreamsTyped DEF Disconnect, Typed, TypeOK, RowsWhole
<1>13. CASE UNCHANGED vars
  BY <1>13 DEF vars, Typed, TypeOK, RowsWhole
<1> QED
  BY <1>1, <1>2, <1>3, <1>4, <1>5, <1>6, <1>7, <1>8, <1>9, <1>10, <1>11, <1>12,
     <1>13 DEF Next

\* What Begin leaves under way.
LEMMA BeginAdds ==
  ASSUME Typed, NEW a \in Approval, NEW c, NEW status, Begin(a, c, status),
         NEW b \in Approval, NEW x \in writing'[b]
  PROVE  x \in writing[b] \/ (b = a /\ x.click = c /\ x.status = status)
BY DEF Begin, Typed, TypeOK

\* A statement that begins asks for what the POST it serves asks for, if any.
LEMMA BeginServes ==
  ASSUME Inv, NEW a \in Approval, NEW c, NEW status, Begin(a, c, status),
         UNCHANGED <<row, posts>>,
         c # 0 => c \in DOMAIN posts /\ posts[c].approval = a /\ posts[c].status = status
  PROVE  StatementsServeClicks' /\ OkIsTheDecision'
<1>1. ASSUME NEW b \in Approval, NEW x \in writing'[b], x.click # 0
      PROVE  /\ x.click \in DOMAIN posts
             /\ posts[x.click].approval = b /\ posts[x.click].status = x.status
  <2>1. CASE x \in writing[b]
    BY <1>1, <2>1 DEF Inv, StatementsServeClicks
  <2>2. CASE b = a /\ x.click = c /\ x.status = status
    BY <1>1, <2>2
  <2> QED
    BY <2>1, <2>2, BeginAdds DEF Inv
<1> QED
  BY <1>1 DEF Inv, StatementsServeClicks, OkIsTheDecision

\* An answer changes neither what a POST asked for nor what another was told.
LEMMA AnswerKeeps ==
  ASSUME Inv, NEW c \in DOMAIN posts, NEW answer \in {"ok", "error"},
         Answer(c, answer), \A b \in Approval : writing'[b] \subseteq writing[b]
  PROVE  StatementsServeClicks'
BY AnswerTyped DEF Inv, StatementsServeClicks

LEMMA CommitAnswers ==
  ASSUME Inv, NEW a \in Approval, NEW x \in writing[a], Commit(a, x)
  PROVE  StatementsServeClicks' /\ OkIsTheDecision'
<1>1. /\ row \in [Approval -> Row] /\ writing \in [Approval -> SUBSET Write]
      /\ \A d \in DOMAIN posts : posts[d] \in Post
  BY DEF Inv, Typed, TypeOK
<1>2. /\ writing' = [writing EXCEPT ![a] = @ \ {x}]
      /\ row' = IF MayWrite(a, x)
                THEN [row EXCEPT ![a] = [status |-> x.status, cursor_ts |-> x.at]]
                ELSE row
  BY DEF Commit
<1>3. \A b \in Approval : writing'[b] \subseteq writing[b]
  BY <1>1, <1>2
<1>4. ASSUME NEW c \in DOMAIN posts, posts[c].answer = "ok"
      PROVE  row'[posts[c].approval].status = posts[c].status
  \* The decision stands: no WHERE clause finds the row pending any more.
  <2>1. /\ posts[c].approval \in Approval
        /\ posts[c].status \in {"approved", "rejected"}
        /\ row[posts[c].approval].status = posts[c].status
    BY <1>1, <1>4 DEF Post, Inv, OkIsTheDecision
  <2>2. posts[c].approval = a => ~MayWrite(a, x)
    BY <2>1 DEF MayWrite, NoRow
  <2> QED
    BY <1>1, <1>2, <2>1, <2>2
<1>5. CASE UNCHANGED <<busy, posts>>
  BY <1>3, <1>4, <1>5 DEF Inv, StatementsServeClicks, OkIsTheDecision
<1>6. CASE /\ x.click # 0 /\ posts[x.click].answer = "waits"
           /\ Answer(x.click, IF MayWrite(a, x) THEN "ok" ELSE "error")
  <2>1. /\ x.click \in DOMAIN posts
        /\ posts[x.click].approval = a /\ posts[x.click].status = x.status
    BY <1>6 DEF Inv, StatementsServeClicks
  <2>2. PICK answer \in {"ok", "error"} :
          answer = IF MayWrite(a, x) THEN "ok" ELSE "error"
    OBVIOUS
  <2>3. Answer(x.click, answer)
    BY <1>6, <2>2
  <2>4. /\ DOMAIN posts' = DOMAIN posts
        /\ \A d \in DOMAIN posts :
             /\ posts'[d].approval = posts[d].approval
             /\ posts'[d].status = posts[d].status
             /\ posts'[d].answer = IF d = x.click THEN answer ELSE posts[d].answer
    BY <2>1, <2>3, AnswerTyped DEF Inv
  <2>5. ASSUME NEW d \in DOMAIN posts', posts'[d].answer = "ok"
        PROVE  row'[posts'[d].approval].status = posts'[d].status
    <3>1. CASE d # x.click
      BY <1>4, <2>4, <2>5, <3>1
    <3>2. CASE d = x.click
      \* This very statement answered: it served the click, and it wrote.
      <4>1. MayWrite(a, x)
        BY <2>2, <2>4, <2>5, <3>2
      <4>2. row'[a] = [status |-> x.status, cursor_ts |-> x.at]
        BY <1>1, <1>2, <4>1
      <4> QED
        BY <2>1, <2>4, <3>2, <4>2
    <3> QED
      BY <3>1, <3>2
  <2>6. StatementsServeClicks'
    BY <1>3, <2>1, <2>3, AnswerKeeps
  <2> QED
    BY <2>5, <2>6 DEF OkIsTheDecision
<1> QED
  BY <1>5, <1>6 DEF Commit

LEMMA NextInv == Inv /\ [Next]_vars => Inv'
<1> SUFFICES ASSUME Inv, [Next]_vars
             PROVE  StatementsServeClicks' /\ OkIsTheDecision'
  BY NextTyped DEF Inv
<1>1. ASSUME NEW a \in Approval, Request(a)
      PROVE  StatementsServeClicks' /\ OkIsTheDecision'
  BY <1>1, BeginServes DEF Request
<1>2. ASSUME NEW a \in Approval, Expire(a)
      PROVE  StatementsServeClicks' /\ OkIsTheDecision'
  BY <1>2, BeginServes DEF Expire
<1>3. ASSUME NEW c \in DOMAIN posts, LambdaBegins(c)
      PROVE  StatementsServeClicks' /\ OkIsTheDecision'
  <2>1. posts[c] \in Post
    BY DEF Inv, Typed, TypeOK
  <2>2. posts[c].approval \in Approval
    BY <2>1 DEF Post
  <2> QED
    BY <1>3, <2>2, BeginServes DEF LambdaBegins
<1>4. ASSUME NEW a \in Approval, NEW status \in {"approved", "rejected"},
             Click(a, status)
      PROVE  StatementsServeClicks' /\ OkIsTheDecision'
  <2>1. posts \in Seq(Post) /\ UNCHANGED <<row, writing>>
        /\ posts' = Append(posts, [approval |-> a, status |-> status,
                                  answer |-> "waits"])
    BY <1>4 DEF Click, Inv, Typed, TypeOK
  <2>2. /\ DOMAIN posts \subseteq DOMAIN posts'
        /\ \A d \in DOMAIN posts : posts'[d] = posts[d]
        /\ \A d \in DOMAIN posts' :
             d \in DOMAIN posts \/ posts'[d].answer = "waits"
    BY <2>1
  <2> QED
    BY <2>1, <2>2 DEF Inv, StatementsServeClicks, OkIsTheDecision
<1>5. ASSUME NEW a \in Approval, NEW x \in writing[a], Commit(a, x)
      PROVE  StatementsServeClicks' /\ OkIsTheDecision'
  BY <1>5, CommitAnswers
<1>6. ASSUME NEW c \in DOMAIN posts, ClickFails(c)
      PROVE  StatementsServeClicks' /\ OkIsTheDecision'
  <2>1. Answer(c, "error") /\ UNCHANGED <<row, writing>>
    BY <1>6 DEF ClickFails
  <2>2. StatementsServeClicks'
    BY <2>1, AnswerKeeps
  <2>3. OkIsTheDecision'
    BY <2>1, AnswerTyped DEF Inv, OkIsTheDecision
  <2> QED
    BY <2>2, <2>3
<1>7. CASE UNCHANGED <<row, writing, posts>>
  BY <1>7 DEF Inv, StatementsServeClicks, OkIsTheDecision
<1> QED
  BY <1>1, <1>2, <1>3, <1>4, <1>5, <1>6, <1>7
  DEF Next, Tick, Poll, PollFails, Receive, Reconnect, Disconnect, vars

LEMMA InitInv == Init => Inv
<1> SUFFICES ASSUME Init PROVE StatementsServeClicks /\ OkIsTheDecision
  BY InitTyped DEF Inv
<1> QED
  BY DEF Init, StatementsServeClicks, OkIsTheDecision

LEMMA Invariance == Spec => []Inv
BY InitInv, NextInv, PTL DEF Spec

\* Rows, statements, streams, events and clicks have their types.
THEOREM TypeCorrect == Spec => []TypeOK
<1>1. Inv => TypeOK
  BY DEF Inv, Typed
<1> QED
  BY Invariance, <1>1, PTL

\* What a click answered 200 decided is what the table says from then on,
\* however many POSTs are under way with it, or were given up with their
\* statements under way.
THEOREM AnswersAreTrue == Spec => []OkIsTheDecision
<1>1. Inv => OkIsTheDecision
  BY DEF Inv
<1> QED
  BY Invariance, <1>1, PTL

-----------------------------------------------------------------------------
(* Finality.                                                               *)

\* No step changes a decided row: neither its decision nor the instant the
\* feed's cursor is compared with.
DecidedForGood ==
  \A a \in Approval : row[a].status \in Decided => row'[a] = row[a]

LEMMA CommitIsFinal ==
  ASSUME Inv, NEW a \in Approval, NEW x \in writing[a], Commit(a, x)
  PROVE  DecidedForGood
<1> SUFFICES ASSUME NEW b \in Approval, row[b].status \in Decided
             PROVE  row'[b] = row[b]
  BY DEF DecidedForGood
<1>1. row \in [Approval -> Row]
  BY DEF Inv, Typed, TypeOK
<1>2. b = a => ~MayWrite(a, x)
  BY DEF MayWrite, Decided, NoRow
<1> QED
  BY <1>1, <1>2 DEF Commit

\* The approvals Lambda and the agent's deadline decide a request once between
\* them: the WHERE clause of either finds it pending no more.
THEOREM DecisionsStand == Spec => [][DecidedForGood]_vars
<1>1. Inv /\ [Next]_vars => [DecidedForGood]_vars
  <2> SUFFICES ASSUME Inv, [Next]_vars PROVE DecidedForGood \/ UNCHANGED vars
    OBVIOUS
  <2>1. ASSUME NEW a \in Approval, NEW x \in writing[a], Commit(a, x)
        PROVE  DecidedForGood
    BY <2>1, CommitIsFinal
  <2>2. CASE row' = row
    BY <2>2 DEF DecidedForGood
  <2> QED
    BY <2>1, <2>2
    DEF Next, Tick, Request, Expire, LambdaBegins, Click, ClickFails, Poll,
        PollFails, Receive, Reconnect, Disconnect, vars
<1> QED
  BY Invariance, <1>1, PTL DEF Spec
=============================================================================
