---------------------------- MODULE AgentProofs ----------------------------
(***************************************************************************)
(* Proofs about Agent, for any number of processes, messages and rows: its *)
(* type invariant; the use of leases, whatever goes wrong; and, where one  *)
(* run is made at a time, that it meets the task and the checkpoint the    *)
(* run before it left.                                                     *)
(***************************************************************************)
EXTENDS Agent, TLAPS

-----------------------------------------------------------------------------
(* Types. *)

Others(p) == \A q \in Proc \ {p} : agent'[q] = agent[q]

LEMMA BecomesTyped ==
  ASSUME TypeOK, NEW p \in Proc, NEW r \in Process, Becomes(p, r)
  PROVE  agent' \in [Proc -> Process] /\ agent'[p] = r /\ Others(p)
  BY DEF TypeOK, Becomes, Others

LEMMA IdleIsProcess == Idle \in Process
  BY AgentConstants DEF Idle, Process, Pcs, Held, Places, Closed

(* What a step sets of a process's record keeps it one; and what becomes   *)
(* of the place, the task and the renewer of the process.                  *)
LEMMA Moves ==
  ASSUME TypeOK, NEW p \in Proc, NEW pc \in Pcs,
         Becomes(p, [agent[p] EXCEPT !.pc = pc])
  PROVE  /\ agent' \in [Proc -> Process] /\ Others(p)
         /\ agent'[p].pc = pc /\ agent'[p].id = agent[p].id
         /\ agent'[p].renewer = agent[p].renewer
<1>1. agent[p] \in Process
  BY DEF TypeOK
<1>2. [agent[p] EXCEPT !.pc = pc] \in Process
  BY <1>1 DEF Process
<1>3. agent'[p] = [agent[p] EXCEPT !.pc = pc]
  BY <1>2, BecomesTyped
<1> QED
  BY <1>1, <1>2, <1>3, BecomesTyped DEF Process

LEMMA Finds ==
  ASSUME TypeOK, NEW p \in Proc, NEW pc \in Pcs, NEW i \in 0..MaxTasks,
         Becomes(p, [agent[p] EXCEPT !.pc = pc, !.id = i])
  PROVE  /\ agent' \in [Proc -> Process] /\ Others(p)
         /\ agent'[p].pc = pc /\ agent'[p].id = i
         /\ agent'[p].renewer = agent[p].renewer
<1>1. agent[p] \in Process
  BY DEF TypeOK
<1>2. [agent[p] EXCEPT !.pc = pc, !.id = i] \in Process
  BY <1>1 DEF Process
<1>3. agent'[p] = [agent[p] EXCEPT !.pc = pc, !.id = i]
  BY <1>2, BecomesTyped
<1> QED
  BY <1>1, <1>2, <1>3, BecomesTyped DEF Process

LEMMA Decides ==
  ASSUME TypeOK, NEW p \in Proc, NEW pc \in Pcs, NEW b \in BOOLEAN,
         Becomes(p, [agent[p] EXCEPT !.pc = pc, !.resume = b])
  PROVE  /\ agent' \in [Proc -> Process] /\ Others(p)
         /\ agent'[p].pc = pc /\ agent'[p].id = agent[p].id
         /\ agent'[p].renewer = agent[p].renewer
<1>1. agent[p] \in Process
  BY DEF TypeOK
<1>2. [agent[p] EXCEPT !.pc = pc, !.resume = b] \in Process
  BY <1>1 DEF Process
<1>3. agent'[p] = [agent[p] EXCEPT !.pc = pc, !.resume = b]
  BY <1>2, BecomesTyped
<1> QED
  BY <1>1, <1>2, <1>3, BecomesTyped DEF Process

LEMMA Wins ==
  ASSUME TypeOK, NEW p \in Proc, NEW pc \in Pcs, NEW w \in {"off", "on", "late", "failed", "lost"},
         Becomes(p, [agent[p] EXCEPT !.pc = pc, !.renewer = w])
  PROVE  /\ agent' \in [Proc -> Process] /\ Others(p)
         /\ agent'[p].pc = pc /\ agent'[p].id = agent[p].id
         /\ agent'[p].renewer = w
<1>1. agent[p] \in Process
  BY DEF TypeOK
<1>2. [agent[p] EXCEPT !.pc = pc, !.renewer = w] \in Process
  BY <1>1 DEF Process
<1>3. agent'[p] = [agent[p] EXCEPT !.pc = pc, !.renewer = w]
  BY <1>2, BecomesTyped
<1> QED
  BY <1>1, <1>2, <1>3, BecomesTyped DEF Process

LEMMA Closes ==
  ASSUME TypeOK, NEW p \in Proc, NEW pc \in Pcs, NEW o \in Closed \cup {"none"},
         Becomes(p, [agent[p] EXCEPT !.pc = pc, !.outcome = o])
  PROVE  /\ agent' \in [Proc -> Process] /\ Others(p)
         /\ agent'[p].pc = pc /\ agent'[p].id = agent[p].id
         /\ agent'[p].renewer = agent[p].renewer
<1>1. agent[p] \in Process
  BY DEF TypeOK
<1>2. [agent[p] EXCEPT !.pc = pc, !.outcome = o] \in Process
  BY <1>1 DEF Process
<1>3. agent'[p] = [agent[p] EXCEPT !.pc = pc, !.outcome = o]
  BY <1>2, BecomesTyped
<1> QED
  BY <1>1, <1>2, <1>3, BecomesTyped DEF Process

LEMMA Starts ==
  ASSUME TypeOK, NEW p \in Proc, NEW pc \in Pcs, NEW n \in Places \cup {"none"},
         Becomes(p, [agent[p] EXCEPT !.pc = pc, !.node = n])
  PROVE  /\ agent' \in [Proc -> Process] /\ Others(p)
         /\ agent'[p].pc = pc /\ agent'[p].id = agent[p].id
         /\ agent'[p].renewer = agent[p].renewer
<1>1. agent[p] \in Process
  BY DEF TypeOK
<1>2. [agent[p] EXCEPT !.pc = pc, !.node = n] \in Process
  BY <1>1 DEF Process
<1>3. agent'[p] = [agent[p] EXCEPT !.pc = pc, !.node = n]
  BY <1>2, BecomesTyped
<1> QED
  BY <1>1, <1>2, <1>3, BecomesTyped DEF Process

LEMMA Resumes ==
  ASSUME TypeOK, NEW p \in Proc, NEW pc \in Pcs, NEW n \in Places \cup {"none"}, NEW k \in 0..MaxTasks,
         Becomes(p, [agent[p] EXCEPT !.pc = pc, !.node = n, !.run = k])
  PROVE  /\ agent' \in [Proc -> Process] /\ Others(p)
         /\ agent'[p].pc = pc /\ agent'[p].id = agent[p].id
         /\ agent'[p].renewer = agent[p].renewer
<1>1. agent[p] \in Process
  BY DEF TypeOK
<1>2. [agent[p] EXCEPT !.pc = pc, !.node = n, !.run = k] \in Process
  BY <1>1 DEF Process
<1>3. agent'[p] = [agent[p] EXCEPT !.pc = pc, !.node = n, !.run = k]
  BY <1>2, BecomesTyped
<1> QED
  BY <1>1, <1>2, <1>3, BecomesTyped DEF Process

LEMMA GoesOn ==
  ASSUME TypeOK, NEW p \in Proc, NEW n \in Places \cup {"none"},
         Becomes(p, [agent[p] EXCEPT !.node = n])
  PROVE  /\ agent' \in [Proc -> Process] /\ Others(p)
         /\ agent'[p].pc = agent[p].pc /\ agent'[p].id = agent[p].id
         /\ agent'[p].renewer = agent[p].renewer
<1>1. agent[p] \in Process
  BY DEF TypeOK
<1>2. [agent[p] EXCEPT !.node = n] \in Process
  BY <1>1 DEF Process
<1>3. agent'[p] = [agent[p] EXCEPT !.node = n]
  BY <1>2, BecomesTyped
<1> QED
  BY <1>1, <1>2, <1>3, BecomesTyped DEF Process

LEMMA Observes ==
  ASSUME TypeOK, NEW p \in Proc, NEW n \in Places \cup {"none"}, NEW k \in 0..MaxTasks,
         Becomes(p, [agent[p] EXCEPT !.node = n, !.run = k])
  PROVE  /\ agent' \in [Proc -> Process] /\ Others(p)
         /\ agent'[p].pc = agent[p].pc /\ agent'[p].id = agent[p].id
         /\ agent'[p].renewer = agent[p].renewer
<1>1. agent[p] \in Process
  BY DEF TypeOK
<1>2. [agent[p] EXCEPT !.node = n, !.run = k] \in Process
  BY <1>1 DEF Process
<1>3. agent'[p] = [agent[p] EXCEPT !.node = n, !.run = k]
  BY <1>2, BecomesTyped
<1> QED
  BY <1>1, <1>2, <1>3, BecomesTyped DEF Process

LEMMA Learns ==
  ASSUME TypeOK, NEW p \in Proc, NEW w \in {"off", "on", "late", "failed", "lost"},
         Becomes(p, [agent[p] EXCEPT !.renewer = w])
  PROVE  /\ agent' \in [Proc -> Process] /\ Others(p)
         /\ agent'[p].pc = agent[p].pc /\ agent'[p].id = agent[p].id
         /\ agent'[p].renewer = w
<1>1. agent[p] \in Process
  BY DEF TypeOK
<1>2. [agent[p] EXCEPT !.renewer = w] \in Process
  BY <1>1 DEF Process
<1>3. agent'[p] = [agent[p] EXCEPT !.renewer = w]
  BY <1>2, BecomesTyped
<1> QED
  BY <1>1, <1>2, <1>3, BecomesTyped DEF Process

LEMMA GoToTyped ==
  ASSUME TypeOK, NEW p \in Proc, NEW pc \in Pcs, GoTo(p, pc)
  PROVE  /\ agent' \in [Proc -> Process] /\ Others(p)
         /\ agent'[p].pc = pc /\ agent'[p].id = agent[p].id
         /\ agent'[p].renewer = agent[p].renewer
  BY Moves DEF GoTo

LEMMA LeaveTyped ==
  ASSUME TypeOK, NEW p \in Proc, Leave(p)
  PROVE  agent' \in [Proc -> Process] /\ Others(p) /\ agent'[p].pc = "idle"
  BY IdleIsProcess, BecomesTyped DEF Leave, Idle

LEMMA FreedTyped ==
  ASSUME TypeOK, NEW p \in Proc
  PROVE  Freed(p) \in [Id -> Proc \cup {"free", "gone"}]
  BY DEF TypeOK, Freed

LEMMA RowTyped ==
  ASSUME TypeOK, NEW p \in Proc, FreeRow(p) \/ LeaveRow(p) \/ Abandon(p)
  PROVE  lease' \in [Id -> Proc \cup {"free", "gone"}] /\ left' \in SUBSET Id
<1>1. CASE FreeRow(p)
  BY <1>1, FreedTyped DEF TypeOK, FreeRow
<1>2. CASE LeaveRow(p) \/ Abandon(p)
  BY <1>2 DEF TypeOK, LeaveRow, Abandon
<1> QED
  BY <1>1, <1>2

LEMMA TypeInit == Init => TypeOK
<1> SUFFICES ASSUME Init PROVE TypeOK
  OBVIOUS
<1>1. agent \in [Proc -> Process]
  BY IdleIsProcess DEF Init
<1>2. queue \in [Msg -> [at : {"waiting", "inflight", "acked", "dead"},
                         receives : 0..MaxReceives]]
  BY AgentConstants DEF Init
<1>3. thread \in [next : (Places \ {"observed"}) \cup {"none"}, task : 0..MaxTasks]
  BY AgentConstants DEF Init, Places
<1> QED
  BY <1>1, <1>2, <1>3, AgentConstants DEF Init, TypeOK

LEMMA ReceiveTyped ==
  ASSUME TypeOK, NEW p \in Proc, NEW m \in Msg, Receive(p, m)
  PROVE  TypeOK' /\ agent'[p].pc = "probe" /\ Others(p)
<1> DEFINE n == queue[m].receives + 1
           r == [Idle EXCEPT !.pc = "probe", !.msg = m, !.receipt = n]
<1>1. n \in 0..MaxReceives
  BY AgentConstants DEF TypeOK, Receive
<1>2. r \in Process
  BY <1>1, IdleIsProcess DEF Process, Pcs
<1>3. agent' \in [Proc -> Process] /\ agent'[p].pc = "probe" /\ Others(p)
  <2>1. r.pc = "probe"
    BY DEF Idle
  <2> QED
    BY <1>2, <2>1, BecomesTyped DEF Receive
<1>4. queue' \in [Msg -> [at : {"waiting", "inflight", "acked", "dead"},
                          receives : 0..MaxReceives]]
  BY <1>1 DEF TypeOK, Receive
<1> QED
  BY <1>3, <1>4 DEF TypeOK, Receive, rows

LEMMA QueueTyped ==
  ASSUME TypeOK, NEW m \in Msg, Reappear(m) \/ DeadLetter(m) PROVE TypeOK'
<1>1. queue' \in [Msg -> [at : {"waiting", "inflight", "acked", "dead"},
                          receives : 0..MaxReceives]]
  BY AgentConstants DEF TypeOK, Reappear, DeadLetter
<1> QED
  BY <1>1 DEF TypeOK, Reappear, DeadLetter, rows

LEMMA WebhookTyped ==
  ASSUME TypeOK, NEW i \in Id, Webhook(i) PROVE TypeOK'
  BY DEF TypeOK, Webhook, env, Active

LEMMA BeginTyped ==
  ASSUME TypeOK, NEW p \in Proc, Begin(p) PROVE TypeOK'
<1>1. CASE ProbeSlow(p)
  BY <1>1, GoToTyped DEF TypeOK, ProbeSlow, rows, env, Pcs
<1>2. CASE ProbeFast(p)
  <2>1. agent' \in [Proc -> Process]
    BY <1>2, GoToTyped DEF ProbeFast, Pcs
  <2>2. thread' \in [next : (Places \ {"observed"}) \cup {"none"}, task : 0..MaxTasks]
    BY <1>2, AgentConstants DEF ProbeFast, Places
  <2> QED
    BY <1>2, <2>1, <2>2 DEF TypeOK, ProbeFast, env
<1>3. CASE SweepEnds(p)
  <2>1. agent' \in [Proc -> Process]
    BY <1>3, Closes DEF SweepEnds, Pcs, Closed
  <2>2. thread' \in [next : (Places \ {"observed"}) \cup {"none"}, task : 0..MaxTasks]
    BY <1>3, AgentConstants DEF SweepEnds, Places
  <2> QED
    BY <1>3, <2>1, <2>2 DEF TypeOK, SweepEnds, env
<1>4. CASE InsertTask(p)
  <2>1. PICK i \in Id : /\ task' = [task EXCEPT ![i] = "pending"]
                        /\ Becomes(p, [agent[p] EXCEPT !.pc = "status", !.id = i])
    BY <1>4 DEF InsertTask
  <2>2. "status" \in Pcs /\ i \in 0..MaxTasks
    BY AgentConstants DEF Pcs, Id
  <2>3. agent' \in [Proc -> Process]
    BY <2>1, <2>2, Finds
  <2> QED
    BY <1>4, <2>1, <2>3 DEF TypeOK, InsertTask, env, Active
<1>5. CASE InsertConflict(p)
  BY <1>5, GoToTyped DEF TypeOK, InsertConflict, rows, env, Pcs
<1>6. CASE SelectTask(p)
  <2>1. agent' \in [Proc -> Process]
    <3>1. CASE ActiveTasks = {}
      BY <1>6, <3>1, LeaveTyped DEF SelectTask
    <3>2. CASE ActiveTasks # {}
      <4>1. PICK i \in Id : Becomes(p, [agent[p] EXCEPT !.pc = "status", !.id = i])
        BY <1>6, <3>2 DEF SelectTask, ActiveTasks
      <4>2. "status" \in Pcs /\ i \in 0..MaxTasks
        BY AgentConstants DEF Pcs, Id
      <4> QED
        BY <4>1, <4>2, Finds
    <3> QED
      BY <3>1, <3>2
  <2> QED
    BY <1>6, <2>1 DEF TypeOK, SelectTask, rows, env
<1>7. CASE ReadStatus(p)
  <2>1. agent' \in [Proc -> Process]
    BY <1>7, Decides DEF ReadStatus, Pcs
  <2> QED
    BY <1>7, <2>1 DEF TypeOK, ReadStatus, rows, env
<1>8. CASE ShouldResume(p)
  <2>1. (agent[p].resume /\ thread.next # "none") \in BOOLEAN
    OBVIOUS
  <2>2. agent' \in [Proc -> Process]
    BY <1>8, <2>1, Decides DEF ShouldResume, Pcs
  <2> QED
    BY <1>8, <2>2 DEF TypeOK, ShouldResume, rows, env
<1>9. CASE Start(p)
  <2>1. CASE ActiveTasks \subseteq {agent[p].id}
    BY <1>9, <2>1, GoToTyped DEF TypeOK, Start, env, Pcs, Active
  <2>2. CASE ~(ActiveTasks \subseteq {agent[p].id})
    BY <1>9, <2>2, LeaveTyped DEF TypeOK, Start, env
  <2> QED
    BY <2>1, <2>2
<1>10. CASE Acquire(p)
  <2>1. agent' \in [Proc -> Process]
    BY <1>10, Wins DEF Acquire, Pcs, Held
  <2> QED
    BY <1>10, <2>1 DEF TypeOK, Acquire, env
<1>11. CASE AcquireTimeout(p)
  BY <1>11, LeaveTyped DEF TypeOK, AcquireTimeout, rows, env
<1> QED
  BY <1>1, <1>2, <1>3, <1>4, <1>5, <1>6, <1>7, <1>8, <1>9, <1>10, <1>11 DEF Begin

LEMMA CheckpointTyped ==
  ASSUME TypeOK, NEW p \in Proc, NEW next \in {"work", "end"}, Checkpoint(p, next)
  PROVE  TypeOK'
<1>1. agent' \in [Proc -> Process]
  BY GoesOn DEF Checkpoint, Places
<1>2. agent[p].run \in 0..MaxTasks
  BY DEF TypeOK, Process
<1> QED
  BY <1>1, <1>2 DEF TypeOK, Checkpoint, env, Places

LEMMA GraphTyped ==
  ASSUME TypeOK, NEW p \in Proc, Graph(p) PROVE TypeOK'
<1>1. CASE Invoke(p)
  <2>1. /\ "graph" \in Pcs /\ thread.next \in Places \cup {"none"}
        /\ "observe" \in Places \cup {"none"} /\ thread.task \in 0..MaxTasks
    BY DEF Pcs, Held, TypeOK, Places
  <2>2. CASE agent[p].resume
    <3>1. agent' \in [Proc -> Process]
      BY <1>1, <2>1, <2>2, Resumes DEF Invoke
    <3> QED
      BY <1>1, <2>2, <3>1 DEF TypeOK, Invoke, env
  <2>3. CASE ~agent[p].resume
    <3>1. agent' \in [Proc -> Process]
      BY <1>1, <2>1, <2>3, Starts DEF Invoke
    <3>2. thread' \in [next : (Places \ {"observed"}) \cup {"none"}, task : 0..MaxTasks]
      BY <1>1, <2>3, AgentConstants DEF Invoke, Places
    <3> QED
      BY <1>1, <2>3, <3>1, <3>2 DEF TypeOK, Invoke, env
  <2> QED
    BY <2>2, <2>3
<1>2. CASE Observe(p)
  <2>1. PICK i \in Id : Becomes(p, [agent[p] EXCEPT !.node = "observed", !.run = i])
    BY <1>2 DEF Observe, ActiveTasks
  <2>2. "observed" \in Places \cup {"none"} /\ i \in 0..MaxTasks
    BY AgentConstants DEF Places, Id
  <2>3. agent' \in [Proc -> Process]
    BY <2>1, <2>2, Observes
  <2>4. task' \in [Id -> {"none"} \cup Active \cup Closed]
    BY <1>2 DEF TypeOK, Observe, Active
  <2> QED
    BY <1>2, <2>3, <2>4 DEF TypeOK, Observe, env
<1>3. CASE ObserveReturns(p)
  BY <1>3, CheckpointTyped DEF ObserveReturns
<1>4. CASE ObserveNothing(p)
  BY <1>4, CheckpointTyped DEF ObserveNothing
<1>5. CASE WorkReturns(p)
  BY <1>5, CheckpointTyped DEF WorkReturns
<1>6. CASE Apply(p)
  BY <1>6 DEF TypeOK, Apply, rows
<1>7. CASE GraphEnds(p)
  <2>1. agent' \in [Proc -> Process]
    BY <1>7, Closes DEF GraphEnds, Pcs, Held, Closed
  <2> QED
    BY <1>7, <2>1 DEF TypeOK, GraphEnds, rows, env
<1>8. CASE Interrupt(p)
  <2>1. agent' \in [Proc -> Process]
    BY <1>8, Closes DEF Interrupt, Pcs, Held, Closed
  <2> QED
    BY <1>8, <2>1 DEF TypeOK, Interrupt, rows, env
<1> QED
  BY <1>1, <1>2, <1>3, <1>4, <1>5, <1>6, <1>7, <1>8 DEF Graph

LEMMA EndTyped ==
  ASSUME TypeOK, NEW p \in Proc, End(p) PROVE TypeOK'
<1>1. CASE WriteStatus(p)
  <2>1. agent' \in [Proc -> Process]
    BY <1>1, GoToTyped DEF WriteStatus, Pcs, Held
  <2>2. agent[p].outcome \in Closed \cup {"none"}
    BY DEF TypeOK, Process
  <2>3. task' \in [Id -> {"none"} \cup Active \cup Closed]
    BY <1>1, <2>2 DEF TypeOK, WriteStatus
  <2> QED
    BY <1>1, <2>1, <2>3 DEF TypeOK, WriteStatus, env
<1>2. CASE Release(p)
  <2>1. agent' \in [Proc -> Process]
    BY <1>2, GoToTyped DEF Release, Pcs
  <2>2. lease' \in [Id -> Proc \cup {"free", "gone"}] /\ left' \in SUBSET Id
    BY <1>2, RowTyped DEF Release
  <2> QED
    BY <1>2, <2>1, <2>2 DEF TypeOK, Release, env
<1>3. CASE ReleaseRaises(p)
  <2>1. lease' \in [Id -> Proc \cup {"free", "gone"}] /\ left' \in SUBSET Id
    BY <1>3, RowTyped DEF ReleaseRaises
  <2> QED
    BY <1>3, <2>1, LeaveTyped DEF TypeOK, ReleaseRaises, env
<1>4. CASE Ack(p)
  <2>1. queue' \in [Msg -> [at : {"waiting", "inflight", "acked", "dead"},
                            receives : 0..MaxReceives]]
    BY <1>4 DEF TypeOK, Ack
  <2> QED
    BY <1>4, <2>1, LeaveTyped DEF TypeOK, Ack, rows
<1>5. CASE Exit(p)
  BY <1>5, LeaveTyped, RowTyped DEF TypeOK, Exit, env
<1> QED
  BY <1>1, <1>2, <1>3, <1>4, <1>5 DEF End

LEMMA FailTyped ==
  ASSUME TypeOK, NEW p \in Proc, Fail(p) PROVE TypeOK'
<1>0. CASE AcquireRaises(p)
  <2>1. lease' \in [Id -> Proc \cup {"free", "gone"}] /\ left' \in SUBSET Id
    BY <1>0 DEF TypeOK, AcquireRaises
  <2> QED
    BY <1>0, <2>1, LeaveTyped DEF TypeOK, AcquireRaises, env
<1>f. CASE Fail(p) /\ ~AcquireRaises(p)
  <2>1. agent' \in [Proc -> Process]
    <3>1. CASE SweepRaises(p)
      <4>1. PICK o \in Closed : Becomes(p, [agent[p] EXCEPT !.pc = "ack", !.outcome = o])
        BY <3>1 DEF SweepRaises, Closed
      <4> QED
        BY <4>1, Closes DEF Pcs
    <3>2. CASE Raise(p)
      BY <3>2, LeaveTyped DEF Raise
    <3>3. CASE GraphRaises(p)
      <4>1. PICK o \in Closed :
              Becomes(p, [agent[p] EXCEPT !.pc = "caught", !.outcome = o])
        BY <3>3 DEF GraphRaises, Closed
      <4> QED
        BY <4>1, Closes DEF Pcs, Held
    <3>4. CASE WriteError(p)
      <4>1. CASE At(p, "finish")
        BY <3>4, <4>1, Closes DEF WriteError, Pcs, Held, Closed
      <4>2. CASE ~At(p, "finish")
        BY <3>4, <4>2, GoToTyped DEF WriteError, Pcs, Held
      <4> QED
        BY <4>1, <4>2
    <3>5. CASE RenewLate(p) \/ RenewRevives(p)
      BY <3>5, Learns DEF RenewLate, RenewRevives
    <3>6. CASE RenewStale(p) \/ RenewError(p)
      BY <3>6, Learns DEF RenewStale, RenewError
    <3>7. CASE AckError(p)
      BY <3>7, LeaveTyped DEF AckError
    <3> QED
      BY <1>f, <3>1, <3>2, <3>3, <3>4, <3>5, <3>6, <3>7 DEF Fail
  <2>2. UNCHANGED <<rows, env>>
    BY <1>f DEF Fail, SweepRaises, Raise, GraphRaises, WriteError, RenewLate,
           RenewRevives, RenewStale, RenewError, AckError
  <2> QED
    BY <2>1, <2>2 DEF TypeOK, rows, env
<1> QED
  BY <1>0, <1>f

LEMMA StopTyped ==
  ASSUME TypeOK, NEW p \in Proc, Crash(p) \/ Stop(p) PROVE TypeOK'
<1>1. agent' \in [Proc -> Process]
  BY GoToTyped, LeaveTyped DEF Crash, Stop, Pcs
<1>2. lease' \in [Id -> Proc \cup {"free", "gone"}] /\ left' \in SUBSET Id
  BY RowTyped DEF Crash, Stop
<1>3. crashes' \in 0..MaxCrashes
  BY AgentConstants DEF TypeOK, Crash, Stop
<1> QED
  BY <1>1, <1>2, <1>3 DEF TypeOK, Crash, Stop

LEMMA TypeNext == ASSUME TypeOK, [Next]_vars PROVE TypeOK'
<1>1. CASE UNCHANGED vars
  BY <1>1 DEF TypeOK, vars
<1>2. CASE Next
  BY <1>2, ReceiveTyped, QueueTyped, WebhookTyped, BeginTyped, GraphTyped, EndTyped,
     FailTyped, StopTyped DEF Next
<1> QED
  BY <1>1, <1>2

(* Agent's type invariant, for any number of processes, messages and rows. *)
THEOREM TypeCorrect == Spec => []TypeOK
<1> QED
  BY TypeInit, TypeNext, PTL DEF Spec

-----------------------------------------------------------------------------
(* Leases.  What makes LeaseIsUsed and OneHolder inductive: a process with *)
(* a task has one; one at its task under a lease has a renewer; and one    *)
(* that was told its lease is lost has no row.                             *)

HasTask ==
  \A p \in Proc :
    agent[p].pc \in {"status", "resume", "start", "acquire"} \cup Held
      => agent[p].id \in Id

RenewerRuns == \A p \in Proc : agent[p].pc \in Held => agent[p].renewer # "off"

LostHasNoRow ==
  \A p \in Proc : agent[p].pc \in Held /\ agent[p].renewer = "lost"
                    => lease[agent[p].id] # p

LeaseInv == HasTask /\ RenewerRuns /\ LostHasNoRow /\ OneHolder /\ LeaseIsUsed

IInv == TypeOK /\ LeaseInv

(* A step of a process without a lease that leaves it without one.         *)
LEMMA Outside ==
  ASSUME IInv, NEW p \in Proc, Others(p), UNCHANGED <<lease, left>>,
         agent[p].pc \notin Held, agent'[p].pc \notin Held,
         agent'[p].pc \in {"status", "resume", "start", "acquire"}
           => agent'[p].id \in Id
  PROVE  LeaseInv'
<1>1. HasTask'
  BY DEF IInv, LeaseInv, HasTask, Others
<1>2. RenewerRuns'
  BY DEF IInv, LeaseInv, RenewerRuns, Others
<1>3. LostHasNoRow'
  BY DEF IInv, LeaseInv, LostHasNoRow, Others
<1>4. OneHolder'
  BY DEF IInv, LeaseInv, OneHolder, Others
<1>5. LeaseIsUsed'
  BY DEF IInv, LeaseInv, LeaseIsUsed, Others
<1> QED
  BY <1>1, <1>2, <1>3, <1>4, <1>5 DEF LeaseInv

(* A step of a process under its lease that keeps it.                      *)
LEMMA Inside ==
  ASSUME IInv, NEW p \in Proc, Others(p), UNCHANGED <<lease, left>>,
         agent[p].pc \in Held, agent'[p].pc \in Held,
         agent'[p].id = agent[p].id, agent'[p].renewer = agent[p].renewer
  PROVE  LeaseInv'
<1>1. HasTask'
  BY DEF IInv, LeaseInv, HasTask, Others
<1>2. RenewerRuns'
  BY DEF IInv, LeaseInv, RenewerRuns, Others
<1>3. LostHasNoRow'
  BY DEF IInv, LeaseInv, LostHasNoRow, Others
<1>4. OneHolder'
  BY DEF IInv, LeaseInv, OneHolder, Others
<1>5. LeaseIsUsed'
  BY DEF IInv, LeaseInv, LeaseIsUsed, Others
<1> QED
  BY <1>1, <1>2, <1>3, <1>4, <1>5 DEF LeaseInv

(* What becomes of the rows when a process leaves its task: no row starts  *)
(* to name a process, and of those that name one only its own are touched; *)
(* one that goes on naming it is among the rows left behind.               *)
RowsFall(p) ==
  /\ \A i \in Id : lease'[i] = lease[i] \/ (lease[i] = p /\ lease'[i] \notin Proc)
  /\ \A i \in Id \ left' : lease'[i] \in Proc
       => i \notin left /\ ~(i = agent[p].id /\ lease[i] = p)

LEMMA RowGoes ==
  ASSUME TypeOK, NEW p \in Proc, FreeRow(p) \/ LeaveRow(p) \/ Abandon(p),
         agent[p].renewer = "lost" => lease[agent[p].id] # p
  PROVE  RowsFall(p)
<1>1. CASE FreeRow(p)
  <2>1. ASSUME NEW i \in Id
        PROVE  lease'[i] = IF i = agent[p].id /\ lease[i] = p /\ agent[p].renewer # "lost"
                           THEN "free" ELSE lease[i]
    BY <1>1, <2>1 DEF FreeRow, Freed
  <2> QED
    BY <1>1, <2>1, AgentConstants DEF RowsFall, FreeRow
<1>2. CASE LeaveRow(p)
  BY <1>2 DEF RowsFall, LeaveRow
<1>3. CASE Abandon(p)
  <2>1. ASSUME NEW i \in Id PROVE lease'[i] = IF lease[i] = p THEN "gone" ELSE lease[i]
    BY <1>3, <2>1 DEF Abandon
  <2> QED
    BY <1>3, <2>1, AgentConstants DEF RowsFall, Abandon
<1> QED
  BY <1>1, <1>2, <1>3

(* A step by which a process gives up its row, or leaves it to expire.     *)
LEMMA Drops ==
  ASSUME IInv, NEW p \in Proc, Others(p), RowsFall(p),
         agent'[p].pc \in {"idle", "ack", "cut"}
  PROVE  LeaseInv'
<1>1. ASSUME NEW i \in Id, lease[i] # p PROVE lease'[i] = lease[i]
  BY <1>1 DEF RowsFall
<1>2. agent'[p].pc \notin Held
  BY DEF Held
<1>3. HasTask'
  BY <1>2 DEF IInv, LeaseInv, HasTask, Others
<1>4. RenewerRuns'
  BY <1>2 DEF IInv, LeaseInv, RenewerRuns, Others
<1>5. LostHasNoRow'
  <2> SUFFICES ASSUME NEW q \in Proc, agent'[q].pc \in Held, agent'[q].renewer = "lost"
               PROVE  lease'[agent'[q].id] # q
    BY DEF LostHasNoRow
  <2>1. q # p /\ agent'[q] = agent[q]
    BY <1>2 DEF Others
  <2>2. agent[q].id \in Id /\ lease[agent[q].id] # q
    BY <2>1 DEF IInv, LeaseInv, HasTask, LostHasNoRow
  <2> QED
    BY <2>1, <2>2 DEF RowsFall
<1>6. OneHolder'
  <2> SUFFICES ASSUME NEW q \in Proc, agent'[q].pc \in Held, agent'[q].renewer = "on"
               PROVE  lease'[agent'[q].id] = q
    BY DEF OneHolder
  <2>1. q # p /\ agent'[q] = agent[q]
    BY <1>2 DEF Others
  <2>2. agent[q].id \in Id /\ lease[agent[q].id] = q
    BY <2>1 DEF IInv, LeaseInv, HasTask, OneHolder
  <2> QED
    BY <1>1, <2>1, <2>2
<1>7. LeaseIsUsed'
  <2> SUFFICES ASSUME NEW i \in Id, i \notin left', lease'[i] \in Proc
               PROVE  agent'[lease'[i]].pc \in Held /\ agent'[lease'[i]].id = i
    BY DEF LeaseIsUsed
  <2>1. lease'[i] = lease[i] /\ i \notin left
    BY DEF RowsFall
  <2>2. agent[lease[i]].pc \in Held /\ agent[lease[i]].id = i
    BY <2>1 DEF IInv, LeaseInv, LeaseIsUsed
  <2>3. lease[i] # p
    BY <2>1, <2>2 DEF RowsFall
  <2> QED
    BY <2>1, <2>2, <2>3 DEF Others
<1> QED
  BY <1>3, <1>4, <1>5, <1>6, <1>7 DEF LeaseInv

LEMMA Acquires ==
  ASSUME IInv, NEW p \in Proc, Acquire(p) PROVE LeaseInv'
<1> DEFINE i == agent[p].id
<1>1. /\ agent[p] \in Process
      /\ lease \in [Id -> Proc \cup {"free", "gone"}]
      /\ i \in Id /\ agent[p].pc \notin Held
  BY DEF IInv, TypeOK, LeaseInv, HasTask, Acquire, At, Held
<1>2. /\ agent'[p].pc = "invoke" /\ agent'[p].id = i /\ agent'[p].renewer = "on"
      /\ Others(p)
  BY <1>1, Wins DEF IInv, Acquire, Pcs, Held
<1>3. lease' = [lease EXCEPT ![i] = p]
  BY DEF Acquire
<1>4. HasTask'
  BY <1>1, <1>2 DEF IInv, LeaseInv, HasTask, Others
<1>5. RenewerRuns'
  BY <1>2 DEF IInv, LeaseInv, RenewerRuns, Others
<1>6. LostHasNoRow'
  <2> SUFFICES ASSUME NEW q \in Proc, agent'[q].pc \in Held, agent'[q].renewer = "lost"
               PROVE  lease'[agent'[q].id] # q
    BY DEF LostHasNoRow
  <2>1. q # p /\ agent'[q] = agent[q]
    BY <1>2 DEF Others
  <2>2. agent[q].id \in Id /\ lease[agent[q].id] # q
    BY <2>1 DEF IInv, LeaseInv, HasTask, LostHasNoRow
  <2> QED
    BY <1>1, <1>3, <2>1, <2>2
<1>7. OneHolder'
  <2> SUFFICES ASSUME NEW q \in Proc \ {p}, agent'[q].pc \in Held,
                      agent'[q].renewer = "on"
               PROVE  lease'[agent'[q].id] = q
    BY <1>1, <1>2, <1>3 DEF OneHolder
  <2>1. agent'[q] = agent[q]
    BY <1>2 DEF Others
  <2>2. agent[q].id \in Id /\ lease[agent[q].id] = q
    BY <2>1 DEF IInv, LeaseInv, HasTask, OneHolder
  <2>3. agent[q].id # i
    BY <2>1, <2>2 DEF Acquire, CanAcquire, Renews
  <2> QED
    BY <1>1, <1>3, <2>1, <2>2, <2>3
<1>8. LeaseIsUsed'
  <2> SUFFICES ASSUME NEW j \in Id \ left', lease'[j] \in Proc
               PROVE  agent'[lease'[j]].pc \in Held /\ agent'[lease'[j]].id = j
    BY DEF LeaseIsUsed
  <2>1. CASE j = i
    BY <1>1, <1>2, <1>3, <2>1 DEF Held
  <2>2. CASE j # i
    <3>1. lease'[j] = lease[j] /\ j \notin left
      BY <1>1, <1>3, <2>2 DEF Acquire
    <3>2. agent[lease[j]].pc \in Held /\ agent[lease[j]].id = j
      BY <3>1 DEF IInv, LeaseInv, LeaseIsUsed
    <3>3. lease[j] # p
      BY <1>1, <3>2
    <3> QED
      BY <1>2, <3>1, <3>2, <3>3 DEF Others
  <2> QED
    BY <2>1, <2>2
<1> QED
  BY <1>4, <1>5, <1>6, <1>7, <1>8 DEF LeaseInv

LEMMA Releases ==
  ASSUME IInv, NEW p \in Proc, Release(p) \/ ReleaseRaises(p) \/ Stop(p)
  PROVE  LeaseInv'
<1>1. agent'[p].pc \in {"idle", "ack", "cut"} /\ Others(p)
  BY GoToTyped, LeaveTyped DEF IInv, Release, ReleaseRaises, Stop, Pcs
<1>2. FreeRow(p) \/ LeaveRow(p)
  BY DEF Release, ReleaseRaises, Stop
<1>3. agent[p].renewer = "lost" => lease[agent[p].id] # p
  BY DEF IInv, LeaseInv, LostHasNoRow, Release, ReleaseRaises, Stop, At, Held
<1> QED
  BY <1>1, <1>2, <1>3, RowGoes, Drops DEF IInv

LEMMA Deaths ==
  ASSUME IInv, NEW p \in Proc, Crash(p) \/ Exit(p) PROVE LeaseInv'
<1>1. agent'[p].pc = "idle" /\ Others(p)
  BY LeaveTyped DEF IInv, Crash, Exit
<1>2. RowsFall(p)
  <2>1. ASSUME NEW i \in Id PROVE lease'[i] = IF lease[i] = p THEN "gone" ELSE lease[i]
    BY <2>1 DEF Crash, Exit, Abandon
  <2>2. left' = {i \in left : lease[i] # p}
    BY DEF Crash, Exit, Abandon
  <2> QED
    BY <2>1, <2>2, AgentConstants DEF RowsFall, IInv, TypeOK
<1> QED
  BY <1>1, <1>2, Drops

(* An acquire whose answer is lost.                                        *)
LEMMA AcquireBreaks ==
  ASSUME IInv, NEW p \in Proc, AcquireRaises(p) PROVE LeaseInv'
<1> DEFINE i == agent[p].id
<1>1. /\ lease \in [Id -> Proc \cup {"free", "gone"}]
      /\ i \in Id /\ agent[p].pc \notin Held
      /\ lease' = [lease EXCEPT ![i] = p] /\ left' = left \cup {i}
  BY DEF IInv, TypeOK, AcquireRaises, At, Held
<1>2. agent'[p].pc \notin Held /\ agent'[p].pc = "idle" /\ Others(p)
  BY LeaveTyped DEF IInv, AcquireRaises, Held
<1>3. HasTask'
  BY <1>2 DEF IInv, LeaseInv, HasTask, Others
<1>4. RenewerRuns'
  BY <1>2 DEF IInv, LeaseInv, RenewerRuns, Others
<1>5. LostHasNoRow'
  <2> SUFFICES ASSUME NEW q \in Proc, agent'[q].pc \in Held, agent'[q].renewer = "lost"
               PROVE  lease'[agent'[q].id] # q
    BY DEF LostHasNoRow
  <2>1. q # p /\ agent'[q] = agent[q]
    BY <1>2 DEF Others
  <2>2. agent[q].id \in Id /\ lease[agent[q].id] # q
    BY <2>1 DEF IInv, LeaseInv, HasTask, LostHasNoRow
  <2> QED
    BY <1>1, <2>1, <2>2
<1>6. OneHolder'
  <2> SUFFICES ASSUME NEW q \in Proc, agent'[q].pc \in Held, agent'[q].renewer = "on"
               PROVE  lease'[agent'[q].id] = q
    BY DEF OneHolder
  <2>1. q # p /\ agent'[q] = agent[q]
    BY <1>2 DEF Others
  <2>2. agent[q].id \in Id /\ lease[agent[q].id] = q
    BY <2>1 DEF IInv, LeaseInv, HasTask, OneHolder
  <2>3. agent[q].id # i
    BY <2>1, <2>2 DEF AcquireRaises, CanAcquire, Renews
  <2> QED
    BY <1>1, <2>1, <2>2, <2>3
<1>7. LeaseIsUsed'
  <2> SUFFICES ASSUME NEW j \in Id, j \notin left', lease'[j] \in Proc
               PROVE  agent'[lease'[j]].pc \in Held /\ agent'[lease'[j]].id = j
    BY DEF LeaseIsUsed
  <2>1. lease'[j] = lease[j] /\ j \notin left
    BY <1>1
  <2>2. agent[lease[j]].pc \in Held /\ agent[lease[j]].id = j
    BY <2>1 DEF IInv, LeaseInv, LeaseIsUsed
  <2>3. lease[j] # p
    BY <1>1, <2>2
  <2> QED
    BY <1>2, <2>1, <2>2, <2>3 DEF Others
<1> QED
  BY <1>3, <1>4, <1>5, <1>6, <1>7 DEF LeaseInv

(* A turn of the renew loop, whose UPDATE does not change who holds a row. *)
LEMMA RenewTurns ==
  ASSUME IInv, NEW p \in Proc,
         RenewLate(p) \/ RenewRevives(p) \/ RenewStale(p) \/ RenewError(p)
  PROVE  LeaseInv'
<1>1. /\ agent[p] \in Process /\ agent[p].pc \in Held
      /\ UNCHANGED <<lease, left>>
  BY DEF IInv, TypeOK, RenewLate, RenewRevives, RenewStale, RenewError, rows
<1>2. PICK w \in {"on", "late", "lost", "failed"} :
        /\ Becomes(p, [agent[p] EXCEPT !.renewer = w])
        /\ w = "lost" => lease[agent[p].id] # p
        /\ w = "on" => lease[agent[p].id] = p
  BY DEF RenewLate, RenewRevives, RenewStale, RenewError
<1>3. /\ agent'[p].pc = agent[p].pc /\ agent'[p].id = agent[p].id
      /\ agent'[p].renewer = w
      /\ Others(p)
  BY <1>2, Learns DEF IInv
<1>4. HasTask' /\ RenewerRuns' /\ LeaseIsUsed'
  BY <1>1, <1>3 DEF IInv, LeaseInv, HasTask, RenewerRuns, LeaseIsUsed, Others
<1>5. LostHasNoRow'
  BY <1>1, <1>2, <1>3 DEF IInv, LeaseInv, LostHasNoRow, Others
<1>6. OneHolder'
  BY <1>1, <1>2, <1>3 DEF IInv, LeaseInv, OneHolder, Others
<1> QED
  BY <1>4, <1>5, <1>6 DEF LeaseInv

(* Steps that leave agents and leases as they are.                         *)
LEMMA Elsewhere ==
  ASSUME IInv, UNCHANGED <<agent, lease, left>> PROVE LeaseInv'
  BY DEF IInv, LeaseInv, HasTask, RenewerRuns, LostHasNoRow, OneHolder, LeaseIsUsed

LEMMA BeginKeeps ==
  ASSUME IInv, NEW p \in Proc, Begin(p) PROVE LeaseInv'
<1>0. agent[p] \in Process /\ TypeOK
  BY DEF IInv, TypeOK
<1>1. CASE ProbeSlow(p) \/ ProbeFast(p) \/ InsertConflict(p)
  <2>1. agent'[p].pc \in {"insert", "sweep", "select"} /\ Others(p)
    BY <1>0, <1>1, GoToTyped DEF ProbeSlow, ProbeFast, InsertConflict, Pcs
  <2> QED
    BY <1>1, <2>1, Outside DEF ProbeSlow, ProbeFast, InsertConflict, At, Held, rows
<1>2. CASE SweepEnds(p)
  <2>1. agent'[p].pc = "ack" /\ Others(p)
    BY <1>0, <1>2, Closes DEF SweepEnds, Pcs, Closed
  <2> QED
    BY <1>2, <2>1, Outside DEF SweepEnds, At, Held
<1>3. CASE InsertTask(p) \/ SelectTask(p)
  <2>1. \/ Leave(p)
        \/ \E i \in Id : Becomes(p, [agent[p] EXCEPT !.pc = "status", !.id = i])
    BY <1>3 DEF InsertTask, SelectTask, ActiveTasks
  <2>2. CASE Leave(p)
    BY <1>0, <1>3, <2>2, LeaveTyped, Outside DEF InsertTask, SelectTask, At, Held, rows
  <2>3. CASE \E i \in Id : Becomes(p, [agent[p] EXCEPT !.pc = "status", !.id = i])
    <3>1. PICK i \in Id : Becomes(p, [agent[p] EXCEPT !.pc = "status", !.id = i])
      BY <2>3
    <3>2. agent'[p].pc = "status" /\ agent'[p].id = i /\ Others(p)
      <4>1. "status" \in Pcs /\ i \in 0..MaxTasks
        BY AgentConstants DEF Pcs, Id
      <4> QED
        BY <1>0, <3>1, <4>1, Finds
    <3> QED
      BY <1>3, <3>2, Outside DEF InsertTask, SelectTask, At, Held, rows
  <2> QED
    BY <2>1, <2>2, <2>3
<1>4. CASE ReadStatus(p) \/ ShouldResume(p)
  <2>1. /\ agent'[p].pc \in {"resume", "start"} /\ agent'[p].id = agent[p].id
        /\ Others(p)
    <3>1. PICK pc \in {"resume", "start"}, b \in BOOLEAN :
            Becomes(p, [agent[p] EXCEPT !.pc = pc, !.resume = b])
      BY <1>4 DEF ReadStatus, ShouldResume
    <3> QED
      BY <1>0, <3>1, Decides DEF Pcs
  <2>2. agent[p].id \in Id /\ agent[p].pc \notin Held
    BY <1>4 DEF IInv, LeaseInv, HasTask, ReadStatus, ShouldResume, At, Held
  <2> QED
    BY <1>4, <2>1, <2>2, Outside DEF ReadStatus, ShouldResume, Held, rows
<1>5. CASE Start(p)
  <2>1. agent[p].id \in Id /\ agent[p].pc \notin Held /\ UNCHANGED <<lease, left>>
    BY <1>5 DEF IInv, LeaseInv, HasTask, Start, At, Held
  <2>2. CASE GoTo(p, "acquire")
    BY <1>0, <2>1, <2>2, GoToTyped, Outside DEF Held, Pcs
  <2>3. CASE Leave(p)
    BY <1>0, <2>1, <2>3, LeaveTyped, Outside DEF Held
  <2> QED
    BY <1>5, <2>2, <2>3 DEF Start
<1>6. CASE Acquire(p)
  BY <1>6, Acquires
<1>7. CASE AcquireTimeout(p)
  BY <1>0, <1>7, LeaveTyped, Outside DEF AcquireTimeout, At, Held, rows
<1> QED
  BY <1>1, <1>2, <1>3, <1>4, <1>5, <1>6, <1>7 DEF Begin

(* The graph changes a process's place in it, whether held or cut off.     *)
LEMMA Walks ==
  ASSUME IInv, NEW p \in Proc, Others(p), UNCHANGED <<lease, left>>, InGraph(p),
         agent'[p].pc = agent[p].pc, agent'[p].id = agent[p].id,
         agent'[p].renewer = agent[p].renewer
  PROVE  LeaseInv'
<1>1. CASE agent[p].pc = "graph"
  BY <1>1, Inside DEF Held
<1>2. CASE agent[p].pc = "cut"
  BY <1>2, Outside DEF Held
<1> QED
  BY <1>1, <1>2 DEF InGraph

LEMMA GraphKeeps ==
  ASSUME IInv, NEW p \in Proc, Graph(p) PROVE LeaseInv'
<1>0. agent[p] \in Process /\ TypeOK
  BY DEF IInv, TypeOK
<1>1. CASE Invoke(p)
  <2>1. /\ agent'[p].pc = "graph" /\ agent'[p].id = agent[p].id
        /\ agent'[p].renewer = agent[p].renewer /\ Others(p)
    <3>1. /\ "graph" \in Pcs /\ thread.next \in Places \cup {"none"}
          /\ "observe" \in Places \cup {"none"} /\ thread.task \in 0..MaxTasks
      BY <1>0 DEF Pcs, Held, TypeOK, Places
    <3> QED
      BY <1>0, <1>1, <3>1, Resumes, Starts DEF Invoke
  <2> QED
    BY <1>1, <2>1, Inside DEF Invoke, At, Held
<1>2. CASE Observe(p)
  <2>1. PICK i \in Id : Becomes(p, [agent[p] EXCEPT !.node = "observed", !.run = i])
    BY <1>2 DEF Observe, ActiveTasks
  <2>2. /\ agent'[p].pc = agent[p].pc /\ agent'[p].id = agent[p].id
        /\ agent'[p].renewer = agent[p].renewer /\ Others(p)
    <3>1. "observed" \in Places \cup {"none"} /\ i \in 0..MaxTasks
      BY AgentConstants DEF Places, Id
    <3> QED
      BY <1>0, <2>1, <3>1, Observes
  <2> QED
    BY <1>2, <2>2, Walks DEF Observe, AtNode
<1>3. CASE ObserveReturns(p) \/ ObserveNothing(p) \/ WorkReturns(p)
  <2>1. PICK next \in {"work", "end"} : Checkpoint(p, next)
    BY <1>3 DEF ObserveReturns, ObserveNothing, WorkReturns
  <2>2. /\ agent'[p].pc = agent[p].pc /\ agent'[p].id = agent[p].id
        /\ agent'[p].renewer = agent[p].renewer /\ Others(p)
    BY <1>0, <2>1, GoesOn DEF Checkpoint, Places
  <2> QED
    BY <1>3, <2>1, <2>2, Walks
    DEF ObserveReturns, ObserveNothing, WorkReturns, AtNode, Checkpoint
<1>4. CASE Apply(p)
  BY <1>4, Elsewhere DEF Apply, rows
<1>5. CASE GraphEnds(p) \/ Interrupt(p)
  <2>1. /\ agent'[p].pc = "finish" /\ agent'[p].id = agent[p].id
        /\ agent'[p].renewer = agent[p].renewer /\ Others(p)
    BY <1>0, <1>5, Closes DEF GraphEnds, Interrupt, Pcs, Held, Closed
  <2> QED
    BY <1>5, <2>1, Inside DEF GraphEnds, Interrupt, At, Held, rows
<1> QED
  BY <1>1, <1>2, <1>3, <1>4, <1>5 DEF Graph

LEMMA EndKeeps ==
  ASSUME IInv, NEW p \in Proc, End(p) PROVE LeaseInv'
<1>0. TypeOK
  BY DEF IInv
<1>1. CASE WriteStatus(p)
  BY <1>0, <1>1, GoToTyped, Inside DEF WriteStatus, Held, Pcs
<1>2. CASE Release(p) \/ ReleaseRaises(p)
  BY <1>2, Releases
<1>3. CASE Exit(p)
  BY <1>3, Deaths
<1>4. CASE Ack(p)
  BY <1>0, <1>4, LeaveTyped, Outside DEF Ack, At, Held, rows
<1> QED
  BY <1>1, <1>2, <1>3, <1>4 DEF End

LEMMA FailKeeps ==
  ASSUME IInv, NEW p \in Proc, Fail(p) PROVE LeaseInv'
<1>0. agent[p] \in Process /\ TypeOK
  BY DEF IInv, TypeOK
<1>1. CASE SweepRaises(p)
  <2>1. agent'[p].pc = "ack" /\ Others(p)
    <3>1. PICK o \in Closed : Becomes(p, [agent[p] EXCEPT !.pc = "ack", !.outcome = o])
      BY <1>1 DEF SweepRaises, Closed
    <3> QED
      BY <1>0, <3>1, Closes DEF Pcs
  <2> QED
    BY <1>1, <2>1, Outside DEF SweepRaises, At, Held, rows
<1>2. CASE Raise(p) \/ AckError(p)
  BY <1>0, <1>2, LeaveTyped, Outside DEF Raise, AckError, At, Held, rows
<1>3. CASE GraphRaises(p)
  <2>1. /\ agent'[p].pc = "caught" /\ agent'[p].id = agent[p].id
        /\ agent'[p].renewer = agent[p].renewer /\ Others(p)
    <3>1. PICK o \in Closed : Becomes(p, [agent[p] EXCEPT !.pc = "caught", !.outcome = o])
      BY <1>3 DEF GraphRaises, Closed
    <3> QED
      BY <1>0, <3>1, Closes DEF Pcs, Held
  <2> QED
    BY <1>3, <2>1, Inside DEF GraphRaises, At, Held, rows
<1>4. CASE WriteError(p)
  <2>1. /\ agent'[p].pc \in {"caught", "release"} /\ agent'[p].id = agent[p].id
        /\ agent'[p].renewer = agent[p].renewer /\ Others(p)
    BY <1>0, <1>4, Closes, GoToTyped DEF WriteError, Pcs, Held, Closed
  <2> QED
    BY <1>4, <2>1, Inside DEF WriteError, Held, rows
<1>5. CASE RenewLate(p) \/ RenewRevives(p) \/ RenewStale(p) \/ RenewError(p)
  BY <1>5, RenewTurns
<1>6. CASE AcquireRaises(p)
  BY <1>6, AcquireBreaks
<1> QED
  BY <1>1, <1>2, <1>3, <1>4, <1>5, <1>6 DEF Fail

LEMMA MessageKeeps ==
  ASSUME IInv, NEW p \in Proc, NEW m \in Msg, Receive(p, m) PROVE LeaseInv'
<1>1. agent'[p].pc = "probe" /\ Others(p)
  BY ReceiveTyped DEF IInv
<1> QED
  BY <1>1, Outside DEF Receive, At, Held, rows

LEMMA InvInit == Init => IInv
<1> SUFFICES ASSUME Init PROVE IInv
  OBVIOUS
<1>1. TypeOK
  BY TypeInit
<1>2. \A p \in Proc : agent[p].pc = "idle"
  BY DEF Init, Idle
<1>3. \A i \in Id : lease[i] \notin Proc
  BY AgentConstants DEF Init
<1> QED
  BY <1>1, <1>2, <1>3 DEF IInv, LeaseInv, HasTask, RenewerRuns, LostHasNoRow,
     OneHolder, LeaseIsUsed, Held

LEMMA InvNext == ASSUME IInv, [Next]_vars PROVE IInv'
<1>1. TypeOK'
  BY TypeNext DEF IInv
<1>2. LeaseInv'
  <2>1. CASE UNCHANGED vars
    BY <2>1, Elsewhere DEF vars
  <2>2. ASSUME NEW p \in Proc, NEW m \in Msg, Receive(p, m) PROVE LeaseInv'
    BY <2>2, MessageKeeps
  <2>3. ASSUME NEW m \in Msg, Reappear(m) \/ DeadLetter(m) PROVE LeaseInv'
    BY <2>3, Elsewhere DEF Reappear, DeadLetter, rows
  <2>4. ASSUME NEW i \in Id, Webhook(i) PROVE LeaseInv'
    BY <2>4, Elsewhere DEF Webhook
  <2> QED
    BY <2>1, <2>2, <2>3, <2>4, BeginKeeps, GraphKeeps, EndKeeps, FailKeeps, Releases, Deaths
    DEF Next
<1> QED
  BY <1>1, <1>2 DEF IInv

LEMMA Invariance == Spec => []IInv
<1> QED
  BY InvInit, InvNext, PTL DEF Spec

-----------------------------------------------------------------------------
(* Theorems. *)

(* A row that names a live process is one it works under, or was left by   *)
(* an acquire or a release that raised: for any number of processes and    *)
(* messages, whatever else goes wrong, the interrupt, a stop, an outcome   *)
(* that cannot be written and late renewals included.                      *)
THEOREM RowsAreUsed == Spec => []LeaseIsUsed
<1>1. IInv => LeaseIsUsed
  BY DEF IInv, LeaseInv
<1> QED
  BY <1>1, Invariance, PTL

(* A process that works on a task holds its lease while its own renewals   *)
(* are in time, however messages are redelivered, processes die or stop,   *)
(* and the renewals of others fail.                                        *)
THEOREM WorkIsExclusive == Spec => []OneHolder
<1>1. IInv => OneHolder
  BY DEF IInv, LeaseInv
<1> QED
  BY <1>1, Invariance, PTL

(* A task is closed by the holder of its lease, or by one whose renewals   *)
(* went wrong: the status write, which the database does not fence, comes  *)
(* before the release on every path.                                       *)
THEOREM HolderCloses == Spec => ClosedUnderLease
<1>1. ASSUME IInv, [Next]_vars, NEW i \in Id, task[i] \in Active, task'[i] \in Closed
      PROVE  \E p \in Proc :
               /\ agent[p].id = i /\ agent'[p] # agent[p]
               /\ lease[i] = p \/ agent[p].renewer \in {"late", "failed", "lost"}
  <2>1. task' # task /\ task \in [Id -> {"none"} \cup Active \cup Closed]
    BY <1>1 DEF Active, Closed, IInv, TypeOK
  <2>2. \A j \in Id : task' # [task EXCEPT ![j] = "pending"]
    BY <1>1, <2>1 DEF Closed, Active
  <2>3. \A j : task' # [task EXCEPT ![j] = "running"]
    BY <1>1, <2>1 DEF Closed, Active
  <2>4. PICK p \in Proc : WriteStatus(p)
    BY <1>1, <2>1, <2>2, <2>3
    DEF Next, vars, rows, env, Receive, Reappear, DeadLetter, Webhook, Crash, Stop,
        Begin, ProbeSlow, ProbeFast, SweepEnds, InsertTask, InsertConflict, SelectTask,
        ReadStatus, ShouldResume, Start, Acquire, AcquireTimeout,
        Graph, Invoke, Observe, ObserveReturns, ObserveNothing, WorkReturns, Checkpoint,
        Apply, GraphEnds, Interrupt,
        End, Release, ReleaseRaises, Ack, Exit,
        Fail, SweepRaises, Raise, GraphRaises, WriteError, RenewLate, RenewRevives,
        RenewStale, RenewError, AckError, AcquireRaises
  <2>5. i = agent[p].id
    BY <1>1, <2>1, <2>4 DEF WriteStatus, Active, Closed
  <2>6. lease[i] = p \/ agent[p].renewer \in {"late", "failed", "lost"}
    BY <1>1, <2>4, <2>5
    DEF IInv, TypeOK, Process, LeaseInv, OneHolder, RenewerRuns, WriteStatus, Held
  <2>7. agent'[p].pc = "release"
    BY <1>1, <2>4, GoToTyped DEF IInv, WriteStatus, Pcs, Held
  <2> QED
    BY <2>4, <2>5, <2>6, <2>7 DEF WriteStatus
<1>2. IInv /\ [Next]_vars
      => [\A i \in Id : task[i] \in Active /\ task'[i] \in Closed
            => \E p \in Proc :
                 /\ agent[p].id = i /\ agent'[p] # agent[p]
                 /\ lease[i] = p \/ agent[p].renewer \in {"late", "failed", "lost"}]_vars
  BY <1>1
<1> QED
  BY <1>2, Invariance, PTL DEF Spec, ClosedUnderLease

-----------------------------------------------------------------------------
(* The mutual exclusion that leases give.  A step writes the record of one *)
(* process at most; that the lease row names every keeper does the rest.   *)

LEMMA OneMoves ==
  ASSUME TypeOK, Next PROVE agent' = agent \/ \E p \in Proc : Others(p)
<1>1. ASSUME NEW p \in Proc, NEW r, Becomes(p, r) PROVE Others(p)
  BY <1>1 DEF TypeOK, Becomes, Others
<1>2. ASSUME NEW p \in Proc, NEW m \in Msg, Receive(p, m) PROVE Others(p)
  BY <1>1, <1>2 DEF Receive
<1>3. ASSUME NEW p \in Proc, Begin(p) PROVE Others(p)
  BY <1>1, <1>3
  DEF Begin, ProbeSlow, ProbeFast, SweepEnds, InsertTask, InsertConflict, SelectTask,
      ReadStatus, ShouldResume, Start, Acquire, AcquireTimeout, GoTo, Leave
<1>4. ASSUME NEW p \in Proc, Graph(p) PROVE agent' = agent \/ Others(p)
  BY <1>1, <1>4
  DEF Graph, Invoke, Observe, ObserveReturns, ObserveNothing, WorkReturns, Checkpoint,
      Apply, GraphEnds, Interrupt, rows
<1>5. ASSUME NEW p \in Proc, End(p) PROVE Others(p)
  BY <1>1, <1>5 DEF End, WriteStatus, Release, ReleaseRaises, Ack, Exit, GoTo, Leave
<1>6. ASSUME NEW p \in Proc, Fail(p) PROVE Others(p)
  BY <1>1, <1>6
  DEF Fail, SweepRaises, Raise, GraphRaises, WriteError, RenewLate, RenewRevives,
      RenewStale, RenewError, AckError, AcquireRaises, GoTo, Leave
<1>7. ASSUME NEW p \in Proc, Crash(p) \/ Stop(p) PROVE Others(p)
  BY <1>1, <1>7 DEF Crash, Stop, GoTo, Leave
<1>8. ASSUME NEW m \in Msg, Reappear(m) \/ DeadLetter(m) PROVE agent' = agent
  BY <1>8 DEF Reappear, DeadLetter
<1>9. ASSUME NEW i \in Id, Webhook(i) PROVE agent' = agent
  BY <1>9 DEF Webhook
<1> QED
  BY <1>2, <1>3, <1>4, <1>5, <1>6, <1>7, <1>8, <1>9 DEF Next

LEMMA KeepersStep ==
  ASSUME IInv, IInv', [Next]_vars, NEW i \in Id
  PROVE  OfTask(i)!Next \/ UNCHANGED Keepers(i)
<1>1. CASE agent' = agent
  BY <1>1 DEF Keepers, Renews
<1>2. ASSUME NEW p \in Proc, Others(p)
      PROVE  OfTask(i)!Next \/ UNCHANGED Keepers(i)
  <2>1. \A q \in Proc \ {p} : q \in Keepers(i)' <=> q \in Keepers(i)
    BY <1>2 DEF Others, Keepers, Renews
  <2>2. /\ \A q \in Keepers(i) : q \in Proc /\ lease[i] = q
        /\ \A q \in Keepers(i)' : q \in Proc /\ lease'[i] = q
    BY DEF IInv, LeaseInv, OneHolder, Keepers, Renews
  <2>3. CASE p \in Keepers(i) <=> p \in Keepers(i)'
    <3>1. Keepers(i)' = Keepers(i)
      BY <2>1, <2>2, <2>3
    <3> QED
      BY <3>1
  <2>4. CASE p \in Keepers(i) /\ p \notin Keepers(i)'
    <3>1. Keepers(i)' = Keepers(i) \ {p}
      BY <2>1, <2>2, <2>4
    <3> QED
      BY <2>4, <3>1 DEF OfTask!Next, OfTask!Leave
  <2>5. CASE p \notin Keepers(i) /\ p \in Keepers(i)'
    <3>1. Keepers(i)' = {p}
      BY <2>2, <2>5
    <3>2. Keepers(i) = {}
      BY <2>1, <2>2, <2>5, <3>1
    <3> QED
      BY <3>1, <3>2 DEF OfTask!Next, OfTask!Enter
  <2> QED
    BY <2>3, <2>4, <2>5
<1> QED
  BY <1>1, <1>2, OneMoves DEF IInv, vars

(* The processes at one task under a lease they renew in time implement    *)
(* Mutex, with no assumption on redeliveries, deaths, stops or renewals of *)
(* whatever process: the promise Lease is proved to keep for one row in    *)
(* time is kept through every way into and out of process_message.         *)
THEOREM LeasesExclude == Spec => ImplementsMutex
<1>1. Init => \A i \in Id : OfTask(i)!Init
  <2> SUFFICES ASSUME Init, NEW i \in Id PROVE Keepers(i) = {}
    BY DEF OfTask!Init
  <2> QED
    BY DEF Init, Idle, Keepers, Renews, Held
<1>2. IInv /\ IInv' /\ [Next]_vars
        => [\A i \in Id : OfTask(i)!Next \/ UNCHANGED Keepers(i)]_vars
  BY KeepersStep
<1> QED
  BY <1>1, <1>2, Invariance, PTL DEF Spec, ImplementsMutex

-----------------------------------------------------------------------------
(* One run at a time: either there is one process, which takes one message *)
(* after the other however they are redelivered, or the messages are one   *)
(* FIFO group (those of a watched query are) and no visibility timeout     *)
(* ends during a call, so that the queue gives the agents one of them at a *)
(* time.  A run then meets the task, the checkpoint and the status that    *)
(* the run before it left.                                                 *)

Solo == \A p, q \in Proc : p = q

OneInFlight == "redelivery" \notin Mishaps /\ \A m, n \in Msg : GroupOf[m] = GroupOf[n]

Serial == Solo \/ OneInFlight

\* From the status read to the status write.
Owning == {"status", "resume", "start", "acquire", "invoke", "graph", "cut",
           "finish", "caught"}

\* From the write of "running" to that of the outcome.
Running == Owning \ {"status", "resume", "start"}

\* The incident's row is one.
OneActive == \A i, j \in ActiveTasks : i = j

\* A run that came past observe(node) was a run of a task that had been started.
Ran(i) == i # 0 => task[i] \notin {"none", "pending"}

\* What holds of a process in the middle of a message.
Attends(r) == Solo \/ /\ r.msg \in Msg /\ queue[r.msg].at = "inflight"
                      /\ queue[r.msg].receives = r.receipt

OwnsTask(r) == /\ r.pc \in Owning => r.id \in Id /\ task[r.id] \in Active
               /\ r.pc \in Running => task[r.id] = "running"
               /\ r.pc \in {"finish", "caught"} => r.outcome \in Closed

RunsOwn(r) == /\ Ran(r.run)
              /\ r.pc \in {"graph", "cut"} /\ r.node = "observed" => r.run = r.id

Knows(r) ==
  r.pc \in {"resume", "start", "acquire", "invoke"}
  /\ thread.next = "work" /\ thread.task = r.id => r.resume

Good(r) == r.pc # "idle" => Attends(r) /\ OwnsTask(r) /\ RunsOwn(r) /\ Knows(r)

Alone == \A p, q \in Proc : agent[p].pc # "idle" /\ agent[q].pc # "idle" => p = q

SerialInv ==
  /\ Alone /\ OneActive /\ Ran(thread.task)
  /\ \A p \in Proc : Good(agent[p])

SInv == TypeOK /\ SerialInv

LEMMA BecomesIs ==
  ASSUME TypeOK, NEW p \in Proc, NEW r, Becomes(p, r)
  PROVE  agent'[p] = r /\ Others(p)
  BY DEF TypeOK, Becomes, Others

(* A step of the one process that is in the middle of a message.           *)
LEMMA ActorSteps ==
  ASSUME SInv, NEW p \in Proc, NEW r, agent[p].pc # "idle",
         agent'[p] = r, Others(p), Good(r)', OneActive', Ran(thread.task)'
  PROVE  SerialInv'
<1>1. \A q \in Proc \ {p} : agent[q].pc = "idle" /\ agent'[q] = agent[q]
  BY DEF SInv, SerialInv, Alone, Others
<1>2. Alone'
  BY <1>1 DEF Alone
<1>3. \A q \in Proc : Good(agent[q])'
  BY <1>1 DEF Good
<1> QED
  BY <1>2, <1>3 DEF SerialInv

LEMMA ActorMoves ==
  ASSUME SInv, NEW p \in Proc, NEW r, agent[p].pc # "idle", Becomes(p, r), Good(r),
         UNCHANGED <<queue, task, thread>>
  PROVE  SerialInv'
<1>1. agent'[p] = r /\ Others(p)
  BY BecomesIs DEF SInv
<1>2. Good(r)'
  BY DEF Good, Attends, OwnsTask, RunsOwn, Ran, Knows, ActiveTasks
<1>3. OneActive' /\ Ran(thread.task)'
  BY DEF SInv, SerialInv, OneActive, ActiveTasks, Ran
<1> QED
  BY <1>1, <1>2, <1>3, ActorSteps

LEMMA ActorLeaves ==
  ASSUME SInv, NEW p \in Proc, agent[p].pc # "idle", Leave(p), UNCHANGED <<task, thread>>
  PROVE  SerialInv'
<1>1. agent'[p] = Idle /\ Others(p)
  BY BecomesIs DEF SInv, Leave
<1>2. Good(Idle)'
  BY DEF Good, Idle
<1>3. OneActive' /\ Ran(thread.task)'
  BY DEF SInv, SerialInv, OneActive, ActiveTasks, Ran
<1> QED
  BY <1>1, <1>2, <1>3, ActorSteps

(* The row of the process at hand is the active one.                       *)
LEMMA OwnIsActive ==
  ASSUME SInv, NEW p \in Proc, agent[p].pc \in Owning
  PROVE  agent[p].id \in Id /\ ActiveTasks = {agent[p].id}
<1>1. agent[p].pc # "idle"
  BY DEF Owning
<1>2. agent[p].id \in Id /\ task[agent[p].id] \in Active
  BY <1>1 DEF SInv, SerialInv, Good, OwnsTask
<1> QED
  BY <1>2 DEF SInv, SerialInv, OneActive, ActiveTasks

LEMMA BeginSerial ==
  ASSUME SInv, NEW p \in Proc, Begin(p) PROVE SerialInv'
<1>0. /\ agent[p] \in Process /\ TypeOK /\ Good(agent[p]) /\ OneActive
      /\ Ran(thread.task)
  BY DEF SInv, TypeOK, SerialInv
<1>1. CASE ProbeSlow(p)
  <2> DEFINE r == [agent[p] EXCEPT !.pc = "insert"]
  <2>1. Becomes(p, r) /\ agent[p].pc = "probe" /\ UNCHANGED <<queue, task, thread>>
    BY <1>1 DEF ProbeSlow, GoTo, At, rows, env
  <2>2. /\ r.pc = "insert" /\ r.msg = agent[p].msg /\ r.receipt = agent[p].receipt
        /\ r.run = agent[p].run
    BY <1>0 DEF Process
  <2>3. Good(r)
    BY <1>0, <2>1, <2>2 DEF Good, Attends, OwnsTask, RunsOwn, Knows, Owning, Running
  <2> QED
    BY <2>1, <2>3, ActorMoves
<1>2. CASE ProbeFast(p)
  <2>r. PICK r : r = [agent[p] EXCEPT !.pc = "sweep"]
    OBVIOUS
  <2>1. /\ Becomes(p, r) /\ agent[p].pc = "probe" /\ UNCHANGED <<queue, task>>
        /\ thread' = [next |-> "sweep", task |-> 0]
    BY <2>r, <1>2 DEF ProbeFast, GoTo, At, env
  <2>2. /\ r.pc = "sweep" /\ r.msg = agent[p].msg /\ r.receipt = agent[p].receipt
        /\ r.run = agent[p].run
    BY <1>0, <2>r DEF Process
  <2>3. Good(r)'
    BY <1>0, <2>1, <2>2 DEF Good, Attends, OwnsTask, RunsOwn, Ran, Knows, Owning, Running
  <2>4. OneActive' /\ Ran(thread.task)'
    BY <1>0, <2>1 DEF OneActive, ActiveTasks, Ran
  <2> QED
    BY <1>0, <2>1, <2>3, <2>4, BecomesIs, ActorSteps
<1>3. CASE SweepEnds(p)
  <2>r. PICK r : r = [agent[p] EXCEPT !.pc = "ack", !.outcome = "completed"]
    OBVIOUS
  <2>1. /\ Becomes(p, r) /\ agent[p].pc = "sweep" /\ UNCHANGED <<queue, task>>
        /\ thread' = [next |-> "end", task |-> 0]
    BY <2>r, <1>3 DEF SweepEnds, At, env
  <2>2. /\ r.pc = "ack" /\ r.msg = agent[p].msg /\ r.receipt = agent[p].receipt
        /\ r.run = agent[p].run
    BY <1>0, <2>r DEF Process
  <2>3. Good(r)'
    BY <1>0, <2>1, <2>2 DEF Good, Attends, OwnsTask, RunsOwn, Ran, Knows, Owning, Running
  <2>4. OneActive' /\ Ran(thread.task)'
    BY <1>0, <2>1 DEF OneActive, ActiveTasks, Ran
  <2> QED
    BY <1>0, <2>1, <2>3, <2>4, BecomesIs, ActorSteps
<1>4. CASE InsertTask(p)
  <2>0. PICK i \in Id : /\ NewTask(i) /\ task' = [task EXCEPT ![i] = "pending"]
                        /\ Becomes(p, [agent[p] EXCEPT !.pc = "status", !.id = i])
    BY <1>4 DEF InsertTask
  <2>r. PICK r : r = [agent[p] EXCEPT !.pc = "status", !.id = i]
    OBVIOUS
  <2>1. /\ agent[p].pc = "insert" /\ ActiveTasks = {} /\ UNCHANGED <<queue, thread>>
    BY <1>4 DEF InsertTask, At, env
  <2>2. /\ r.pc = "status" /\ r.msg = agent[p].msg /\ r.receipt = agent[p].receipt
        /\ r.run = agent[p].run /\ r.id = i
    BY <1>0, <2>r DEF Process
  <2>3. /\ task'[i] = "pending" /\ task[i] = "none" /\ i # 0
        /\ \A j \in Id : j # i => task'[j] = task[j]
    BY <1>0, <2>0 DEF TypeOK, NewTask, Id
  <2>4. ActiveTasks' = {i}
    BY <2>1, <2>3 DEF ActiveTasks, Active
  <2>5. \A k \in 0..MaxTasks : Ran(k) => Ran(k)'
    BY <2>3 DEF Ran, Id
  <2>6. thread.task \in 0..MaxTasks /\ agent[p].run \in 0..MaxTasks
    BY <1>0 DEF TypeOK, Process
  <2>7. Ran(thread.task)' /\ Ran(r.run)'
    BY <1>0, <2>1, <2>2, <2>5, <2>6 DEF Good, RunsOwn, Ran
  <2>8. Good(r)'
    BY <1>0, <2>1, <2>2, <2>3, <2>7
    DEF Good, Attends, OwnsTask, RunsOwn, Knows, Running, Active
  <2> QED
    BY <1>0, <2>r, <2>0, <2>1, <2>4, <2>7, <2>8, BecomesIs, ActorSteps DEF OneActive
<1>5. CASE InsertConflict(p)
  <2> DEFINE r == [agent[p] EXCEPT !.pc = "select"]
  <2>1. Becomes(p, r) /\ agent[p].pc = "insert" /\ UNCHANGED <<queue, task, thread>>
    BY <1>5 DEF InsertConflict, GoTo, At, rows, env
  <2>2. /\ r.pc = "select" /\ r.msg = agent[p].msg /\ r.receipt = agent[p].receipt
        /\ r.run = agent[p].run
    BY <1>0 DEF Process
  <2>3. Good(r)
    BY <1>0, <2>1, <2>2 DEF Good, Attends, OwnsTask, RunsOwn, Knows, Owning, Running
  <2> QED
    BY <2>1, <2>3, ActorMoves
<1>6. CASE SelectTask(p)
  <2>1. agent[p].pc = "select" /\ UNCHANGED <<queue, task, thread>>
    BY <1>6 DEF SelectTask, At, rows, env
  <2>2. CASE Leave(p)
    BY <2>1, <2>2, ActorLeaves
  <2>3. CASE ~Leave(p)
    <3>1. PICK i \in ActiveTasks :
            Becomes(p, [agent[p] EXCEPT !.pc = "status", !.id = i])
      BY <1>6, <2>3 DEF SelectTask
    <3> DEFINE r == [agent[p] EXCEPT !.pc = "status", !.id = i]
    <3>2. /\ r.pc = "status" /\ r.msg = agent[p].msg /\ r.receipt = agent[p].receipt
          /\ r.run = agent[p].run /\ r.id = i
      BY <1>0 DEF Process
    <3>3. Good(r)
      BY <1>0, <2>1, <3>1, <3>2
      DEF Good, Attends, OwnsTask, RunsOwn, Knows, Running, ActiveTasks
    <3> QED
      BY <2>1, <3>1, <3>3, ActorMoves
  <2> QED
    BY <2>2, <2>3
<1>7. CASE ReadStatus(p)
  <2> DEFINE b == (task[agent[p].id] = "running")
             r == [agent[p] EXCEPT !.pc = "resume", !.resume = b]
  <2>1. Becomes(p, r) /\ agent[p].pc = "status" /\ UNCHANGED <<queue, task, thread>>
    BY <1>7 DEF ReadStatus, At, rows, env
  <2>2. /\ r.pc = "resume" /\ r.msg = agent[p].msg /\ r.receipt = agent[p].receipt
        /\ r.run = agent[p].run /\ r.id = agent[p].id /\ r.resume = b
    BY <1>0 DEF Process
  <2>3. agent[p].id \in Id /\ task[agent[p].id] \in Active
    BY <1>0, <2>1 DEF Good, OwnsTask, Owning
  \* A task with a checkpoint of its own has been started: it is running.
  <2>4. thread.task = agent[p].id => b
    BY <1>0, <2>3 DEF Ran, Active, Id
  <2>5. Good(r)
    BY <1>0, <2>1, <2>2, <2>3, <2>4
    DEF Good, Attends, OwnsTask, RunsOwn, Knows, Running
  <2> QED
    BY <2>1, <2>5, ActorMoves
<1>8. CASE ShouldResume(p)
  <2> DEFINE b == agent[p].resume /\ thread.next # "none"
             r == [agent[p] EXCEPT !.pc = "start", !.resume = b]
  <2>1. Becomes(p, r) /\ agent[p].pc = "resume" /\ UNCHANGED <<queue, task, thread>>
    BY <1>8 DEF ShouldResume, At, rows, env
  <2>2. /\ r.pc = "start" /\ r.msg = agent[p].msg /\ r.receipt = agent[p].receipt
        /\ r.run = agent[p].run /\ r.id = agent[p].id /\ r.resume = b
    BY <1>0 DEF Process
  <2>3. Good(r)
    BY <1>0, <2>1, <2>2
    DEF Good, Attends, OwnsTask, RunsOwn, Knows, Owning, Running
  <2> QED
    BY <2>1, <2>3, ActorMoves
<1>9. CASE Start(p)
  <2>1. agent[p].pc = "start" /\ UNCHANGED <<queue, thread>>
    BY <1>9 DEF Start, At, env
  <2>2. agent[p].id \in Id /\ ActiveTasks = {agent[p].id}
    BY <2>1, OwnIsActive DEF Owning
  <2>r. PICK r : r = [agent[p] EXCEPT !.pc = "acquire"]
    OBVIOUS
  <2>3. Becomes(p, r) /\ task' = [task EXCEPT ![agent[p].id] = "running"]
    BY <2>r, <1>9, <2>2 DEF Start, GoTo
  <2>4. /\ r.pc = "acquire" /\ r.msg = agent[p].msg /\ r.receipt = agent[p].receipt
        /\ r.run = agent[p].run /\ r.id = agent[p].id /\ r.resume = agent[p].resume
    BY <1>0, <2>r DEF Process
  <2>5. /\ task'[agent[p].id] = "running"
        /\ \A j \in Id : j # agent[p].id => task'[j] = task[j]
    BY <1>0, <2>2, <2>3 DEF TypeOK
  <2>6. ActiveTasks' = {agent[p].id}
    BY <2>2, <2>5 DEF ActiveTasks, Active
  <2>7. \A k \in 0..MaxTasks : Ran(k) => Ran(k)'
    BY <2>5 DEF Ran, Id
  <2>8. thread.task \in 0..MaxTasks /\ agent[p].run \in 0..MaxTasks
    BY <1>0 DEF TypeOK, Process
  <2>9. Ran(thread.task)' /\ Ran(r.run)'
    BY <1>0, <2>1, <2>4, <2>7, <2>8 DEF Good, RunsOwn, Ran
  <2>10. Good(r)'
    BY <1>0, <2>1, <2>2, <2>4, <2>5, <2>9
    DEF Good, Attends, OwnsTask, RunsOwn, Knows, Active
  <2> QED
    BY <1>0, <2>1, <2>3, <2>6, <2>9, <2>10, BecomesIs, ActorSteps DEF OneActive
<1>10. CASE Acquire(p)
  <2> DEFINE r == [agent[p] EXCEPT !.pc = "invoke", !.renewer = "on"]
  <2>1. Becomes(p, r) /\ agent[p].pc = "acquire" /\ UNCHANGED <<queue, task, thread>>
    BY <1>10 DEF Acquire, At, env
  <2>2. /\ r.pc = "invoke" /\ r.msg = agent[p].msg /\ r.receipt = agent[p].receipt
        /\ r.run = agent[p].run /\ r.id = agent[p].id /\ r.resume = agent[p].resume
    BY <1>0 DEF Process
  <2>3. Good(r)
    BY <1>0, <2>1, <2>2
    DEF Good, Attends, OwnsTask, RunsOwn, Knows, Owning, Running
  <2> QED
    BY <2>1, <2>3, ActorMoves
<1>11. CASE AcquireTimeout(p)
  BY <1>11, ActorLeaves DEF AcquireTimeout, At, rows, env
<1> QED
  BY <1>1, <1>2, <1>3, <1>4, <1>5, <1>6, <1>7, <1>8, <1>9, <1>10, <1>11 DEF Begin

LEMMA CheckpointSerial ==
  ASSUME SInv, NEW p \in Proc, NEW next \in {"work", "end"},
         agent[p].pc \in {"graph", "cut"}, Checkpoint(p, next)
  PROVE  SerialInv'
<1>0. /\ agent[p] \in Process /\ TypeOK /\ Good(agent[p]) /\ OneActive
      /\ agent[p].pc # "idle"
  BY DEF SInv, TypeOK, SerialInv
<1>r. PICK r : r = [agent[p] EXCEPT !.node = next]
  OBVIOUS
<1>1. /\ Becomes(p, r) /\ UNCHANGED <<queue, task>>
      /\ thread' = [next |-> next, task |-> agent[p].run]
  BY <1>r DEF Checkpoint, env
<1>2. /\ r.pc = agent[p].pc /\ r.msg = agent[p].msg /\ r.receipt = agent[p].receipt
      /\ r.run = agent[p].run /\ r.id = agent[p].id /\ r.node = next
      /\ r.outcome = agent[p].outcome
  BY <1>0, <1>r DEF Process
<1>3. Ran(agent[p].run)
  BY <1>0 DEF Good, RunsOwn
<1>4. OneActive' /\ Ran(thread.task)'
  BY <1>0, <1>1, <1>3 DEF OneActive, ActiveTasks, Ran
<1>5. Good(r)'
  BY <1>0, <1>1, <1>2, <1>3 DEF Good, Attends, OwnsTask, RunsOwn, Ran, Knows
<1> QED
  BY <1>0, <1>1, <1>4, <1>5, BecomesIs, ActorSteps

LEMMA GraphSerial ==
  ASSUME SInv, NEW p \in Proc, Graph(p) PROVE SerialInv'
<1>0. /\ agent[p] \in Process /\ TypeOK /\ Good(agent[p]) /\ OneActive
      /\ Ran(thread.task)
  BY DEF SInv, TypeOK, SerialInv
<1>1. CASE Invoke(p)
  <2>1. agent[p].pc = "invoke" /\ UNCHANGED <<queue, task>>
    BY <1>1 DEF Invoke, At, env
  <2>2. CASE agent[p].resume
    <3> DEFINE r == [agent[p] EXCEPT !.pc = "graph", !.node = thread.next,
                                     !.run = thread.task]
    <3>1. Becomes(p, r) /\ UNCHANGED thread
      BY <1>1, <2>2 DEF Invoke
    <3>2. /\ r.pc = "graph" /\ r.msg = agent[p].msg /\ r.receipt = agent[p].receipt
          /\ r.run = thread.task /\ r.id = agent[p].id /\ r.node = thread.next
      BY <1>0 DEF Process
    \* No checkpoint is taken inside observe(node).
    <3>3. thread.next # "observed"
      BY <1>0 DEF TypeOK, Places
    <3>4. Good(r)
      BY <1>0, <2>1, <3>2, <3>3
      DEF Good, Attends, OwnsTask, RunsOwn, Knows, Owning, Running
    <3> QED
      BY <2>1, <3>1, <3>4, ActorMoves
  <2>3. CASE ~agent[p].resume
    <3>r. PICK r : r = [agent[p] EXCEPT !.pc = "graph", !.node = "observe"]
      OBVIOUS
    <3>1. Becomes(p, r) /\ thread' = [next |-> "observe", task |-> 0]
      BY <3>r, <1>1, <2>3 DEF Invoke
    <3>2. /\ r.pc = "graph" /\ r.msg = agent[p].msg /\ r.receipt = agent[p].receipt
          /\ r.run = agent[p].run /\ r.id = agent[p].id /\ r.node = "observe"
      BY <1>0, <3>r DEF Process
    <3>3. Good(r)'
      BY <1>0, <2>1, <3>1, <3>2
      DEF Good, Attends, OwnsTask, RunsOwn, Ran, Knows, Owning, Running
    <3>4. OneActive' /\ Ran(thread.task)'
      BY <1>0, <2>1, <3>1 DEF OneActive, ActiveTasks, Ran
    <3> QED
      BY <1>0, <2>1, <3>1, <3>3, <3>4, BecomesIs, ActorSteps
  <2> QED
    BY <2>2, <2>3
<1>2. CASE Observe(p)
  <2>1. agent[p].pc \in {"graph", "cut"} /\ UNCHANGED <<queue, thread>>
    BY <1>2 DEF Observe, AtNode, InGraph, env
  <2>2. agent[p].id \in Id /\ ActiveTasks = {agent[p].id}
    BY <2>1, OwnIsActive DEF Owning
  <2> DEFINE r == [agent[p] EXCEPT !.node = "observed", !.run = agent[p].id]
  <2>3. Becomes(p, r) /\ UNCHANGED task
    BY <1>2, <2>2 DEF Observe
  <2>4. /\ r.pc = agent[p].pc /\ r.msg = agent[p].msg /\ r.receipt = agent[p].receipt
        /\ r.run = agent[p].id /\ r.id = agent[p].id
    BY <1>0 DEF Process
  <2>5. task[agent[p].id] = "running"
    BY <1>0, <2>1 DEF Good, OwnsTask, Owning, Running
  <2>6. Good(r)
    BY <1>0, <2>1, <2>4, <2>5
    DEF Good, Attends, OwnsTask, RunsOwn, Ran, Knows, Owning, Running
  <2> QED
    BY <2>1, <2>3, <2>6, ActorMoves
<1>3. CASE ObserveReturns(p)
  BY <1>3, CheckpointSerial DEF ObserveReturns, AtNode, InGraph
<1>4. CASE ObserveNothing(p)
  BY <1>4, CheckpointSerial DEF ObserveNothing, AtNode, InGraph
<1>5. CASE WorkReturns(p)
  BY <1>5, CheckpointSerial DEF WorkReturns, AtNode, InGraph
<1>6. CASE Apply(p)
  BY <1>6 DEF Apply, rows, SInv, SerialInv, Alone, OneActive, ActiveTasks, Ran,
              Good, Attends, OwnsTask, RunsOwn, Knows
<1>7. CASE GraphEnds(p) \/ Interrupt(p)
  <2>1. PICK o \in Closed :
          /\ agent[p].pc = "graph" /\ UNCHANGED <<queue, task, thread>>
          /\ Becomes(p, [agent[p] EXCEPT !.pc = "finish", !.outcome = o])
    BY <1>7 DEF GraphEnds, Interrupt, At, rows, env, Closed
  <2> DEFINE r == [agent[p] EXCEPT !.pc = "finish", !.outcome = o]
  <2>2. /\ r.pc = "finish" /\ r.msg = agent[p].msg /\ r.receipt = agent[p].receipt
        /\ r.run = agent[p].run /\ r.id = agent[p].id /\ r.outcome = o
    BY <1>0 DEF Process
  <2>3. Good(r)
    BY <1>0, <2>1, <2>2 DEF Good, Attends, OwnsTask, RunsOwn, Knows, Owning, Running
  <2> QED
    BY <2>1, <2>3, ActorMoves
<1> QED
  BY <1>1, <1>2, <1>3, <1>4, <1>5, <1>6, <1>7 DEF Graph

LEMMA EndSerial ==
  ASSUME SInv, NEW p \in Proc, End(p) PROVE SerialInv'
<1>0. /\ agent[p] \in Process /\ TypeOK /\ Good(agent[p]) /\ OneActive
      /\ Ran(thread.task)
  BY DEF SInv, TypeOK, SerialInv
<1>1. CASE WriteStatus(p)
  <2>1. agent[p].pc \in {"finish", "caught"} /\ UNCHANGED <<queue, thread>>
    BY <1>1 DEF WriteStatus, env
  <2>2. agent[p].id \in Id /\ ActiveTasks = {agent[p].id}
    BY <2>1, OwnIsActive DEF Owning
  <2>r. PICK r : r = [agent[p] EXCEPT !.pc = "release"]
    OBVIOUS
  <2>3. Becomes(p, r) /\ task' = [task EXCEPT ![agent[p].id] = agent[p].outcome]
    BY <2>r, <1>1 DEF WriteStatus, GoTo
  <2>4. /\ r.pc = "release" /\ r.msg = agent[p].msg /\ r.receipt = agent[p].receipt
        /\ r.run = agent[p].run
    BY <1>0, <2>r DEF Process
  <2>5. /\ task'[agent[p].id] = agent[p].outcome /\ agent[p].outcome \in Closed
        /\ \A j \in Id : j # agent[p].id => task'[j] = task[j]
    BY <1>0, <2>1, <2>2, <2>3 DEF TypeOK, Good, OwnsTask
  <2>6. ActiveTasks' = {}
    BY <2>2, <2>5 DEF ActiveTasks, Active, Closed
  <2>7. \A k \in 0..MaxTasks : Ran(k) => Ran(k)'
    BY <2>5 DEF Ran, Id, Closed
  <2>8. thread.task \in 0..MaxTasks /\ agent[p].run \in 0..MaxTasks
    BY <1>0 DEF TypeOK, Process
  <2>9. Ran(thread.task)' /\ Ran(r.run)'
    BY <1>0, <2>1, <2>4, <2>7, <2>8 DEF Good, RunsOwn, Ran
  <2>10. Good(r)'
    BY <1>0, <2>1, <2>4, <2>9
    DEF Good, Attends, OwnsTask, RunsOwn, Knows, Owning, Running
  <2> QED
    BY <1>0, <2>1, <2>3, <2>6, <2>9, <2>10, BecomesIs, ActorSteps DEF OneActive
<1>2. CASE Release(p)
  <2> DEFINE r == [agent[p] EXCEPT !.pc = "ack"]
  <2>1. Becomes(p, r) /\ agent[p].pc = "release" /\ UNCHANGED <<queue, task, thread>>
    BY <1>2 DEF Release, GoTo, At, env
  <2>2. /\ r.pc = "ack" /\ r.msg = agent[p].msg /\ r.receipt = agent[p].receipt
        /\ r.run = agent[p].run
    BY <1>0 DEF Process
  <2>3. Good(r)
    BY <1>0, <2>1, <2>2 DEF Good, Attends, OwnsTask, RunsOwn, Knows, Owning, Running
  <2> QED
    BY <2>1, <2>3, ActorMoves
<1>3. CASE ReleaseRaises(p)
  BY <1>3, ActorLeaves DEF ReleaseRaises, At, env
\* The message may be gone now, but it was nobody else's.
<1>4. CASE Ack(p)
  <2>1. agent[p].pc = "ack" /\ Leave(p) /\ UNCHANGED <<task, thread>>
    BY <1>4 DEF Ack, At, rows
  <2>2. agent'[p] = Idle /\ Others(p) /\ Good(Idle)'
    BY <1>0, <2>1, BecomesIs DEF Leave, Good, Idle
  <2>3. OneActive' /\ Ran(thread.task)'
    BY <1>0, <2>1 DEF OneActive, ActiveTasks, Ran
  <2> QED
    BY <2>1, <2>2, <2>3, ActorSteps
<1>5. CASE Exit(p)
  BY <1>5, ActorLeaves DEF Exit, At, rows, env
<1> QED
  BY <1>1, <1>2, <1>3, <1>4, <1>5 DEF End

LEMMA FailSerial ==
  ASSUME SInv, NEW p \in Proc, Fail(p) PROVE SerialInv'
<1>0. agent[p] \in Process /\ TypeOK /\ Good(agent[p])
  BY DEF SInv, TypeOK, SerialInv
<1>1. CASE SweepRaises(p)
  <2>1. PICK o \in {"parked", "failed"} :
          /\ agent[p].pc = "sweep" /\ UNCHANGED <<queue, task, thread>>
          /\ Becomes(p, [agent[p] EXCEPT !.pc = "ack", !.outcome = o])
    BY <1>1 DEF SweepRaises, At, rows, env
  <2> DEFINE r == [agent[p] EXCEPT !.pc = "ack", !.outcome = o]
  <2>2. /\ r.pc = "ack" /\ r.msg = agent[p].msg /\ r.receipt = agent[p].receipt
        /\ r.run = agent[p].run
    BY <1>0 DEF Process
  <2>3. Good(r)
    BY <1>0, <2>1, <2>2 DEF Good, Attends, OwnsTask, RunsOwn, Knows, Owning, Running
  <2> QED
    BY <2>1, <2>3, ActorMoves
<1>2. CASE Raise(p)
  BY <1>2, ActorLeaves DEF Raise, rows, env
<1>3. CASE GraphRaises(p)
  <2>1. PICK o \in {"parked", "failed"} :
          /\ agent[p].pc = "graph" /\ UNCHANGED <<queue, task, thread>>
          /\ Becomes(p, [agent[p] EXCEPT !.pc = "caught", !.outcome = o])
    BY <1>3 DEF GraphRaises, At, rows, env
  <2> DEFINE r == [agent[p] EXCEPT !.pc = "caught", !.outcome = o]
  <2>2. /\ r.pc = "caught" /\ r.msg = agent[p].msg /\ r.receipt = agent[p].receipt
        /\ r.run = agent[p].run /\ r.id = agent[p].id /\ r.outcome = o
    BY <1>0 DEF Process
  <2>3. Good(r)
    BY <1>0, <2>1, <2>2
    DEF Good, Attends, OwnsTask, RunsOwn, Knows, Owning, Running, Closed
  <2> QED
    BY <2>1, <2>3, ActorMoves
<1>4. CASE WriteError(p)
  <2>1. agent[p].pc \in {"finish", "caught"} /\ UNCHANGED <<queue, task, thread>>
    BY <1>4 DEF WriteError, rows, env
  <2>2. CASE agent[p].pc = "finish"
    <3> DEFINE r == [agent[p] EXCEPT !.pc = "caught", !.outcome = "failed"]
    <3>1. Becomes(p, r)
      BY <1>4, <2>2 DEF WriteError, At
    <3>2. /\ r.pc = "caught" /\ r.msg = agent[p].msg /\ r.receipt = agent[p].receipt
          /\ r.run = agent[p].run /\ r.id = agent[p].id /\ r.outcome = "failed"
      BY <1>0 DEF Process
    <3>3. Good(r)
      BY <1>0, <2>2, <3>2
      DEF Good, Attends, OwnsTask, RunsOwn, Knows, Owning, Running, Closed
    <3> QED
      BY <2>1, <3>1, <3>3, ActorMoves
  <2>3. CASE agent[p].pc # "finish"
    <3> DEFINE r == [agent[p] EXCEPT !.pc = "release"]
    <3>1. Becomes(p, r)
      BY <1>4, <2>3 DEF WriteError, At, GoTo
    <3>2. /\ r.pc = "release" /\ r.msg = agent[p].msg /\ r.receipt = agent[p].receipt
          /\ r.run = agent[p].run
      BY <1>0 DEF Process
    <3>3. Good(r)
      BY <1>0, <2>1, <3>2
      DEF Good, Attends, OwnsTask, RunsOwn, Knows, Owning, Running
    <3> QED
      BY <2>1, <3>1, <3>3, ActorMoves
  <2> QED
    BY <2>2, <2>3
<1>5. CASE RenewLate(p) \/ RenewRevives(p) \/ RenewStale(p) \/ RenewError(p)
  <2>1. PICK w \in {"late", "on", "lost", "failed"} :
          /\ agent[p].pc \in Held /\ UNCHANGED <<queue, task, thread>>
          /\ Becomes(p, [agent[p] EXCEPT !.renewer = w])
    BY <1>5 DEF RenewLate, RenewRevives, RenewStale, RenewError, rows, env
  <2> DEFINE r == [agent[p] EXCEPT !.renewer = w]
  <2>2. /\ r.pc = agent[p].pc /\ r.msg = agent[p].msg /\ r.receipt = agent[p].receipt
        /\ r.run = agent[p].run /\ r.id = agent[p].id /\ r.outcome = agent[p].outcome
        /\ r.node = agent[p].node /\ r.resume = agent[p].resume
    BY <1>0 DEF Process
  <2>3. Good(r)
    BY <1>0, <2>2 DEF Good, Attends, OwnsTask, RunsOwn, Knows
  <2> QED
    BY <2>1, <2>3, ActorMoves DEF Held
<1>6. CASE AckError(p)
  BY <1>6, ActorLeaves DEF AckError, At, rows, env
<1>7. CASE AcquireRaises(p)
  BY <1>7, ActorLeaves DEF AcquireRaises, At, env
<1> QED
  BY <1>1, <1>2, <1>3, <1>4, <1>5, <1>6, <1>7 DEF Fail

LEMMA StopSerial ==
  ASSUME SInv, NEW p \in Proc, Crash(p) \/ Stop(p) PROVE SerialInv'
<1>0. agent[p] \in Process /\ TypeOK /\ Good(agent[p])
  BY DEF SInv, TypeOK, SerialInv
<1>1. CASE Crash(p)
  BY <1>1, ActorLeaves DEF Crash, At
\* The run that goes on is still the one of its message.
<1>2. CASE Stop(p)
  <2> DEFINE r == [agent[p] EXCEPT !.pc = "cut"]
  <2>1. Becomes(p, r) /\ agent[p].pc = "graph" /\ UNCHANGED <<queue, task, thread>>
    BY <1>2 DEF Stop, GoTo, At
  <2>2. /\ r.pc = "cut" /\ r.msg = agent[p].msg /\ r.receipt = agent[p].receipt
        /\ r.run = agent[p].run /\ r.id = agent[p].id /\ r.node = agent[p].node
    BY <1>0 DEF Process
  <2>3. Good(r)
    BY <1>0, <2>1, <2>2 DEF Good, Attends, OwnsTask, RunsOwn, Knows, Owning, Running
  <2> QED
    BY <2>1, <2>3, ActorMoves
<1> QED
  BY <1>1, <1>2

(* A message is given out only when nobody is in the middle of another.    *)
LEMMA ReceiveSerial ==
  ASSUME Serial, SInv, NEW p \in Proc, NEW m \in Msg, Receive(p, m)
  PROVE  SerialInv'
<1>0. TypeOK /\ OneActive /\ Ran(thread.task)
  BY DEF SInv, SerialInv
<1>1. \A q \in Proc : agent[q].pc = "idle"
  <2> SUFFICES ASSUME NEW q \in Proc, agent[q].pc # "idle" PROVE FALSE
    OBVIOUS
  <2>1. ~Solo
    BY DEF Receive, At, Solo
  <2>2. agent[q].msg \in Msg /\ queue[agent[q].msg].at = "inflight"
    BY <2>1 DEF SInv, SerialInv, Good, Attends
  <2>3. GroupOf[agent[q].msg] = GroupOf[m]
    BY <2>1, <2>2 DEF Serial, OneInFlight
  <2> QED
    BY <2>2, <2>3 DEF Receive
<1>r. PICK r : r = [Idle EXCEPT !.pc = "probe", !.msg = m,
                                !.receipt = queue[m].receives + 1]
  OBVIOUS
<1>2. agent'[p] = r /\ Others(p)
  BY <1>0, <1>r, BecomesIs DEF Receive
<1>3. /\ r.pc = "probe" /\ r.msg = m /\ r.receipt = queue[m].receives + 1
      /\ r.run = 0
  BY <1>r DEF Idle
<1>4. /\ UNCHANGED <<task, thread>>
      /\ queue'[m] = [at |-> "inflight", receives |-> queue[m].receives + 1]
  BY <1>0 DEF TypeOK, Receive, rows
<1>5. Good(r)'
  BY <1>3, <1>4 DEF Good, Attends, OwnsTask, RunsOwn, Ran, Knows, Owning, Running
<1>6. OneActive' /\ Ran(thread.task)'
  BY <1>0, <1>4 DEF OneActive, ActiveTasks, Ran
<1>7. \A q \in Proc : q # p => agent'[q].pc = "idle"
  BY <1>1, <1>2 DEF Others
<1>8. Alone' /\ \A q \in Proc : Good(agent[q])'
  BY <1>2, <1>5, <1>7 DEF Alone, Good
<1> QED
  BY <1>6, <1>8 DEF SerialInv

(* A message that goes back, or to the dead letter queue, is nobody's.     *)
LEMMA QueueSerial ==
  ASSUME Serial, SInv, NEW m \in Msg, Reappear(m) \/ DeadLetter(m)
  PROVE  SerialInv'
<1>1. ~Solo => \A q \in Proc : agent[q].pc # "idle" => agent[q].msg # m
  <2> SUFFICES ASSUME ~Solo, NEW q \in Proc, agent[q].pc # "idle", agent[q].msg = m
               PROVE  FALSE
    OBVIOUS
  <2>1. queue[m].at = "inflight" /\ queue[m].receives = agent[q].receipt
    BY DEF SInv, SerialInv, Good, Attends
  <2>2. Attended(m)
    BY <2>1 DEF Attended
  <2> QED
    BY <2>1, <2>2 DEF Serial, OneInFlight, Reappear, DeadLetter
<1>2. UNCHANGED <<task, thread, agent>> /\ \A n \in Msg : n # m => queue'[n] = queue[n]
  BY DEF SInv, TypeOK, Reappear, DeadLetter, rows
<1>3. Alone' /\ OneActive' /\ Ran(thread.task)'
  BY <1>2 DEF SInv, SerialInv, Alone, OneActive, ActiveTasks, Ran
<1>4. ASSUME NEW q \in Proc PROVE Good(agent[q])'
  <2>1. Good(agent[q])
    BY DEF SInv, SerialInv
  <2> QED
    BY <1>1, <1>2, <2>1 DEF Good, Attends, OwnsTask, RunsOwn, Ran, Knows
<1> QED
  BY <1>3, <1>4 DEF SerialInv

(* The webhook inserts only where no process has a task.                   *)
LEMMA WebhookSerial ==
  ASSUME SInv, NEW i \in Id, Webhook(i) PROVE SerialInv'
<1>0. TypeOK /\ OneActive /\ Ran(thread.task) /\ Alone
  BY DEF SInv, SerialInv
<1>1. UNCHANGED <<queue, thread, agent>> /\ ActiveTasks = {}
  BY DEF Webhook, env
<1>2. /\ task'[i] = "pending" /\ task[i] = "none" /\ i # 0
      /\ \A j \in Id : j # i => task'[j] = task[j]
  BY <1>0 DEF TypeOK, Webhook, NewTask, Id
<1>3. ActiveTasks' = {i}
  BY <1>1, <1>2 DEF ActiveTasks, Active
<1>4. \A k \in 0..MaxTasks : Ran(k) => Ran(k)'
  BY <1>2 DEF Ran, Id
<1>5. thread.task \in 0..MaxTasks
  BY <1>0 DEF TypeOK
<1>6. Ran(thread.task)'
  BY <1>0, <1>1, <1>4, <1>5 DEF Ran
<1>7. ASSUME NEW q \in Proc PROVE Good(agent[q])'
  <2>1. Good(agent[q]) /\ agent[q].run \in 0..MaxTasks
    BY <1>0 DEF SInv, SerialInv, TypeOK, Process
  <2>2. agent[q].pc \notin Owning
    BY <1>1, OwnIsActive
  <2>3. Good(agent[q]) /\ agent[q].pc # "idle" => Ran(agent[q].run)'
    BY <1>1, <1>4, <2>1 DEF Good, RunsOwn, Ran
  <2> QED
    BY <1>1, <2>1, <2>2, <2>3
    DEF Good, Attends, OwnsTask, RunsOwn, Ran, Knows, Owning, Running
<1> QED
  BY <1>0, <1>1, <1>3, <1>6, <1>7 DEF SerialInv, Alone, OneActive

LEMMA SerialInit == Init => SInv
<1> SUFFICES ASSUME Init PROVE SInv
  OBVIOUS
<1>1. TypeOK
  BY TypeInit
<1>2. \A p \in Proc : agent[p].pc = "idle"
  BY DEF Init, Idle
<1>3. ActiveTasks = {}
  BY DEF Init, ActiveTasks, Active
<1>4. Ran(thread.task)
  BY DEF Init, Ran
<1> QED
  BY <1>1, <1>2, <1>3, <1>4 DEF SInv, SerialInv, Alone, OneActive, Good

LEMMA SerialNext == ASSUME Serial, SInv, [Next]_vars PROVE SInv'
<1>1. TypeOK'
  BY TypeNext DEF SInv
<1>2. CASE Next
  <2>1. ASSUME NEW p \in Proc, NEW m \in Msg, Receive(p, m) PROVE SerialInv'
    BY <2>1, ReceiveSerial
  <2>2. ASSUME NEW p \in Proc, Begin(p) PROVE SerialInv'
    BY <2>2, BeginSerial
  <2>3. ASSUME NEW p \in Proc, Graph(p) PROVE SerialInv'
    BY <2>3, GraphSerial
  <2>4. ASSUME NEW p \in Proc, End(p) PROVE SerialInv'
    BY <2>4, EndSerial
  <2>5. ASSUME NEW p \in Proc, Fail(p) PROVE SerialInv'
    BY <2>5, FailSerial
  <2>6. ASSUME NEW p \in Proc, Crash(p) \/ Stop(p) PROVE SerialInv'
    BY <2>6, StopSerial
  <2>7. ASSUME NEW m \in Msg, Reappear(m) \/ DeadLetter(m) PROVE SerialInv'
    BY <2>7, QueueSerial
  <2>8. ASSUME NEW i \in Id, Webhook(i) PROVE SerialInv'
    BY <2>8, WebhookSerial
  <2> QED
    BY <1>1, <1>2, <2>1, <2>2, <2>3, <2>4, <2>5, <2>6, <2>7, <2>8 DEF Next, SInv
<1>3. CASE UNCHANGED vars
  BY <1>1, <1>3 DEF vars, SInv, SerialInv, Alone, OneActive, ActiveTasks, Ran,
                    Good, Attends, OwnsTask, RunsOwn, Knows
<1> QED
  BY <1>2, <1>3

LEMMA SerialInvariance == ASSUME Serial PROVE Spec => []SInv
<1>1. SInv /\ [Next]_vars => SInv'
  BY SerialNext
<1> QED
  BY <1>1, SerialInit, PTL DEF Spec

(* While one process runs, or the queue gives out one message of the query *)
(* at a time, the task that observe(node) finds for itself is the one      *)
(* whose lease is held, and the one the run is a run of: whatever          *)
(* processes die, stop or raise, and however late their renewals are.      *)
THEOREM ObserveFindsItsTask == ASSUME Serial PROVE Spec => []ObserveFindsTask
<1>1. SInv => ObserveFindsTask
  BY DEF SInv, SerialInv, Good, RunsOwn, ObserveFindsTask, AtNode, InGraph
<1> QED
  BY <1>1, SerialInvariance, PTL

(* A redelivered message goes on from the checkpoint of its task: the      *)
(* status "running" is written before the first checkpoint of a run, and a *)
(* process that reads it was not at work beside another one.               *)
THEOREM RunsAreResumed == ASSUME Serial PROVE Spec => []ProgressIsKept
<1>1. SInv => ProgressIsKept
  BY DEF SInv, SerialInv, Good, Knows, ProgressIsKept, At
<1> QED
  BY <1>1, SerialInvariance, PTL
=============================================================================
