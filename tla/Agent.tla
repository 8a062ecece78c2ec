------------------------------- MODULE Agent -------------------------------
(***************************************************************************)
(* The agent's message loop (agent/main.py) for one incident fingerprint:  *)
(* the messages that name it in the SQS queue, the tasks rows with their   *)
(* partial unique index, the lease of each task, the one checkpoint thread *)
(* of the fingerprint, and the agent processes that consume the queue.     *)
(*                                                                         *)
(* A process takes one message at a time; every await of process_message   *)
(* that touches shared state is a step of its own.  The graph is reduced   *)
(* to the nodes that matter here: observe, which inserts or finds a task   *)
(* by itself, and the rest, "work" (module Remediation has its inside).    *)
(* The lease of a task is what module Lease shows it to be: taken from a   *)
(* process that renews it only if a renewal failed or is too late.         *)
(***************************************************************************)
EXTENDS Naturals

CONSTANTS
  Proc,         \* agent processes; one that dies is started again
  Msg,          \* messages whose query has the fingerprint
  GroupOf,      \* GroupOf[m]: the FIFO message group, the watched query's id
  MaxReceives,  \* max_receive_count of the queue
  Mishaps,      \* what may go wrong besides crashes and raised errors:
                \*   "redelivery"  the visibility timeout ends during a call
                \*   "renewal"     renewals fail or come later than the TTL
                \*   "sigterm"     a process is told to stop during a run
                \*   "lease"       a statement on a lease raises, committed or not
  MaxTasks,     \* bound: rows of tasks
  MaxCrashes    \* bound: deaths of processes, stops included

ASSUME AgentConstants ==
  /\ {"free", "gone"} \cap Proc = {}
  /\ "none" \notin Msg
  /\ GroupOf = [m \in Msg |-> GroupOf[m]]
  /\ MaxReceives \in Nat \ {0}
  /\ Mishaps \subseteq {"redelivery", "renewal", "sigterm", "lease"}
  /\ MaxTasks \in Nat \ {0}
  /\ MaxCrashes \in Nat

VARIABLES
  queue,        \* the messages, and how often each was received
  slow,         \* a probe of the query finds the anomaly
  task,         \* tasks.status of each row
  lease,        \* agent_leases.holder_id of each task's row
  left,         \* history: the rows an acquire or a release that raised has left
  thread,       \* the latest checkpoint of the fingerprint's thread
  agent,        \* per process: where process_message is
  crashes

vars == <<queue, slow, task, lease, left, thread, agent, crashes>>
env == <<queue, slow, crashes>>
rows == <<task, lease, left, thread>>

Id == 1..MaxTasks

Active == {"pending", "running"}        \* those the code writes
Closed == {"completed", "parked", "failed"}

\* Where a run of the graph goes on.  "sweep" is observe(node) with a probe
\* that found nothing, whose task row is of no interest here.
Places == {"observe", "sweep", "observed", "work", "end"}

\* A process holds its task's lease, or believes so.
Held == {"invoke", "graph", "finish", "caught", "release"}

Pcs == {"idle", "probe", "sweep", "insert", "select", "status", "resume",
        "start", "acquire", "ack", "cut"} \cup Held

Process == [pc      : Pcs,
            msg     : Msg \cup {"none"},
            receipt : 0..MaxReceives,      \* the delivery it answers
            id      : 0..MaxTasks,         \* task_id
            resume  : BOOLEAN,             \* status_before, then resuming
            node    : Places \cup {"none"},
            run     : 0..MaxTasks,         \* state["task_id"] in the graph
            renewer : {"off", "on", "late", "failed", "lost"},
            outcome : Closed \cup {"none"}]

Idle == [pc |-> "idle", msg |-> "none", receipt |-> 0, id |-> 0,
         resume |-> FALSE, node |-> "none", run |-> 0, renewer |-> "off",
         outcome |-> "none"]

TypeOK ==
  /\ queue \in [Msg -> [at : {"waiting", "inflight", "acked", "dead"},
                        receives : 0..MaxReceives]]
  /\ slow \in BOOLEAN
  /\ task \in [Id -> {"none"} \cup Active \cup Closed]
  /\ lease \in [Id -> Proc \cup {"free", "gone"}]
  /\ left \in SUBSET Id
  /\ thread \in [next : (Places \ {"observed"}) \cup {"none"}, task : 0..MaxTasks]
  /\ agent \in [Proc -> Process]
  /\ crashes \in 0..MaxCrashes

(* The thread is new, or a sweep of the query, fast then, was cut short.   *)
Init ==
  /\ queue = [m \in Msg |-> [at |-> "waiting", receives |-> 0]]
  /\ slow = TRUE
  /\ task = [i \in Id |-> "none"]
  /\ lease = [i \in Id |-> "free"]
  /\ left = {}
  /\ thread \in [next : {"none", "sweep"}, task : {0}]
  /\ agent = [p \in Proc |-> Idle]
  /\ crashes = 0

-----------------------------------------------------------------------------
(* Helpers. *)

At(p, pc) == agent[p].pc = pc
Becomes(p, state) == agent' = [agent EXCEPT ![p] = state]
GoTo(p, pc) == Becomes(p, [agent[p] EXCEPT !.pc = pc])
Leave(p) == Becomes(p, Idle)

\* An index that forgets the status of a run in flight.
ActiveTasksFault == {i \in Id : task[i] = "pending"}

\* tasks_active_incident_idx admits one of these.
ActiveTasks == {i \in Id : task[i] \in Active}

NewTask(i) == task[i] = "none" /\ \A j \in Id : j < i => task[j] # "none"

\* The row of p's task, deleted: the DELETE matches the holder.
Freed(p) ==
  [i \in Id |-> IF i = agent[p].id /\ lease[i] = p /\ agent[p].renewer # "lost"
                THEN "free" ELSE lease[i]]

\* p dies: a process that takes its place has another holder_id.
Abandon(p) ==
  /\ lease' = [i \in Id |-> IF lease[i] = p THEN "gone" ELSE lease[i]]
  /\ left' = {i \in left : lease[i] # p}

\* release() raises the renew loop's error, or the DELETE's: the row goes on
\* naming p, with nobody to renew it.
LeaveRow(p) ==
  /\ agent[p].renewer = "failed" \/ "lease" \in Mishaps
  /\ left' = left \cup {i \in Id : i = agent[p].id /\ lease[i] = p}
  /\ UNCHANGED lease

\* The DELETE, which is skipped by a handle that is lost.
FreeRow(p) == agent[p].renewer # "failed" /\ lease' = Freed(p) /\ UNCHANGED left

Attended(m) == \E p \in Proc :
  agent[p].msg = m /\ agent[p].receipt = queue[m].receives

-----------------------------------------------------------------------------
(* The queue: SQS FIFO, one message of a group in flight at a time.        *)

\* One delivery more than the queue's limit.
ReceiveFault(p, m) ==
  /\ At(p, "idle") /\ queue[m].at = "waiting"
  /\ queue' = [queue EXCEPT ![m] = [at |-> "inflight", receives |-> @.receives + 1]]
  /\ Becomes(p,
       [Idle EXCEPT !.pc = "probe", !.msg = m, !.receipt = queue[m].receives + 1])
  /\ UNCHANGED <<rows, slow, crashes>>

Receive(p, m) ==
  /\ At(p, "idle")
  /\ queue[m].at = "waiting" /\ queue[m].receives < MaxReceives
  /\ \A n \in Msg : GroupOf[n] = GroupOf[m] => queue[n].at # "inflight"
  /\ queue' = [queue EXCEPT ![m] = [at |-> "inflight", receives |-> @.receives + 1]]
  /\ Becomes(p,
       [Idle EXCEPT !.pc = "probe", !.msg = m, !.receipt = queue[m].receives + 1])
  /\ UNCHANGED <<rows, slow, crashes>>

\* A message is in flight for as long as nobody gives it back.
ReappearFault(m) ==
  /\ queue[m].at = "inflight"
  /\ Attended(m) /\ "redelivery" \in Mishaps
  /\ queue' = [queue EXCEPT ![m].at = "waiting"]
  /\ UNCHANGED <<rows, agent, slow, crashes>>

\* The visibility timeout.
Reappear(m) ==
  /\ queue[m].at = "inflight"
  /\ Attended(m) => "redelivery" \in Mishaps
  /\ queue' = [queue EXCEPT ![m].at = "waiting"]
  /\ UNCHANGED <<rows, agent, slow, crashes>>

\* Redrive to the dead letter queue.
DeadLetter(m) ==
  /\ queue[m].at = "waiting" /\ queue[m].receives = MaxReceives
  /\ queue' = [queue EXCEPT ![m].at = "dead"]
  /\ UNCHANGED <<rows, agent, slow, crashes>>

-----------------------------------------------------------------------------
(* process_message: the probe, and the sweep of a query that is fast.      *)

\* Latency, full scan and a candidate index, all three.
IsAnomaly == slow

ProbeSlow(p) ==
  /\ At(p, "probe") /\ IsAnomaly
  /\ GoTo(p, "insert")
  /\ UNCHANGED <<rows, env>>

\* ainvoke(state) on the fingerprint's thread: its input is a checkpoint.
ProbeFast(p) ==
  /\ At(p, "probe") /\ ~IsAnomaly
  /\ GoTo(p, "sweep")
  /\ thread' = [next |-> "sweep", task |-> 0]
  /\ UNCHANGED <<task, lease, left, env>>

SweepEnds(p) ==
  /\ At(p, "sweep")
  /\ thread' = [next |-> "end", task |-> 0]
  /\ Becomes(p, [agent[p] EXCEPT !.pc = "ack", !.outcome = "completed"])
  /\ UNCHANGED <<task, lease, left, env>>

SweepRaises(p) ==
  /\ At(p, "sweep")
  /\ \E o \in {"parked", "failed"} :
       Becomes(p, [agent[p] EXCEPT !.pc = "ack", !.outcome = o])
  /\ UNCHANGED <<rows, env>>

-----------------------------------------------------------------------------
(* process_message: an incident, up to its lease.                          *)

\* insert_task: a new row, if the index has no active one ...
InsertTask(p) ==
  /\ At(p, "insert") /\ ActiveTasks = {}
  /\ \E i \in Id :
       /\ NewTask(i)
       /\ task' = [task EXCEPT ![i] = "pending"]
       /\ Becomes(p, [agent[p] EXCEPT !.pc = "status", !.id = i])
  /\ UNCHANGED <<lease, left, thread, env>>

\* ... a UniqueViolation and a rollback, if it has ...
InsertConflict(p) ==
  /\ At(p, "insert") /\ ActiveTasks # {}
  /\ GoTo(p, "select")
  /\ UNCHANGED <<rows, env>>

\* ... then the SELECT of the active row, which raises if it finds none.
SelectTask(p) ==
  /\ At(p, "select")
  /\ IF ActiveTasks = {}
       THEN Leave(p)
       ELSE \E i \in ActiveTasks :
              Becomes(p, [agent[p] EXCEPT !.pc = "status", !.id = i])
  /\ UNCHANGED <<rows, env>>

\* get_task_status
ReadStatus(p) ==
  /\ At(p, "status")
  /\ Becomes(p, [agent[p] EXCEPT !.pc = "resume",
                                 !.resume = (task[agent[p].id] = "running")])
  /\ UNCHANGED <<rows, env>>

\* _should_resume: and there is a checkpoint, of whatever run.
ShouldResume(p) ==
  /\ At(p, "resume")
  /\ Becomes(p, [agent[p] EXCEPT !.pc = "start",
                                 !.resume = @ /\ thread.next # "none"])
  /\ UNCHANGED <<rows, env>>

\* The status is not set before the run.
StartFault(p) == At(p, "start") /\ GoTo(p, "acquire") /\ UNCHANGED <<rows, env>>

\* update_task_status(task_id, "running"): the index may refuse a row that
\* was closed since.  (checkpoint_thread_id is a constant of the thread.)
Start(p) ==
  /\ At(p, "start")
  /\ IF ActiveTasks \subseteq {agent[p].id}
       THEN task' = [task EXCEPT ![agent[p].id] = "running"] /\ GoTo(p, "acquire")
       ELSE Leave(p) /\ UNCHANGED task
  /\ UNCHANGED <<lease, left, thread, env>>

\* The renew loop ends with the graph.
RenewsFault(p, i) ==
  agent[p].pc \in {"invoke", "graph"} /\ agent[p].id = i /\ agent[p].renewer = "on"

\* p's renew loop keeps the row of task i from expiring.
Renews(p, i) ==
  agent[p].pc \in Held /\ agent[p].id = i /\ agent[p].renewer = "on"

CanAcquire(i) == lease[i] \in Proc => ~Renews(lease[i], i)

Acquire(p) == LET i == agent[p].id IN
  /\ At(p, "acquire") /\ CanAcquire(i)
  /\ lease' = [lease EXCEPT ![i] = p] /\ left' = left \ {i}
  /\ Becomes(p, [agent[p] EXCEPT !.pc = "invoke", !.renewer = "on"])
  /\ UNCHANGED <<task, thread, env>>

\* The transaction commits, and its answer is lost.
AcquireRaises(p) == \E i \in Id :
  /\ "lease" \in Mishaps
  /\ At(p, "acquire") /\ i = agent[p].id /\ CanAcquire(i)
  /\ lease' = [lease EXCEPT ![i] = p] /\ left' = left \cup {i}
  /\ Leave(p)
  /\ UNCHANGED <<task, thread, env>>

\* LeaseAcquireTimeoutError, raised outside the try.
AcquireTimeout(p) ==
  /\ At(p, "acquire") /\ lease[agent[p].id] # "free"
  /\ Leave(p)
  /\ UNCHANGED <<rows, env>>

\* A statement raises before the try: nothing is undone, nothing is acked.
Raise(p) ==
  /\ agent[p].pc \in {"probe", "insert", "select", "status", "resume", "start", "acquire"}
  /\ Leave(p)
  /\ UNCHANGED <<rows, env>>

-----------------------------------------------------------------------------
(* The graph.  A process that was told to stop runs it on ("cut") until    *)
(* the event loop is closed.                                               *)

InGraph(p) == agent[p].pc \in {"graph", "cut"}
AtNode(p, node) == InGraph(p) /\ agent[p].node = node

\* graph.ainvoke(None) goes on from the thread's latest checkpoint, and
\* graph.ainvoke(state) starts over, with its input as a checkpoint.
Invoke(p) ==
  /\ At(p, "invoke")
  /\ IF agent[p].resume
       THEN /\ Becomes(p, [agent[p] EXCEPT !.pc = "graph", !.node = thread.next,
                                          !.run = thread.task])
            /\ UNCHANGED thread
       ELSE /\ Becomes(p, [agent[p] EXCEPT !.pc = "graph", !.node = "observe"])
            /\ thread' = [next |-> "observe", task |-> 0]
  /\ UNCHANGED <<task, lease, left, env>>

\* insert_incident_observation, with insert_task's dedupe of its own.
Observe(p) ==
  /\ AtNode(p, "observe")
  /\ IF ActiveTasks = {}
       THEN \E i \in Id :
              /\ NewTask(i)
              /\ task' = [task EXCEPT ![i] = "pending"]
              /\ Becomes(p, [agent[p] EXCEPT !.node = "observed", !.run = i])
       ELSE \E i \in ActiveTasks :
              /\ Becomes(p, [agent[p] EXCEPT !.node = "observed", !.run = i])
              /\ UNCHANGED task
  /\ UNCHANGED <<lease, left, thread, env>>

\* The checkpoint when a node returns, the graph being at node next.
Checkpoint(p, next) ==
  /\ thread' = [next |-> next, task |-> agent[p].run]
  /\ Becomes(p, [agent[p] EXCEPT !.node = next])
  /\ UNCHANGED <<task, lease, left, env>>

ObserveReturns(p) == AtNode(p, "observed") /\ Checkpoint(p, "work")
ObserveNothing(p) == AtNode(p, "sweep") /\ Checkpoint(p, "end")
WorkReturns(p) == AtNode(p, "work") /\ \E next \in {"work", "end"} : Checkpoint(p, next)

\* act_measure's DDL.
Apply(p) ==
  /\ AtNode(p, "work")
  /\ slow' = FALSE
  /\ UNCHANGED <<queue, rows, agent, crashes>>

\* Releases before the status is written.
GraphEndsFault(p) ==
  /\ At(p, "graph") /\ agent[p].node = "end"
  /\ lease' = Freed(p)
  /\ Becomes(p, [agent[p] EXCEPT !.pc = "finish", !.outcome = "completed"])
  /\ UNCHANGED <<task, left, thread, env>>

GraphEnds(p) ==
  /\ At(p, "graph") /\ agent[p].node = "end"
  /\ Becomes(p, [agent[p] EXCEPT !.pc = "finish", !.outcome = "completed"])
  /\ UNCHANGED <<rows, env>>

\* _classify_exception: an EngramError parks, anything else fails.
GraphRaises(p) ==
  /\ At(p, "graph") /\ agent[p].node # "end"
  /\ \E o \in {"parked", "failed"} :
       Becomes(p, [agent[p] EXCEPT !.pc = "caught", !.outcome = o])
  /\ UNCHANGED <<rows, env>>

\* wait_until_lost() comes back first, and the run is cancelled.
Interrupt(p) ==
  /\ At(p, "graph") /\ agent[p].renewer = "lost"
  /\ Becomes(p, [agent[p] EXCEPT !.pc = "finish", !.outcome = "parked"])
  /\ UNCHANGED <<rows, env>>

-----------------------------------------------------------------------------
(* process_message: the outcome, the release, and consume_loop's ack.      *)

\* update_task_status(task_id, outcome), whoever holds the lease by now.
WriteStatus(p) ==
  /\ agent[p].pc \in {"finish", "caught"}
  /\ task' = [task EXCEPT ![agent[p].id] = agent[p].outcome]
  /\ GoTo(p, "release")
  /\ UNCHANGED <<lease, left, thread, env>>

\* Its error makes the outcome "failed", and is suppressed the second time.
WriteError(p) ==
  /\ agent[p].pc \in {"finish", "caught"}
  /\ IF At(p, "finish")
       THEN Becomes(p, [agent[p] EXCEPT !.pc = "caught", !.outcome = "failed"])
       ELSE GoTo(p, "release")
  /\ UNCHANGED <<rows, env>>

\* The row's TTL passes before the next renewal: it may be taken.
RenewLate(p) ==
  /\ "renewal" \in Mishaps
  /\ agent[p].pc \in Held /\ agent[p].renewer = "on"
  /\ Becomes(p, [agent[p] EXCEPT !.renewer = "late"])
  /\ UNCHANGED <<rows, env>>

\* renew_lease asks for the holder, not for expires_at.
RenewRevives(p) ==
  /\ agent[p].pc \in Held /\ agent[p].renewer = "late" /\ lease[agent[p].id] = p
  /\ Becomes(p, [agent[p] EXCEPT !.renewer = "on"])
  /\ UNCHANGED <<rows, env>>

RenewStale(p) ==
  /\ agent[p].pc \in Held /\ agent[p].renewer \in {"on", "late"}
  /\ lease[agent[p].id] # p
  /\ Becomes(p, [agent[p] EXCEPT !.renewer = "lost"])
  /\ UNCHANGED <<rows, env>>

RenewError(p) ==
  /\ "renewal" \in Mishaps
  /\ agent[p].pc \in Held /\ agent[p].renewer \in {"on", "late"}
  /\ Becomes(p, [agent[p] EXCEPT !.renewer = "failed"])
  /\ UNCHANGED <<rows, env>>

Release(p) ==
  /\ At(p, "release")
  /\ FreeRow(p)
  /\ GoTo(p, "ack")
  /\ UNCHANGED <<task, thread, env>>

\* release() raises in the finally clause: consume_loop never sees the
\* outcome, and does not ack.
ReleaseRaises(p) ==
  /\ At(p, "release") /\ agent[p].renewer # "lost"
  /\ LeaveRow(p) \/ ("lease" \in Mishaps /\ FreeRow(p))
  /\ Leave(p)
  /\ UNCHANGED <<task, thread, env>>

\* delete_message, which a FIFO queue refuses once the receipt has expired.
Ack(p) == LET m == agent[p].msg IN
  /\ At(p, "ack")
  /\ queue' = IF /\ agent[p].outcome # "failed"
                 /\ queue[m].at = "inflight" /\ queue[m].receives = agent[p].receipt
                THEN [queue EXCEPT ![m].at = "acked"]
                ELSE queue
  /\ Leave(p)
  /\ UNCHANGED <<rows, slow, crashes>>

AckError(p) ==
  /\ At(p, "ack")
  /\ Leave(p)
  /\ UNCHANGED <<rows, env>>

-----------------------------------------------------------------------------
(* Deaths, stops, and the other producer of tasks.                         *)

Crash(p) ==
  /\ crashes < MaxCrashes /\ crashes' = crashes + 1
  /\ ~At(p, "idle")
  /\ Abandon(p)
  /\ Leave(p)
  /\ UNCHANGED <<queue, slow, task, thread>>

\* The cancelled call does not reach its finally clause.
StopFault(p) ==
  /\ "sigterm" \in Mishaps
  /\ crashes < MaxCrashes /\ crashes' = crashes + 1
  /\ At(p, "graph")
  /\ GoTo(p, "cut")
  /\ UNCHANGED <<queue, slow, rows>>

\* SIGTERM: main cancels consume_loop, whose finally clause releases the
\* lease; asyncio.wait leaves the graph's own asyncio task alone.
Stop(p) ==
  /\ "sigterm" \in Mishaps
  /\ crashes < MaxCrashes /\ crashes' = crashes + 1
  /\ At(p, "graph")
  /\ FreeRow(p) \/ LeaveRow(p)
  /\ GoTo(p, "cut")
  /\ UNCHANGED <<queue, slow, task, thread>>

Exit(p) ==
  /\ At(p, "cut")
  /\ Abandon(p)
  /\ Leave(p)
  /\ UNCHANGED <<task, thread, env>>

\* POST /webhooks/alerts: insert_incident_observation of workers/common.  It
\* puts nothing in the queue.
Webhook(i) ==
  /\ ActiveTasks = {} /\ NewTask(i)
  /\ task' = [task EXCEPT ![i] = "pending"]
  /\ UNCHANGED <<lease, left, thread, agent, env>>

-----------------------------------------------------------------------------
Begin(p) ==
  \/ ProbeSlow(p) \/ ProbeFast(p) \/ SweepEnds(p)
  \/ InsertTask(p) \/ InsertConflict(p) \/ SelectTask(p)
  \/ ReadStatus(p) \/ ShouldResume(p) \/ Start(p) \/ Acquire(p) \/ AcquireTimeout(p)

Graph(p) ==
  \/ Invoke(p) \/ Observe(p) \/ ObserveReturns(p) \/ ObserveNothing(p)
  \/ WorkReturns(p) \/ Apply(p) \/ GraphEnds(p) \/ Interrupt(p)

End(p) == WriteStatus(p) \/ Release(p) \/ ReleaseRaises(p) \/ Ack(p) \/ Exit(p)

Fail(p) ==
  \/ SweepRaises(p) \/ Raise(p) \/ AcquireRaises(p) \/ GraphRaises(p) \/ WriteError(p)
  \/ RenewLate(p) \/ RenewRevives(p) \/ RenewStale(p) \/ RenewError(p)
  \/ AckError(p)

Next ==
  \/ \E p \in Proc : \/ \E m \in Msg : Receive(p, m)
                     \/ Begin(p) \/ Graph(p) \/ End(p) \/ Fail(p)
                     \/ Crash(p) \/ Stop(p)
  \/ \E m \in Msg : Reappear(m) \/ DeadLetter(m)
  \/ \E i \in Id : Webhook(i)

Spec == Init /\ [][Next]_vars

(* A process that runs gets on with its call, whatever it waits for being  *)
(* bounded (the gate by its deadline, the lease by its attempts), polls    *)
(* when idle, and the queue keeps its times.                               *)
GraphGoesOn(p) == AtNode(p, "work") /\ Checkpoint(p, "end")

Fairness ==
  /\ \A p \in Proc : /\ WF_vars(Begin(p))
                     /\ WF_vars(Graph(p)) /\ WF_vars(GraphGoesOn(p))
                     /\ WF_vars(End(p))
                     /\ WF_vars(\E m \in Msg : Receive(p, m))
  /\ \A m \in Msg : WF_vars(Reappear(m)) /\ WF_vars(DeadLetter(m))

FairSpec == Spec /\ Fairness

-----------------------------------------------------------------------------
(* Properties. *)

(* From acquire to release the row names the process as long as its own    *)
(* renewals are in time, however messages are redelivered, processes die   *)
(* and others are late: so no two of them work on one task.                *)
OneHolder ==
  \A p \in Proc : agent[p].pc \in Held /\ agent[p].renewer = "on"
                    => lease[agent[p].id] = p

(* A task is closed under its lease: update_task_status is not fenced, so  *)
(* it is the order of the status write and the release that keeps a        *)
(* process from closing a task that another one has taken over, unless its *)
(* own renewals went wrong.                                                *)
ClosedUnderLease ==
  [][\A i \in Id : task[i] \in Active /\ task'[i] \in Closed
       => \E p \in Proc :
            /\ agent[p].id = i /\ agent'[p] # agent[p]
            /\ lease[i] = p \/ agent[p].renewer \in {"late", "failed", "lost"}]_vars

(* A row that names a process which lives is one it works under, unless an *)
(* acquire or a release of the row raised: then the row goes on naming it, *)
(* up to its TTL.  Every other way out of process_message frees it: the    *)
(* interrupt, a stop, an outcome that cannot be written, a late renewal.   *)
LeaseIsUsed ==
  \A i \in Id \ left : lease[i] \in Proc => /\ agent[lease[i]].pc \in Held
                                           /\ agent[lease[i]].id = i

(* The lease's promise seen from the loop: the processes that are at task i *)
(* under a lease they keep from expiring exclude one another, each of them *)
(* entering by acquire, or by a late renewal that finds its row untouched, *)
(* and leaving by release, by its death, or when its renewals go wrong.    *)
Keepers(i) == {p \in Proc : Renews(p, i)}

OfTask(i) == INSTANCE Mutex WITH working <- Keepers(i)

ImplementsMutex ==
  /\ \A i \in Id : OfTask(i)!Init
  /\ [][\A i \in Id : OfTask(i)!Next \/ UNCHANGED Keepers(i)]_vars

(* main.py, decision 3: observe(node)'s own insert "dedupes onto this exact *)
(* row": the run's task is the one whose lease is held.                    *)
ObserveFindsTask == \A p \in Proc : AtNode(p, "observed") => agent[p].run = agent[p].id

(* A redelivered message never starts over a run of its task that has a    *)
(* checkpoint past observe(node).                                          *)
ProgressIsKept ==
  \A p \in Proc : At(p, "invoke") /\ thread.next = "work" /\ thread.task = agent[p].id
                    => agent[p].resume

(* Every message is acked or ends in the dead letter queue (or the rows    *)
(* have reached their bound).                                              *)
MessagesEnd ==
  \A m \in Msg : <>(\/ queue[m].at \in {"acked", "dead"}
                    \/ \A i \in Id : task[i] # "none")

-----------------------------------------------------------------------------
(* What the repository says, and the code does not do. *)

(* _should_resume: a new occurrence of a completed incident "must still    *)
(* run the full graph from `observe`, not resume a stale, already-finished *)
(* checkpoint": a resumed run that completes a task was a run of it.       *)
ResumedRunIsOwn ==
  \A p \in Proc : At(p, "finish") /\ agent[p].outcome = "completed" /\ agent[p].resume
                    => agent[p].run = agent[p].id

(* docs/invariants.md, 5: "stale holders are rejected at write time".      *)
StaleWriteRejected ==
  [][\A p \in Proc : agent[p].pc \in Held /\ lease[agent[p].id] # p /\ agent'[p] # agent[p]
       => task' = task]_vars
=============================================================================
