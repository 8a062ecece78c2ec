# Engram: specifications, model checks and proofs

Engram is an agent that watches SQL queries of a target cluster, remembers
incidents in a CockroachDB memory cluster, proposes a remediation with a
language model, has a human approve it, applies it and measures it. This
directory holds TLA+ specifications of the agent, of the Lambdas around it, of
the dashboard's approval queue and of the roles they log in with, the TLC
configurations that check them, and theorems checked by TLAPS.

## 1. Inventory of the system

| Part | State | Operations | Hard behaviours | What makes it correct |
|---|---|---|---|---|
| Task lease (`agent/memory/leases.py`, `agent/memory/db.py` 560-643) | one `agent_leases` row per task; a `LeaseHandle` with a renew loop per holder | acquire / takeover with jittered retries, renew, release | clock against renewals, takeover of a late holder, delayed release, silent death of the renew loop, crash | one worker per task; a live row is its owner's; a displaced holder finds out; acquisition ends |
| Remediation ledger (`agent/nodes/gate.py`, `act_measure.py`, `db.py` 702-1003, `workers/approvals`) | `remediation_actions`, `approvals`, `decisions`, episodes, the target cluster, a checkpoint per run | propose, gate (insert / poll / expire / skip), human decision, act (ledger, DDL, measure, outcome), re-plan | crash between transactions, click against timeout, two runs proposing one change, stale decisions after a re-plan | nothing applied unapproved; the ledger follows the decision; one intent per change; a finished run is recorded |
| Message loop (`agent/main.py`) | SQS queue, `tasks` rows, the LangGraph checkpoint thread, lease of each task | receive, probe, `insert_task`, `_should_resume`, run graph, status write, ack | redelivery while a run is alive, crash and resume, stale checkpoints, unfenced status writes, SIGTERM | one run per incident; a resumed run is its own; every message ends |
| Reason node and LLM loop (`agent/nodes/reason.py`, `agent/llm`) | the round, the retry, the last error; reason decisions | call, schema check, counter-check against the optimizer, record, return | a model that answers anything, timeouts and 429s, death between record and return | what waits at the gate is recorded and not contradicted; the loop ends |
| Renderer, backup gate, target tools (`agent/tools`) | the target's schema, indexes, backups | render against real columns, `decide_backup_gate`, apply | a schema that changes between look and statement, an old backup, a taken index name | a human is asked about real columns only; nothing applied without a recent backup |
| Memory retrieval (`agent/memory/embeddings.py`, `db.py` 400-560, `nodes/observe.py`, `nodes/recall.py`) | `embedding_cache`, `memory_items.embedding` | look up, post with retries, store, nearest neighbours | rows of another model, two kinds of vector of one text, expiry | one vector space; a query is searched with a query vector |
| Lifecycle workers (`workers/consolidator`, `decayer`, `embedding_backfill`) | `memory_items`, `procedures`; a connection per container, open transaction included | cluster, draft, promote; decay, retire; list, embed, write | overlapping invocations, aborted transactions, pairs that are not atomic | promotion is whole; a procedure that is cited is active; every item is embedded |
| Producers (`workers/webhooks`, `workers/sweep_enumerator`) | `tasks`, `observations`, queue | incident insert with dedupe; enqueue per watched query | duplicate alerts, race with the agent's own insert | one active incident per fingerprint |
| Approvals and dashboard feeds (`workers/approvals`, `workers/common/db.py` 150-210, `dashboard/src`) | `approvals`; a stream's cursor; what the browser shows | request, expire, click, poll, receive, reconnect | late commits, a truncated cursor, lost connections, a click against a deadline | a 200 is the decision that stands; every decision is shown |
| Roles, credentials, bootstrap (`db/migrations`, `scripts/bootstrap_*`, `workers/common`) | grants, passwords, `.env`, Secrets Manager, cached secrets and sessions | run migrations, alter role, publish, verify, log in | a script that fails half way, a container that cached the old secret | exit 0 means one password everywhere; the Lambda recovers |
| Providers, telemetry, infrastructure, other scripts | HTTP clients, metrics, CDK | - | - | their retry loops and the queue's limits are in the models of their users; the rest is outside |

How the parts meet. A message names a watched query; the message loop probes
the query, finds or inserts the incident's `tasks` row, takes the row's lease
and runs the graph observe → recall → reason → gate → act_measure on the
fingerprint's checkpoint thread. gate and act_measure write the ledger
(`remediation_actions`, `approvals`, `decisions`, episodes in `memory_items`);
the approvals API, in another process, decides what gate polls for, and the dashboard streams that table to the human. The
consolidator turns recorded episodes into procedures, the decayer fades them,
the backfill embeds both, and recall of a later incident reads what is left.
The workers share only the database with the agent. The hard part is that
nothing spans two of these stores in one transaction: a lease row, a task's
status, a checkpoint, a ledger row, the target cluster and the queue each move
by a step of their own, between which a process can die or another can act.

## 2. Modules

| Module | What it is | Extends / instantiates |
|---|---|---|
| `Mutex` | abstract: at most one process works | - |
| `Lease` | the lease of one task, with time | `Mutex` (refinement mapping `ImplementsMutex`) |
| `Lifecycle` | abstract: the life of one change as `design/02-low-level-design.md` 582-588 draws it | - |
| `Remediation` | ledger, gate, act_measure, human, target | `Lifecycle` (refinement mapping `ImplementsLifecycle`, one instance per change) |
| `Agent` | the message loop of one fingerprint | `Mutex` (refinement mapping `ImplementsMutex`, one instance per task) |
| `Proposal` | reason, gate and act of one run, against a model that answers anything and a target that changes | - |
| `Embeddings` | the embedding cache, its two writers and the neighbour query | - |
| `Procedures` | consolidator and decayer over `procedures` and `memory_items` | - |
| `Feed` | the approvals table, its stream to a browser, the clicks back | - |
| `Access` | migrations' grants, bootstrap scripts, credentials, Lambda containers | - |
| `MCLease`, `MCRemediation`, `MCAgent`, `MCProposal`, `MCEmbeddings`, `MCProcedures`, `MCFeed` | instances for TLC: symmetry sets, functions and small sets for the constants | the module they name |
| `LeaseProofs`, `RemediationProofs`, `AgentProofs`, `ProposalProofs`, `EmbeddingsProofs`, `ProceduresProofs`, `FeedProofs`, `AccessProofs` | theorems and proofs | the module they name, `TLAPS` |

The modules compose by what they promise. `Agent` takes of a lease what `Lease`
is proved to give: a row is taken from a process that renews it only if its own
renewals failed or are late (`RenewLate`, one of the `Mishaps`). `Remediation` takes of the message
loop that a dead run is resumed from its checkpoint or orphaned, which is what
`Agent` shows redelivery to do. `Proposal` looks at one run where `Remediation`
looks at several: the ledger's transactions are single steps there, and what is
proposed has a shape. `Procedures` takes the episodes `Remediation` writes, and
of `Embeddings` that they get their vector. Definitions named `...Fault` are plausible bugs
in the definition after them; no specification uses them, they show that each
property can fail.

### Lease

One row, the others being independent by their WHERE clauses. `row` is the
`agent_leases` row with what is left of its TTL; `handle[p]` a process's
acquisition or `LeaseHandle`. `TakeOver` and `Insert` are the two statements of
`acquire_lease`, `BackOff`/`GiveUp` the retry loop, `Renew`/`RenewStale`/
`RenewError` a turn of the renew loop by how its UPDATE ends, `Delete`/
`DeleteError`/`ReleaseNothing` the release. `Tick` passes time; a renewal is due
after `RenewEvery` and may run up to `RenewLag` late.

### Remediation

A run is one execution of the graph, or a later attempt at the same task. Each
transaction and each remote call of gate and act_measure is a step; a node's
result is saved when the node returns, so a death (`Crash`) brings a run back to
the start of its node (`Resume`) or, when the query is found fast, ends it
without a word (`Orphan`). Abstractions: the model's proposal is any change or
none; the measured speed is "slow" or "fast" by whether a helpful change is on
the target, and noise decides when the plan did not change; act's decision rows
are not counted; episodes are a set of texts per change; the last episode and
the checkpoint after it are one step (`GateClose`). Not modelled: the human
override of the backup gate (it equals passing it), the 90-day TTL of rows, the
statuses 'approved', 'failed' and 'reconciled' that nothing writes, and the
branch of `insert_gate_decision` for an action without approval, which the
proved invariant makes unreachable.

### Agent

`queue` holds the messages that name one fingerprint: waiting, in flight, acked
or dead. `agent[p]` is where process p's `process_message` is: its fields are
that function's locals (`id` is task_id, `resume` is `resuming`), the run's place
in the graph, and the state of its renew loop. Every await that touches shared
state is an action, in the code's order: `ProbeSlow`/`ProbeFast`, `InsertTask`/
`InsertConflict`/`SelectTask`, `ReadStatus`, `ShouldResume`, `Start`, `Acquire`,
`Invoke`, the nodes, `WriteStatus`, `Release`, `Ack`, each with the ways it can
fail. The graph is observe (which inserts or finds a task itself) and "work".

- The queue is FIFO with redrive (`infra/engram_infra/agent_stack.py` 172-196):
  one message of a group in flight, a receipt that has expired is refused, after
  `MaxReceives` deliveries the message is dead. The order within a group is left
  out, messages of one query being alike.
- LangGraph as `main.py` uses it: `ainvoke(state)` checkpoints its input,
  `ainvoke(None)` goes on from the thread's latest checkpoint (an empty run if
  that is finished), and whoever saves last is latest.
- A stop (`Stop`) cancels consume_loop at its await of the run and not the run:
  it goes on ("cut") until the event loop closes. A stop elsewhere is a `Crash`.
- A dead process's row is "gone": there until it expires, free to be taken. A
  process that lives is not relabelled: `left` (history) holds the rows that name
  a live process because its acquire committed and raised (`AcquireRaises`) or its
  release raised (`LeaveRow`); the row goes on naming it until its TTL.
- The `Mishaps` are what a run may allow beside errors of the graph: a stop, a
  late renewal, an expired visibility, and "lease", a statement on a lease that
  raises, committed or not.
- Two processes: the service runs one, and a second while a deployment replaces
  it or a stopped one drains; this is what the lease is for.
- Initially the thread is new, or holds the checkpoint of a sweep that was cut
  short: a run whose task is found 'running' goes on from it (`ObserveNothing`).
- `slow` turns false when a change is applied and does not turn true again: a
  new occurrence is a message that finds the query still slow.

### Proposal

`run` is where the graph is, by node and by step between two awaits, with the
locals of the node. `Answer`, `AnswerInvalid`, `AnswerRaises` and `CallFails` are
the outcomes of one `complete()`; `NextRound` the loop of `reason.py`; `Record`
and `ReasonReturns` are apart because a death between them runs the node again
and records a second decision. `Render` is the look at the target's columns and
the renderer's checks, in which a table that is missing gives `known_columns =
None` and no check; `RequestApproval`, `Expire`, `GateReturns`, `CheckBackup`,
`Apply`, `Measure` follow gate and act_measure. `Decide` is the human,
`SchemaChanges` a migration of the target, `Backup` and `Tick` its backups and
the clock. A proposal is a kind, a table, a set of columns and the index name it
gives or leaves to the renderer (`NameOf`); the order of columns, the texts and
the citations are left out. Three fields of `run` are history: when the present
execution of the node `began`, and which columns `existed` and which tables were
`missed` at some time since.

### Embeddings

`cache` is keyed by `ContentHash`: text and input type. `call[c]` is a run of
`embed_and_cache` and the use its node makes of the vector (`InsertFingerprint`,
`Recall`); `fill[f]` an invocation of the backfill, by its rows still to look up,
its misses, its chunk, and the row of the chunk whose cache row is in. The
neighbour query returns any `AnnLimit` rows of which none is farther than a row
left out; nearness tells copies of the query from other rows and no more.

### Procedures

`procs` and `items` are the two tables by the procedure's unique key; `job[w]` an
invocation of the consolidator together with its container's connection. That
connection is not autocommit, so `view` is what its open transaction sees, and a
failed statement leaves it "aborted" until something rolls back; both survive
`Return`. `InsertDraft` commits only if what the transaction read is still so
(SERIALIZABLE). `decay[d]` is the decayer, whose statements are their own
transactions; a run may have any number of either, of which `MaxBusy` have an
invocation under way at one time. A connection that is found aborted on `Return`
is replaced by the next invocation's. The clock enters as `aged`: the procedures
whose confidence has reached the floor. `contested` is history: the procedures
that two decayers under way at one time judged differently. `MayUpdate` is the grant that migration 009 lacks (see Access,
below): as deployed it is FALSE and `Promote` never happens; the run sets it to
TRUE, the state the code is written for.

### Feed

`row` is the approvals table, `writing` the statements begun and not committed,
each with its own `now()` and the click it serves (0 for the agent's own);
`MayWrite` is their WHERE clause. `stream` is the route's
side of one EventSource connection, `wire` what it has sent, `shown` the
browser's map. `Newer` compares a microsecond column with a cursor that went
through a JavaScript Date. `posts` are the viewer's POSTs, through the proxy, to
the Lambda; several may be under way, since the panel's one `busy` id disables
the buttons of one approval and any answer enables them.

### Access

`granted` and `roles` grow statement by statement as `run_sql.py` executes a
migration, which goes on after an error or stops. `boot` is the run of a
bootstrap script, its steps per role: check, ALTER ROLE, .env, secrets, probes;
each can fail where its `try` is or is not, and each credential is written to .env
and to its secret in a step of its own. A secret that is denied is recorded as a
failure and the script goes on with the old one, to exit 1. A password is the number of the run
that made it. The target's script is of another shape: it runs its own migration
and then goes phase by phase over both its roles, where the others finish a role
before the next. The two clusters share one `granted` and one `roles`, as no name
is in both. `container[w]` is a Lambda's cached secret and its session. A probe
is the set of privileges its statement needs; "correctly fails" is, as in the
scripts, any exception. `Needs` lists what each Lambda's own SQL needs.

## 3. Runs

`MC` modules instantiate two (lease_timely: three) processes: a hazard here
takes one that acts and one that overtakes it.

| Run | Bounds | States | Shows |
|---|---|---|---|
| lease_timely | 3 processes, TTL 4, renew 1, lag 3: the code's 60 / 15 / 45 s | 29 k (symmetric) | exclusion, the row is its holder's, `Mutex` implemented |
| lease_late | 2 processes, TTL 2, lag 4 | 5 k | takeover of a live process: a lost handle stays lost, a live row is its owner's, the displaced learns, acquisition ends |
| remediation | 2 runs, a good and a bad change, 2 re-plans (the code's), a death | 0.2 M | the ledger's safety, decisions final, `Lifecycle` implemented, every run ends although no human ever decides |
| agent_messages | 1 message received twice, redelivery, late and failing renewals, a lease statement that raises, 2 task rows, a death or stop | 2.1 M (symmetric) | one holder at work; a task is closed by its holder or by one whose own renewals went wrong; only an acquire or a release that raised leaves the row of a live process |
| agent_serial | 2 occurrences of one query, 2 receives, 2 deaths or stops | 0.7 M | observe finds the pre-inserted task; work done is resumed; every message is acked or dead |
| proposal | 6 changes, 3 tables, 2 rounds, 2 retries, a re-plan, a schema change, a death | 1.1 M | record before gate, real columns, a backup judged in the execution that applies, the run ends |
| embeddings | a text to search with, one to find, an old model, 3 items, batches of 1, 2 failures | 0.2 M | one vector space, query vectors for queries, every row embedded |
| procedures | 1 scope, 2 names, 4 episodes, clusters of 2, 2 consolidators, 2 decayers, 3 at one time | 1.8 M (symmetric) | promotion is whole, what is cited is active but where two decayers judged differently, the first procedure is left to a human |
| feed | 2 approvals, backlog of 2, 2 polls per stream, 2 instants of one millisecond, 2 clicks, 2 transactions at one time | 0.3 M | a 200 stands, every decision is shown |
| access | migrations 006, 007 and the target's, the scripts of the three, 2 bootstrap runs, a container each | 0.5 M | exit 0 means one password; Lambdas recover |

The bounds: `MaxFence` and `MaxAttempts` let a row change hands and an acquirer
give up; `MaxReplans` is the code's where safety is checked; `MaxTasks` leaves
room for the row of each message, one inserted by observe and one of the
webhook, and a run that needs more waits (`MessagesEnd` says so); `MaxCrashes`
lets a recovery be interrupted where states allow (`agent_serial`). In `proposal` the three
answers about real and invented columns, the invented table, the malformed and
the missing name are every outcome of the renderer; one schema change is what
can come between the look and the question. In `embeddings` `RowLimit` and
`MAX_BATCH` of 1 make three rows more than one listing and one chunk. In
`procedures` two names are what "first of its scope" needs, and a third episode
of a bucket would only be one more subset. `feed` lets both approvals share a
millisecond and commit in either order. Its CONSTRAINT (`MCFeed!Bounded`) explores
one of the behaviours that differ in the names of the approvals or of the two
verdicts only, and bounds the rest: a second click opposes the first on the same
approval or repeats it on the other, two transactions are under way and two
events on the wire at one time. That a 200 stands is proved without any of these.
`access` has a script of every shape: the one that creates its secret first, with
two secrets, the one that updates it first, and the target's in phases. Deadlock
is not checked where everything may be over (the leases, the ledger, the
messages, a proposal); the services of the other four run for ever, and there it
is.

The runs that end in a violation check what a doc or a comment of the repository
says and the code does not do:

| Run | Said | Done |
|---|---|---|
| proposal_fabricated | `sql_probe.py` 164-165: None, a table that does not exist, must be treated as a validation failure | gate hands None to the renderer, which skips the check: the invented table goes to the human |
| access_granted | migration 009 lines 4-5: a role per Lambda, scoped to exactly the tables its own SQL touches | the consolidator's promotion is an UPDATE of `procedures`, which 009 does not grant and the bootstrap script verifies to fail: every promotion fails |

Further disagreements met in the same models, which no run is kept for (the names
are definitions in the modules, each of which TLC refutes):

- `leases.py` 15: the loop parks the task the moment the lease is gone. An error
  other than StaleLeaseError ends it silently (`Lease!DisplacedIsMarkedLost`).
- LLD 610, probe → present → success: the redelivery probes a fast query and
  takes the sweep path (`Remediation!PresentChangeIsJudged`).
- `main.py` 266, not resume a stale, finished checkpoint: 'running' and any
  checkpoint of the thread are enough (`Agent!ResumedRunIsOwn`).
- `docs/invariants.md` 41, stale holders are rejected at write time: the status
  write checks no holder (`Agent!StaleWriteRejected`).
- `design/01-high-level-design.md` 21, incident #2 finds what #1 taught: every
  sweep stores one more copy of the query, nearer to it than any episode, until
  the neighbour limit holds nothing else (`Embeddings!MemoryIsReached`).
- The consolidator's docstring (`handler.py` 47), a scope with a procedure has
  had its human confirmation: the first may still be a draft, or retired, when
  the second is activated (`Procedures!HumanCrossedGate`).
- The decayer's docstring (`handler.py` 20), nothing in the index points at a
  retired procedure: a failure between the two statements leaves the item, and no
  later run lists the row again (`Procedures!NoOrphan`). What is kept is weaker
  and enough for recall: `CitableIsActive`.
- The decayer's docstring (`handler.py` 11-16), twice concurrently, there is no
  state a rerun could corrupt: of two decayers, one that judged before the floor
  was reached writes after the other's retirement, and the retired row is usable
  again (`Procedures!RerunsCorruptNothing`). `CitableIsActive` excepts such a
  procedure and no other.
- `sse.ts` 12-14, rows strictly newer than the cursor: the Date loses the
  microseconds and the last row comes again (`Feed!StrictlyNewer`); the browser's
  map makes it harmless.
- `gate.py` 130, a genuinely different proposal after a rejection: nothing
  compares them, the same change meets its old decision
  (`Proposal!ReplanDiffers`).
- An index name that another set of columns has taken is skipped by IF NOT EXISTS
  and reported as applied (`Proposal!AppliedIsThere`).
- `docs/invariants.md` 41 calls the fence monotonic; release deletes the row
  (`db.py` 641) and the next tenure starts at 1 again. The holder column tells
  tenures apart (`LostIsLost`).
- `errors.py` 54 says of `LeaseAcquireTimeoutError` that "a live holder held it
  throughout"; the attempts can all lie within a dead holder's TTL.
- `db.py` 855 says the lease makes check-then-insert safe; the idempotency key
  spans tasks and the lease does not, so the INSERT can raise.
- LLD 611 calls window W4 a no-op; a resumed act_measure measures again, with the
  change in place, and overwrites the outcome.
- `main.py` 61 calls a parked task terminal; a call that deduped onto it earlier
  sets it to running.
- `main.py` 496 says the call in flight at SIGTERM finishes; it is cancelled and
  its lease released while the graph goes on ("cut").
- With two processes, `ObserveFindsTask` and `ProgressIsKept` (`main.py` 48 and
  101) fail when two watched queries have one fingerprint, or a visibility timeout
  ends during a call: the task is found, and whether to resume is decided, before
  the lease is waited for.

## 4. Fairness

Safety is checked without any. For liveness: in `Lease` the event loop runs the
timers and clocks move, so retries, renewals and releases happen; in
`Remediation` a live run takes its next step and a dead one is redelivered, the
human owes nothing (`gate` has its deadline); in `Agent` a process gets on with
its call, whose waits are all bounded (attempts at the lease, the gate's
deadline), polls when idle (`consume_loop` survives any exception), and SQS keeps
its visibility timeout and redrive. In `Embeddings` the schedule invokes the backfill
again and again (`WF Backfills`) and failures are finitely many (`MaxFaults`);
the rule is deployed disabled, so `EveryItemEmbedded` is about a deployment that
has switched it on. In `Feed` a statement commits, the browser reconnects (both
weak), for which its EventSource must go on retrying (it gives up on an answer
other than 200, until the page is loaded again), and a poll and the receipt of an event, which a failing query or a broken
connection can prevent again and again, succeed at some time (strong). In
`Proposal` the coroutine goes on, every await having a timeout. In `Access` a
Lambda is invoked again and no container lives for ever. Errors, deaths, stops,
clicks and webhooks are never fair.

## 5. Proofs

All theorems are for every value of the constants and are checked by TLAPS with
SMT, Zenon and LS4; liveness stays with TLC.

- `LeaseProofs`. Without assumption: types, `LiveRowIsOwners`, `LostIsLost`.
  `WorkersExclusive`, `HolderKeepsLease` and the refinement of `Mutex` assume
  `RenewInTime == RenewEvery + RenewLag <= TTL`; their invariant says that a
  worker's row is its own and that what is left of it covers what is left of the
  renewal's delay.
- `RemediationProofs`. `IInv` = `TypeOK`, `RowsAgree` (the ledger row, the
  approval, the decision count, the episodes and the target tell one story),
  `RunsAgree` (what a run has read is still so: needed because a run acts on a
  decision it polled earlier) and `DoneIsRecorded`. From it: the ledger's safety
  properties, `IntentIsOne` and `EpisodesAreTrue` among them, `DecisionFinal`, and
  `ImplementsLifecycle`, each step of `Remediation` being a step or a stutter of
  the change's life cycle.
- `AgentProofs`, the leases. `IInv` = `TypeOK` and, about leases, that a process
  past its dedupe has a task, that one under a lease has a renewer, that one told
  its lease is lost has no row, that a row names a process at work under it or is
  one an acquire or a release that raised has left (`LeaseIsUsed`) and, while its own renewals are in time, the converse
  (`OneHolder`). `LostHasNoRow` is what `Release` needs, which skips the DELETE for
  a lost lease. From it `LeaseIsUsed`, `OneHolder` and `ClosedUnderLease` whatever
  goes wrong; that no renewal is late is what `LeaseProofs` reduces to
  `RenewInTime`. `HolderCloses` rests on the order of status write and release,
  as the database does not fence the write. `LeasesExclude` is the refinement: for
  each task, the processes at it under a lease renewed in time (`Keepers`)
  implement `Mutex`, unconditionally. TLC searched `ImplementsMutex` with every
  mishap and one message (2.0 M states) before; no run repeats it, `OneHolder`
  being the invariant behind it. A process cut by a stop is no keeper: its run goes
  on without the lease (section 3).
- `AgentProofs`, one run at a time. `ObserveFindsTask` and `ProgressIsKept` assume
  `Serial`: there is one process (`Solo`; the service's desired count is 1), however
  its messages are redelivered and grouped, or the messages are one FIFO group and
  no visibility timeout ends during a call (`OneInFlight`). Deaths, stops, webhooks
  and late or failing renewals are allowed in either case. Neither covers a second
  process, while a deployment replaces the first, together with a run that
  outlasts the 120 s of visibility, as one that waits for a human does: there both
  are false (section 3), and what holds is the part above, without assumption.
  `SerialInv` says that one process is in the middle of a message, on the valid
  receipt unless `Solo` (`Alone`, `Attends`), that one task is active
  (`OneActive`) and it is the task of that process (`OwnsTask`),
  that the thread and the run are of a task that has been started (`Ran`,
  `RunsOwn`), and that whoever found its own task's checkpoint past observe has
  decided to resume (`Knows`). The last joins what `_should_resume` read to what
  `ainvoke` is called with, three awaits later.
- `ProposalProofs`. `Inv` = `WorldOK` (types, every approval asked for was
  recorded and not contradicted) and `RunOK` (what the run carries from reason on
  was not contradicted and is the last decision; at the question it was rendered
  against columns this execution of gate has seen; at the statement it is approved
  and has a backup within the window of when this execution of act began). From it
  `GatedIsRecorded`, that a run that acts is approved, and two action properties:
  `ColumnsWereReal` of the step that asks, `StatementIsCleared` of the step that
  changes the target. Both would fail if a look or a judgement outlived a death,
  which is what their mutant does (`CrashFault`).
- `EmbeddingsProofs`. `IInv` = `TypeOK`, `CacheIsTrue` (a cached vector is
  of the text and input type it is filed under, whatever model gave it, so that
  a hit of the configured model is the vector asked for), `OneSpace` and
  `QueryIsQuery`.
- `ProceduresProofs`. `IInv` = `TypeOK`, `PromotedWhole`, `FirstIsLeftToHuman` and
  `JobInv`: a worker that goes on to promote has a cluster to name and the scope
  has another procedure. That one was counted before the commit of the draft and
  used after it, which is sound because procedures are never deleted (`Grows`).
  `CitedIsActive`, for any number of decayers, has an invariant of its own (`FInv`):
  what a decayer has listed exists, what is retired or about to be has reached the
  floor for good (`RetiredIsDoomed`), two judgements of one procedure that differ
  contest it (`DifferingContest`), and an uncontested retired procedure is neither
  usable nor judged fit by anyone (`RetiredIsUnusable`).
- `FeedProofs`. `OkIsTheDecision` for any number of approvals, clicks and POSTs
  under way: its invariant says that a statement that serves a click is for the
  approval and the verdict of that click's POST (`StatementsServeClicks`), so that
  it answers no other. And that a decided approval stays decided that way
  (`DecisionsStand`).
- `AccessProofs`. `OnePassword` for every script the module has: `Inv` = types, `Progress` of
  the script that runs (a role it is done with, without a failure, is settled and
  verified; the role in hand is settled as far as its step says; the target's
  script likewise by phase, `Phases`) and `Success`, the same of every role of a
  script that has exited 0. A later run of another script cannot unsettle it, as
  no role is in two scripts, and probes once passed stay true, as no migration
  revokes (`ProbesAreGrants`).

Only model-checked: liveness (`AcquireEnds`, `RunEnds` of `Remediation` and of
`Proposal`, `MessagesEnd`, `EveryItemEmbedded`, `DecisionIsShown`,
`LambdaRecovers`), because it rests on fairness, and `DisplacedLearns`, which is
a leads-to of the same kind. Every invariant, action property and refinement that
a passing run checks is proved.

## 6. Not modelled, and the plan

Not modelled: contents of messages, observations and prompts; the ranking of
recall (floating point) and the confidence formula but for its floor; the human
override of the backup gate; telemetry, the health endpoint and start-up checks;
the other four feeds, which run on the same stream; migrations 003, 004 and 010
(vector index, checkpoint TTL, a view); the bootstrap scripts that make no role
(`bootstrap_agent_infra.py`, `bootstrap_checkpointer.py`), the verification, smoke
and demo scripts; CDK code but for the queue, the schedules
and their limits; user interface.

Limits of what is shown, which a reader should know:

- `feed`'s backlog holds every approval. Beyond `LIMIT` rows above it (25 in the
  code) a decision that commits late is below both the cursor and the backlog,
  and is not shown until it is asked for otherwise.
- `feed` has one viewer. Another one's clicks would be more POSTs, with a `shown`
  of their own; `OkIsTheDecision` is proved of any POSTs, whatever showed the
  button. A request the proxy gave up on reaches the Lambda before that or never:
  one that comes later would be a statement with a later `now()`.
- `agent_serial` has no redelivery during a call, so nobody waits there for
  another's lease (with one who does, `ProgressIsKept` fails, section 3), and no
  error of a lease's statement, whose effect on the queue a failing ack has too.
- `CitableIsActive` does not speak of a procedure that two decayers judged
  differently at one time: that one may be cited though it is retired.
- `ClosedUnderLease` exempts a process whose own renewals went wrong, which does
  close or park a task it no longer holds (section 3).
- A promotion asks for the id alone, so it can bring back a row retired since it
  was drafted; one that is lost leaves a draft for ever, as its episodes are
  claimed. The name of a procedure does not hold its outcome: the cluster of
  failures of the same change finds its name taken.
- A SELECT of the consolidator that fails is not rolled back: every later scope
  of the invocation fails as well.
- A negative probe passes on any exception, a lost connection among them. A
  `put_secret_value` that raises ends the script before its cleanup. `Access`
  has one operator: two who run one script at once can leave an old secret.
- A container keeps its first secret for life, so after a rotation it fails from
  the loss of its session until it is recycled; `LambdaRecovers` rests on that.

- The target's script drops its disposable table on its last line before `finally`
  and not in it; its docstring (lines 16-17) says "dropped again at the end
  regardless of outcome". The table is outside `Access`, which is about roles.

Planned next, in this order: the number of copies of an episode (`act_measure.py`
166), a fact about bags; what a run of `Remediation` leaves behind when its
statement fails after the ledger said applied (`act_measure.py` 161).
