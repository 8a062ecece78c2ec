------------------------------- MODULE Proposal -------------------------------
(***************************************************************************)
(* What stands between the model's answer and the target cluster: the      *)
(* rounds of reason(node) and the retries of its LLM call, the schema      *)
(* check and the falsification of the answer, the renderer's check of the  *)
(* target's real columns, the human's decision, the backup gate and the    *)
(* statement itself.  (How the rows of the ledger survive concurrent runs  *)
(* is Remediation's subject; here one run meets a model that may answer    *)
(* anything and a target whose tables come and go.)                        *)
(*                                                                         *)
(* A step of the run is what the code does between two awaits that reach   *)
(* another system.  A process that dies resumes its node from the start.   *)
(* The run's record also holds what there was to see in the target since   *)
(* this execution of the node began; it is history, no guard reads it.     *)
(***************************************************************************)
EXTENDS Naturals, FiniteSets

CONSTANTS
    Table, Column,   \* names a proposal may give, real, invented or malformed
    NoTable,         \* parameters has no "table": Proposal.parameters is a dict
    Change,          \* the proposals the model makes
    Clean,           \* names that pass ^[a-z_][a-z0-9_]*$ and are no forbidden word
    Name, NoName,    \* what parameters["index_name"] may be; not given, or ""
    DefaultName,     \* f"{table}_{'_'.join(columns)}_idx" of a set of columns
    Schemas,         \* columns of each table; none: the table does not exist
    MaxRounds,       \* MAX_ROUNDS
    MaxRetries,      \* ENGRAM_LLM_MAX_RETRIES
    MaxReplans,      \* MAX_REPLANS
    Window,          \* backup_window_hours
    MaxTime, MaxChanges, MaxCrashes   \* bounds: clock, schema changes, deaths

\* schemas.Proposal, its text fields left out; the columns in any order.
Proposals == [kind: {"create_index", "analyze_table"},
              table: Table \cup {NoTable}, columns: SUBSET Column,
              index: Name \cup {NoName}]

ASSUME ProposalAssumption ==
    /\ NoTable \notin Table /\ Change \subseteq Proposals
    /\ DOMAIN DefaultName = SUBSET Column /\ NoName \notin Name
    /\ Schemas \subseteq [Table -> SUBSET Column]
    /\ MaxRounds \in Nat \ {0} /\ MaxRetries \in Nat \ {0}
    /\ {MaxReplans, Window, MaxTime, MaxChanges, MaxCrashes} \subseteq Nat

VARIABLES
    run,        \* the run of the graph
    candidate,  \* columns of the observation's index_candidate; none: no candidate
    decisions,  \* reason decisions: the proposals recorded, and the last of them
    approval,   \* approvals, by the change's idempotency key
    schema,     \* the target's information_schema
    indexes,    \* the target's indexes, by table and name
    backups,    \* completion times of the target's backups
    now, changes, crashes

vars == <<run, candidate, decisions, approval, schema, indexes, backups, now,
          changes, crashes>>

target == <<schema, backups, now, changes>>

-----------------------------------------------------------------------------
(* Values.                                                                  *)

Over == {"done", "parked", "failed"}

Decided == {"approved", "rejected", "expired"}

\* change {} is None.  Of this execution of the node: the time it began, the
\* columns each table has had and the tables that have been missing since.
Run == [node: {"reason", "gate", "act"} \cup Over,
        step: {"call", "record", "return", "look", "ledger", "poll", "backup",
               "apply", "measure", "over"},
        change: {{}} \cup {{p} : p \in Change},
        round: 1 .. MaxRounds, attempt: 1 .. MaxRetries,
        replans: 0 .. MaxReplans, began: 0 .. MaxTime,
        existed: [Table -> SUBSET Column], missed: SUBSET Table]

\* The first step of a node.
FirstStep(node) ==
    CASE node = "reason" -> "call" [] node = "gate" -> "look"
      [] node = "act" -> "backup" [] OTHER -> "over"

\* A checkpoint: what the run knows when its node begins.
At(node, change, replans) ==
    [node |-> node, step |-> FirstStep(node), change |-> change, round |-> 1,
     attempt |-> 1, replans |-> replans, began |-> now, existed |-> schema,
     missed |-> {t \in Table : schema[t] = {}}]

Goto(node, change) == run' = At(node, change, run.replans)

Stop(how) == Goto(how, run.change)

Becomes(r) == run' = r

-----------------------------------------------------------------------------
(* reason(node).                                                            *)

\* The answer is counter-checked against the optimizer's recommendation, by its
\* columns alone; without a recommendation it stands.
Falsified(p) == candidate # {} /\ candidate \cap p.columns = {}

\* Fault: the round is not counted.
NextRoundFault == Becomes([run EXCEPT !.attempt = 1])

\* last_error, and the next round; after the last one LLMSchemaError parks.
NextRound ==
    IF run.round < MaxRounds
    THEN Becomes([run EXCEPT !.round = @ + 1, !.attempt = 1])
    ELSE Stop("parked")

\* complete() returns a tool call whose arguments make a Proposal.
Answer(p) ==
    /\ run.step = "call"
    /\ IF Falsified(p) THEN NextRound
       ELSE Becomes([run EXCEPT !.step = "record", !.change = {p}])
    /\ UNCHANGED <<candidate, decisions, approval, indexes, crashes, target>>

\* No tool call, or ValidationError.
AnswerInvalid ==
    /\ run.step = "call"
    /\ NextRound
    /\ UNCHANGED <<candidate, decisions, approval, indexes, crashes, target>>

\* Arguments left a string, or of a shape args.get(...) and c.strip() cannot
\* take; 401 and other 4xx: nothing in the node catches these.
AnswerRaises ==
    /\ run.step = "call"
    /\ Stop("failed")
    /\ UNCHANGED <<candidate, decisions, approval, indexes, crashes, target>>

\* Timeout, transport error, 429 or 5xx: retried, at last LlmTimeoutError or
\* LlmRateLimitError, which park.
CallFails ==
    /\ run.step = "call"
    /\ IF run.attempt < MaxRetries
       THEN Becomes([run EXCEPT !.attempt = @ + 1])
       ELSE Stop("parked")
    /\ UNCHANGED <<candidate, decisions, approval, indexes, crashes, target>>

\* Fault: a decision is recorded once per task.
RecordFault ==
    /\ run.step = "record"
    /\ decisions' = IF decisions.all = {} THEN [all |-> run.change, last |-> run.change]
                    ELSE decisions
    /\ Becomes([run EXCEPT !.step = "return"])
    /\ UNCHANGED <<candidate, approval, indexes, crashes, target>>

\* insert_decision commits ...
Record ==
    /\ run.step = "record"
    /\ decisions' = [all |-> decisions.all \cup run.change, last |-> run.change]
    /\ Becomes([run EXCEPT !.step = "return"])
    /\ UNCHANGED <<candidate, approval, indexes, crashes, target>>

\* ... and then the node returns the proposal to the checkpointer.
ReasonReturns ==
    /\ run.step = "return"
    /\ Goto("gate", run.change)
    /\ UNCHANGED <<candidate, decisions, approval, indexes, crashes, target>>

Reason ==
    \/ \E p \in Change : Answer(p)
    \/ AnswerInvalid \/ AnswerRaises \/ CallFails
    \/ Record \/ ReasonReturns

-----------------------------------------------------------------------------
(* gate(node).                                                              *)

\* get_table_columns, {} for its None.
KnownColumns(p) == schema[p.table]

\* recipe_renderer.render: known_columns = None skips the cross-check.
Renders(p, known) ==
    /\ p.table \in Clean
    /\ p.kind = "create_index" =>
         /\ p.columns # {} /\ p.columns \subseteq Clean
         /\ p.index \in Clean \cup {NoName}
         /\ known # {} => p.columns \subseteq known

\* parameters["table"] is a KeyError, a rejected rendering RecipeRejectedError.
Render ==
    /\ run.step = "look"
    /\ \E p \in run.change :
         IF p.table # NoTable /\ Renders(p, KnownColumns(p))
         THEN Becomes([run EXCEPT !.step = "ledger"])
         ELSE Stop("failed")
    /\ UNCHANGED <<candidate, decisions, approval, indexes, crashes, target>>

\* insert_gate_decision: a change proposed before keeps its approval, decided
\* or not.
RequestApproval ==
    /\ run.step = "ledger"
    /\ approval' = [p \in Change |-> IF p \in run.change /\ approval[p] = "none"
                                     THEN "pending" ELSE approval[p]]
    /\ Becomes([run EXCEPT !.step = "poll"])
    /\ UNCHANGED <<candidate, decisions, indexes, crashes, target>>

\* A human sees the rendered statement; at the deadline the gate decides.
Decide(p, status) ==
    /\ approval[p] = "pending"
    /\ approval' = [approval EXCEPT ![p] = status]
    /\ UNCHANGED <<run, candidate, decisions, indexes, crashes, target>>

Expire ==
    /\ run.step = "poll"
    /\ \E p \in run.change : Decide(p, "expired")

\* Back to reason(node), which is asked for a DIFFERENT remediation.
Replan ==
    /\ run.replans < MaxReplans
    /\ Becomes(At("reason", {}, run.replans + 1))

GateReturns ==
    /\ run.step = "poll"
    /\ \E p \in run.change :
         /\ approval[p] \in Decided
         /\ CASE approval[p] = "approved" -> Goto("act", run.change)
              [] approval[p] = "rejected" /\ run.replans < MaxReplans -> Replan
              [] OTHER -> Stop("done")
    /\ UNCHANGED <<candidate, decisions, approval, indexes, crashes, target>>

Gate == Render \/ RequestApproval \/ Expire \/ GateReturns

-----------------------------------------------------------------------------
(* act_measure(node).                                                       *)

\* decide_backup_gate: the most recent backup is inside the window.
BackupRecent == \E b \in backups : now - b <= Window

\* An API that fails or answers nothing parseable refuses, too.
CheckBackup ==
    /\ run.step = "backup"
    /\ \/ BackupRecent /\ Becomes([run EXCEPT !.step = "apply"])
       \/ Stop("parked")
    /\ UNCHANGED <<candidate, decisions, approval, indexes, crashes, target>>

NameOf(p) == IF p.index # NoName THEN p.index ELSE DefaultName[p.columns]

IndexOf(p) == [table |-> p.table, name |-> NameOf(p), columns |-> p.columns]

NameTaken(p) == \E i \in indexes : i.table = p.table /\ i.name = NameOf(p)

\* The target runs the statement: an index whose name is taken is there already
\* (IF NOT EXISTS), whatever its columns; a missing table or column is an error.
Apply ==
    /\ run.step = "apply"
    /\ \E p \in run.change :
         IF \/ schema[p.table] = {}
            \/ p.kind = "create_index" /\ ~(p.columns \subseteq schema[p.table])
         THEN Stop("failed") /\ UNCHANGED indexes
         ELSE /\ indexes' = IF p.kind = "create_index" /\ ~NameTaken(p)
                            THEN indexes \cup {IndexOf(p)} ELSE indexes
              /\ Becomes([run EXCEPT !.step = "measure"])
    /\ UNCHANGED <<candidate, decisions, approval, crashes, target>>

\* The second EXPLAIN ANALYZE: the query got faster, or not.
Measure ==
    /\ run.step = "measure"
    /\ Stop("done") \/ Replan
    /\ UNCHANGED <<candidate, decisions, approval, indexes, crashes, target>>

Act == CheckBackup \/ Apply \/ Measure

-----------------------------------------------------------------------------
(* The rest of the world.                                                   *)

\* Any query of a node fails: psycopg's error is no EngramError.
StatementFails ==
    /\ run.step \in {"record", "look", "ledger", "poll", "apply", "measure"}
    /\ Stop("failed")
    /\ UNCHANGED <<candidate, decisions, approval, indexes, crashes, target>>

\* Fault: the node is resumed at the step it had come to.
CrashFault ==
    /\ run.node \notin Over /\ crashes < MaxCrashes
    /\ Becomes([At(run.node, run.change, run.replans) EXCEPT !.step = run.step])
    /\ crashes' = crashes + 1
    /\ UNCHANGED <<candidate, decisions, approval, indexes, target>>

\* The process dies; the message, redelivered, resumes the node.
Crash ==
    /\ run.node \notin Over /\ crashes < MaxCrashes
    /\ Goto(run.node, IF run.node = "reason" THEN {} ELSE run.change)
    /\ crashes' = crashes + 1
    /\ UNCHANGED <<candidate, decisions, approval, indexes, target>>

\* A migration of the target gives a table other columns, or drops it and its
\* indexes.
SchemaChanges(t, columns) ==
    /\ changes < MaxChanges /\ columns # schema[t]
    /\ schema' = [schema EXCEPT ![t] = columns]
    /\ Becomes([run EXCEPT !.existed[t] = @ \cup columns,
                           !.missed = IF columns = {} THEN @ \cup {t} ELSE @])
    /\ indexes' = {i \in indexes : i.table = t => i.columns \subseteq columns}
    /\ changes' = changes + 1
    /\ UNCHANGED <<candidate, decisions, approval, backups, now, crashes>>

Tick ==
    /\ now < MaxTime
    /\ now' = now + 1
    /\ UNCHANGED <<run, candidate, decisions, approval, schema, indexes, backups,
                   changes, crashes>>

Backup ==
    /\ now \notin backups
    /\ backups' = backups \cup {now}
    /\ UNCHANGED <<run, candidate, decisions, approval, schema, indexes, now,
                   changes, crashes>>

Init ==
    /\ schema \in Schemas
    /\ candidate \in {{}} \cup {schema[t] : t \in Table}
    /\ now = 0 /\ changes = 0 /\ crashes = 0
    /\ run = At("reason", {}, 0)
    /\ decisions = [all |-> {}, last |-> {}]
    /\ approval = [p \in Change |-> "none"]
    /\ indexes = {} /\ backups = {}

\* What the run does itself.
Proceeds == Reason \/ Gate \/ Act

Next ==
    \/ Proceeds \/ StatementFails \/ Crash
    \/ \E p \in Change : \E status \in {"approved", "rejected"} : Decide(p, status)
    \/ \E t \in Table : \E columns \in SUBSET Column : SchemaChanges(t, columns)
    \/ Tick \/ Backup

Spec == Init /\ [][Next]_vars

\* The node's coroutine goes on: every call it awaits has a timeout.
FairSpec == Spec /\ WF_vars(Proceeds)

-----------------------------------------------------------------------------
TypeOK ==
    /\ run \in Run
    /\ candidate \subseteq Column
    /\ decisions.all \subseteq Change /\ decisions.last \subseteq decisions.all
    /\ approval \in [Change -> {"none", "pending"} \cup Decided]
    /\ schema \in [Table -> SUBSET Column]
    /\ \A i \in indexes : i.table \in Table /\ i.columns \subseteq Column
    /\ backups \subseteq 0 .. MaxTime
    /\ now \in 0 .. MaxTime /\ changes \in 0 .. MaxChanges
    /\ crashes \in 0 .. MaxCrashes

\* The audit trail explains what waits at the gate: through rounds, crashes and
\* re-plans the gated proposal is the last reason decision recorded, and nothing
\* a human is asked to approve was contradicted by the optimizer.
GatedIsRecorded ==
    /\ run.node \in {"gate", "act"} => run.change = decisions.last
    /\ \A p \in Change : approval[p] # "none" => p \in decisions.all /\ ~Falsified(p)

\* p is put before a human in this step.
Asks(p) == approval[p] = "none" /\ approval'[p] # "none"

\* A human is asked about columns the table has had since this execution of gate
\* began, however the target migrates between the look and the question and
\* wherever the process dies: a look made before a death is not used.  But for
\* the tables that were missing in that time, for which the renderer's check is
\* skipped.
ColumnsWereReal ==
    [][\A p \in Change :
          Asks(p) /\ p.kind = "create_index" /\ p.table \notin run.missed
              => p.columns \subseteq run.existed[p.table]]_vars

\* What appears on the target is the index of a change that is approved and
\* recorded, under a backup no older than the window when this execution of act
\* began: a run that dies behind the backup gate and is resumed much later does
\* not apply anything on the old judgement.
StatementIsCleared ==
    [][\A i \in indexes' \ indexes :
          /\ \E p \in decisions.all : i = IndexOf(p) /\ approval[p] = "approved"
          /\ \E b \in backups : run.began - b <= Window]_vars

\* Rounds, retries, re-plans, approvals and crashes come to an end.
RunEnds == <>(run.node \in Over)

\* get_table_columns's docstring: None, a table that does not exist, must be
\* treated as a validation failure.  gate(node) passes it on to render, which
\* skips the check: a table that was not there at any time since the gate began
\* goes to the human.
NothingFabricated ==
    [][\A p \in Change : Asks(p) => run.existed[p.table] # {}]_vars

\* graph.py: after a rejection the run comes back with a genuinely different
\* proposal.  Nothing compares it: the same change meets its old decision.
ReplanDiffers ==
    run.step = "ledger" => \A p \in run.change : approval[p] # "rejected"

\* act_measure's episode says the change was applied; the name of its index may
\* have been another index's.
AppliedIsThere ==
    run.step = "measure" =>
        \A p \in run.change : p.kind = "create_index" => IndexOf(p) \in indexes
=============================================================================
