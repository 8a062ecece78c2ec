---------------------------- MODULE Remediation ----------------------------
(***************************************************************************)
(* The remediation ledger and the runs that drive it: the nodes reason,    *)
(* gate and act_measure of the agent's graph (agent/graph.py,              *)
(* agent/nodes/), the ledger, approval and episode rows they write through *)
(* agent/memory/db.py, the human who decides through the approvals API     *)
(* (workers/approvals/handler.py), and the target cluster the change is    *)
(* applied to.                                                             *)
(*                                                                         *)
(* A run is one execution of the graph for one incident.  Each transaction *)
(* or remote call of a node is a step of its own; the checkpointer saves   *)
(* the graph's state when a node returns, so a process that dies loses the *)
(* node's local state ("at" and the fields after it) and keeps the rest.   *)
(***************************************************************************)
EXTENDS Naturals

CONSTANTS
    Task,         \* the runs, each for a query of its own
    Key,          \* canonical changes: one idempotency key each
    NoKey,        \* the proposal is None
    Helps,        \* Helps[t]: the changes that make t's query fast
    MaxReplans,   \* MAX_REPLANS
    MaxCrashes    \* bound on the process deaths of one behaviour

ASSUME RemediationConstants ==
    /\ NoKey \notin Key
    /\ Helps \in [Task -> SUBSET Key]
    /\ MaxReplans \in Nat
    /\ MaxCrashes \in Nat

VARIABLES
    action,       \* remediation_actions: the row of each idempotency key
    approval,     \* approvals: the status of that row's approval
    decisions,    \* decisions: how many node='gate' rows the change has
    episodes,     \* memory_items: what the episodes about a change say
    target,       \* the changes present on the target cluster
    run,          \* the runs of the graph
    crashes       \* process deaths so far

vars == <<action, approval, decisions, episodes, target, run, crashes>>

rows == <<action, approval, decisions, episodes>>

-----------------------------------------------------------------------------
(* The rows and the states of a run. *)

Refused == {"rejected", "expired"}
Decided == {"approved"} \cup Refused
Outcomes == {"success", "failure"}

Nodes == {"reason", "gate", "act"}                      \* where a run can be
Over == {"done", "parked", "failed", "orphaned"}        \* how it can end

Steps == {"start", "down",                                    \* any node
          "insert", "poll", "expire", "decided", "skipped",   \* gate
          "ledger", "ddl", "after", "outcome", "return"}      \* act_measure

Action == [status : {"none", "proposed", "applied", "skipped"},
           outcome : {"none", "skipped"} \cup Outcomes]

Run == [node : Nodes \cup Over,
        key : Key \cup {NoKey},
        replans : 0..MaxReplans,
        at : Steps,
        seen : {"none"} \cup Decided,        \* approval["status"] as polled
        before : {"none", "slow", "fast"},   \* measured_before
        verdict : {"none"} \cup Outcomes]    \* outcome as measured

(* A run whose last checkpoint says this, and nothing since. *)
AtNode(node, k, n) == [node |-> node, key |-> k, replans |-> n, at |-> "start",
                       seen |-> "none", before |-> "none", verdict |-> "none"]

Init == /\ action = [k \in Key |-> [status |-> "none", outcome |-> "none"]]
        /\ approval = [k \in Key |-> "none"]
        /\ decisions = [k \in Key |-> 0]
        /\ episodes = [k \in Key |-> {}]
        /\ target = {}
        /\ run = [t \in Task |-> AtNode("reason", NoKey, 0)]
        /\ crashes = 0

-----------------------------------------------------------------------------
(* Helpers. *)

In(t, node, step) == run[t].node = node /\ run[t].at = step

(* The checkpoint taken when a node returns; the run goes on at node. *)
Goto(t, node, k, n) == run' = [run EXCEPT ![t] = AtNode(node, k, n)]

(* A step inside a node. *)
Proceed(t, step) == run' = [run EXCEPT ![t].at = step]

(* The node raised: the run is over, and main.py names the outcome. *)
Stop(t, how) == Goto(t, how, run[t].key, run[t].replans)

RowExists(k) == action[k].status # "none"

(* EXPLAIN ANALYZE of the run's query on the target. *)
Speed(t) == IF target \cap Helps[t] # {} THEN "fast" ELSE "slow"

(* measured_after < measured_before: settled by the plan when it changed,  *)
(* by the noise of two timings when it did not.                            *)
Verdicts(before, after) ==
    IF before = "slow" /\ after = "fast" THEN {"success"} ELSE Outcomes

(* Faults: definitions named ...Fault are plausible bugs in the definition *)
(* that follows them.  No specification uses them; they show that a        *)
(* property can fail.                                                      *)

(* Fault: one re-plan over budget. *)
ReplanOnceMoreFault(t) == run[t].replans <= MaxReplans

CanReplan(t) == run[t].replans < MaxReplans

(* Fault: a node forgets to return replan_count. *)
UnspentFault(n) == n

Respent(n) == n + 1

(* Fault: the UPDATE forgets its status = 'pending'. *)
DecideAgainFault(k) == approval[k] # "none"

CanDecide(k) == approval[k] = "pending"

-----------------------------------------------------------------------------
(* reason(node): the model proposes a change, any change. *)
Propose(t, k) == /\ In(t, "reason", "start")
                 /\ Goto(t, "gate", k, run[t].replans)
                 /\ UNCHANGED <<rows, target, crashes>>

(* No valid proposal within MAX_ROUNDS: LLMSchemaError. *)
ProposeNothing(t) == /\ In(t, "reason", "start")
                     /\ Stop(t, "parked")
                     /\ UNCHANGED <<rows, target, crashes>>

-----------------------------------------------------------------------------
(* gate(node). *)

(* insert_gate_decision's SELECT: a known change is reconciled onto its    *)
(* row and its approval, a new one will be inserted.                       *)
GateSelect(t) == /\ In(t, "gate", "start")
                 /\ Proceed(t, IF RowExists(run[t].key) THEN "poll" ELSE "insert")
                 /\ UNCHANGED <<rows, target, crashes>>

(* Fault: no unique index behind the SELECT. *)
GateInsertAgainFault(t) == LET k == run[t].key IN
                 /\ In(t, "gate", "insert")
                 /\ action' = [action EXCEPT ![k].status = "proposed"]
                 /\ approval' = [approval EXCEPT ![k] = "pending"]
                 /\ decisions' = [decisions EXCEPT ![k] = @ + 1]
                 /\ Proceed(t, "poll")
                 /\ UNCHANGED <<episodes, target, crashes>>

(* The three INSERTs and the commit, if idempotency_key is still free. *)
GateInsert(t) == LET k == run[t].key IN
                 /\ In(t, "gate", "insert")
                 /\ ~RowExists(k)
                 /\ action' = [action EXCEPT ![k].status = "proposed"]
                 /\ approval' = [approval EXCEPT ![k] = "pending"]
                 /\ decisions' = [decisions EXCEPT ![k] = @ + 1]
                 /\ Proceed(t, "poll")
                 /\ UNCHANGED <<episodes, target, crashes>>

(* Another run inserted the row since the SELECT: the transaction aborts   *)
(* with a UniqueViolation nothing catches.                                 *)
GateCollide(t) == /\ In(t, "gate", "insert")
                  /\ RowExists(run[t].key)
                  /\ Stop(t, "failed")
                  /\ UNCHANGED <<rows, target, crashes>>

(* The poll finds a decision. *)
GatePoll(t) == LET s == approval[run[t].key] IN
               /\ In(t, "gate", "poll")
               /\ s \in Decided
               /\ run' = [run EXCEPT ![t].at = "decided", ![t].seen = s]
               /\ UNCHANGED <<rows, target, crashes>>

(* The poll at the deadline finds none ... *)
GateTimeout(t) == /\ In(t, "gate", "poll")
                  /\ CanDecide(run[t].key)
                  /\ Proceed(t, "expire")
                  /\ UNCHANGED <<rows, target, crashes>>

(* Fault: the run does not poll again, and takes its expiry for granted. *)
GateExpireUnseenFault(t) == LET k == run[t].key IN
                 /\ In(t, "gate", "expire")
                 /\ approval' = IF CanDecide(k)
                                  THEN [approval EXCEPT ![k] = "expired"]
                                  ELSE approval
                 /\ run' = [run EXCEPT ![t].at = "decided", ![t].seen = "expired"]
                 /\ UNCHANGED <<action, decisions, episodes, target, crashes>>

(* Fault: the expiry is not a compare-and-set. *)
GateExpireBlindFault(t) == LET k == run[t].key IN
                 /\ In(t, "gate", "expire")
                 /\ approval' = [approval EXCEPT ![k] = "expired"]
                 /\ Proceed(t, "poll")
                 /\ UNCHANGED <<action, decisions, episodes, target, crashes>>

(* ... and the run expires the approval, unless a human was faster; then   *)
(* it polls again.                                                         *)
GateExpire(t) == LET k == run[t].key IN
                 /\ In(t, "gate", "expire")
                 /\ approval' = IF CanDecide(k)
                                  THEN [approval EXCEPT ![k] = "expired"]
                                  ELSE approval
                 /\ Proceed(t, "poll")
                 /\ UNCHANGED <<action, decisions, episodes, target, crashes>>

GateApproved(t) == /\ In(t, "gate", "decided")
                   /\ run[t].seen = "approved"
                   /\ Goto(t, "act", run[t].key, run[t].replans)
                   /\ UNCHANGED <<rows, target, crashes>>

(* update_remediation_status(action_id, "skipped", outcome="skipped") *)
GateSkip(t) == /\ In(t, "gate", "decided")
               /\ run[t].seen # "approved"
               /\ action' = [action EXCEPT ![run[t].key] =
                               [status |-> "skipped", outcome |-> "skipped"]]
               /\ Proceed(t, "skipped")
               /\ UNCHANGED <<approval, decisions, episodes, target, crashes>>

(* A rejection with budget left goes back to reason(node) ... *)
GateReplan(t) == /\ In(t, "gate", "skipped")
                 /\ run[t].seen = "rejected" /\ CanReplan(t)
                 /\ Goto(t, "reason", NoKey, Respent(run[t].replans))
                 /\ UNCHANGED <<rows, target, crashes>>

(* ... anything else ends the run with an episode. *)
GateClose(t) == /\ In(t, "gate", "skipped")
                /\ ~(run[t].seen = "rejected" /\ CanReplan(t))
                /\ episodes' = [episodes EXCEPT ![run[t].key] = @ \cup {run[t].seen}]
                /\ Stop(t, "done")
                /\ UNCHANGED <<action, approval, decisions, target, crashes>>

-----------------------------------------------------------------------------
(* The approvals API: a human's click, on whatever is pending. *)
HumanDecide(k, s) == /\ CanDecide(k)
                     /\ approval' = [approval EXCEPT ![k] = s]
                     /\ UNCHANGED <<action, decisions, episodes, target, run, crashes>>

-----------------------------------------------------------------------------
(* act_measure(node). *)

(* The backup gate refuses: BackupGateBlocked. *)
BackupBlocked(t) == /\ In(t, "act", "start")
                    /\ Stop(t, "parked")
                    /\ UNCHANGED <<rows, target, crashes>>

(* It lets the run through, which takes measured_before. *)
ActMeasure(t) == /\ In(t, "act", "start")
                 /\ run' = [run EXCEPT ![t].at = "ledger", ![t].before = Speed(t)]
                 /\ UNCHANGED <<rows, target, crashes>>

(* Fault: the DDL goes first, the ledger is left to the outcome. *)
ActLedgerLostFault(t) == /\ In(t, "act", "ledger")
                         /\ Proceed(t, "ddl")
                         /\ UNCHANGED <<rows, target, crashes>>

(* Fault: a row already applied is taken for work already done. *)
ActLedgerTrustedFault(t) ==
    /\ In(t, "act", "ledger")
    /\ action' = [action EXCEPT ![run[t].key].status = "applied"]
    /\ Proceed(t, IF action[run[t].key].status = "applied" THEN "return" ELSE "ddl")
    /\ UNCHANGED <<approval, decisions, episodes, target, crashes>>

(* insert_act_decision: the ledger says applied before anything is. *)
ActLedger(t) == /\ In(t, "act", "ledger")
                /\ action' = [action EXCEPT ![run[t].key].status = "applied"]
                /\ Proceed(t, "ddl")
                /\ UNCHANGED <<approval, decisions, episodes, target, crashes>>

(* sql_operator.apply: CREATE INDEX IF NOT EXISTS on the target. *)
ActApply(t) == /\ In(t, "act", "ddl")
               /\ target' = target \cup {run[t].key}
               /\ Proceed(t, "after")
               /\ UNCHANGED <<rows, crashes>>

(* measured_after, and the verdict. *)
ActRemeasure(t) == /\ In(t, "act", "after")
                   /\ \E v \in Verdicts(run[t].before, Speed(t)) :
                        run' = [run EXCEPT ![t].at = "outcome", ![t].verdict = v]
                   /\ UNCHANGED <<rows, target, crashes>>

(* insert_outcome_decision: the outcome and the episode, one transaction. *)
ActOutcome(t) == LET k == run[t].key IN
                 /\ In(t, "act", "outcome")
                 /\ action' = [action EXCEPT ![k].outcome = run[t].verdict]
                 /\ episodes' = [episodes EXCEPT ![k] = @ \cup {run[t].verdict}]
                 /\ Proceed(t, "return")
                 /\ UNCHANGED <<approval, decisions, target, crashes>>

(* The node returns and is checkpointed: a regression with budget left     *)
(* goes back to reason(node), the change stays on the target.              *)
ActReplan(t) == /\ In(t, "act", "return")
                /\ run[t].verdict = "failure" /\ CanReplan(t)
                /\ Goto(t, "reason", NoKey, Respent(run[t].replans))
                /\ UNCHANGED <<rows, target, crashes>>

ActDone(t) == /\ In(t, "act", "return")
              /\ ~(run[t].verdict = "failure" /\ CanReplan(t))
              /\ Stop(t, "done")
              /\ UNCHANGED <<rows, target, crashes>>

-----------------------------------------------------------------------------
(* What can go wrong anywhere. *)

(* A call of the node raises: a lost connection, a rejected statement, a   *)
(* provider that gave up.                                                  *)
Fail(t) == /\ run[t].node \in Nodes
           /\ run[t].at # "down"
           /\ \E how \in {"parked", "failed"} : Stop(t, how)
           /\ UNCHANGED <<rows, target, crashes>>

(* The process dies; the last checkpoint stays. *)
Crash(t) == /\ crashes < MaxCrashes
            /\ crashes' = crashes + 1
            /\ run[t].node \in Nodes
            /\ run[t].at # "down"
            /\ run' = [run EXCEPT ![t] = [AtNode(run[t].node, run[t].key, run[t].replans)
                                            EXCEPT !.at = "down"]]
            /\ UNCHANGED <<rows, target>>

(* The incident's message is delivered again, and process_message probes   *)
(* the query first.  While it is slow the run resumes at its node ...      *)
Resume(t) == /\ run[t].at = "down"
             /\ Speed(t) = "slow"
             /\ Proceed(t, "start")
             /\ UNCHANGED <<rows, target, crashes>>

(* ... and once it is fast the message is a sweep with no incident: a      *)
(* fresh run on the same thread ends at observe(node), and the old run's   *)
(* checkpoint is never read again.                                         *)
Orphan(t) == /\ run[t].at = "down"
             /\ Speed(t) = "fast"
             /\ Stop(t, "orphaned")
             /\ UNCHANGED <<rows, target, crashes>>

-----------------------------------------------------------------------------
(* Everything a run does of its own accord. *)
Gate(t) == \/ GateSelect(t) \/ GateInsert(t) \/ GateCollide(t)
           \/ GatePoll(t) \/ GateTimeout(t) \/ GateExpire(t)
           \/ GateApproved(t) \/ GateSkip(t) \/ GateReplan(t) \/ GateClose(t)

ActMeasureNode(t) == \/ BackupBlocked(t) \/ ActMeasure(t) \/ ActLedger(t) \/ ActApply(t)
                     \/ ActRemeasure(t) \/ ActOutcome(t) \/ ActReplan(t) \/ ActDone(t)

Reason(t) == (\E k \in Key : Propose(t, k)) \/ ProposeNothing(t)

Redeliver(t) == Resume(t) \/ Orphan(t)

Advance(t) == Reason(t) \/ Gate(t) \/ ActMeasureNode(t) \/ Redeliver(t)

Next == \/ \E t \in Task : Advance(t) \/ Fail(t) \/ Crash(t)
        \/ \E k \in Key, s \in {"approved", "rejected"} : HumanDecide(k, s)

Spec == Init /\ [][Next]_vars

(* asyncio runs a node's next call once the last has returned; the gate's  *)
(* deadline passes; a message not deleted is delivered again.  No human    *)
(* need ever click, and nothing need ever fail.                            *)
FairSpec == Spec /\ \A t \in Task : WF_vars(Advance(t))

-----------------------------------------------------------------------------
(* Properties. *)

TypeOK == /\ action \in [Key -> Action]
          /\ approval \in [Key -> {"none", "pending"} \cup Decided]
          /\ decisions \in [Key -> Nat]
          /\ episodes \in [Key -> SUBSET (Decided \cup Outcomes)]
          /\ target \in SUBSET Key
          /\ run \in [Task -> Run]
          /\ crashes \in 0..MaxCrashes

(* Nothing reaches the target cluster that its ledger row does not already *)
(* call applied, and that a human did not approve: the order of gate(node) *)
(* and act_measure(node), through every crash, race and re-plan.           *)
ChangesAreApproved == \A k \in target : /\ action[k].status = "applied"
                                        /\ approval[k] = "approved"

(* The ledger closes a change the way its approval was decided: applied    *)
(* only if approved, skipped only if rejected or expired, whichever of the *)
(* API's click and the gate's timeout came first.                          *)
LedgerFollowsDecision ==
    \A k \in Key : /\ action[k].status = "applied" => approval[k] = "approved"
                   /\ action[k].status = "skipped" => approval[k] \in Refused

(* Invariant #6: decision, intent and approval are one transaction, and    *)
(* invariant #4: the change is intended once, however many runs propose it *)
(* (insert_gate_decision).                                                 *)
IntentIsOne == \A k \in Key :
    /\ decisions[k] = (IF RowExists(k) THEN 1 ELSE 0)
    /\ RowExists(k) <=> approval[k] # "none"

(* What memory learns is what happened: an episode about a refusal only of *)
(* a change refused that way, one about a measurement only of a change     *)
(* that is on the target.                                                  *)
EpisodesAreTrue ==
    \A k \in Key : /\ episodes[k] \cap Refused \subseteq {approval[k]}
                   /\ episodes[k] \cap Outcomes # {} => k \in target

(* A run that ends normally leaves its last change with an outcome, no     *)
(* matter where it crashed on the way.                                     *)
DoneIsRecorded ==
    \A t \in Task : run[t].node = "done"
        => run[t].key \in Key /\ action[run[t].key].outcome # "none"

(* What a run knows is so: the decision gate(node) polled is the one on    *)
(* the row, and act_measure(node) acts on an approval, has the ledger say  *)
(* applied before its DDL, and judges a change that is on the target.      *)
GateAgrees(t) ==
    /\ run[t].node = "gate" => run[t].key \in Key
    /\ In(t, "gate", "poll") \/ In(t, "gate", "expire") => RowExists(run[t].key)
    /\ In(t, "gate", "decided") \/ In(t, "gate", "skipped")
         => run[t].seen \in Decided /\ run[t].seen = approval[run[t].key]
    /\ In(t, "gate", "skipped")
         => run[t].seen # "approved" /\ action[run[t].key].outcome # "none"

ActAgrees(t) ==
    /\ run[t].node = "act" => run[t].key \in Key /\ approval[run[t].key] = "approved"
    /\ run[t].node = "act" /\ run[t].at \in {"ddl", "after", "outcome", "return"}
         => action[run[t].key].status = "applied"
    /\ run[t].node = "act" /\ run[t].at \in {"after", "outcome", "return"}
         => run[t].key \in target
    /\ run[t].node = "act" /\ run[t].at \in {"outcome", "return"}
         => run[t].verdict \in Outcomes
    /\ In(t, "act", "return") => action[run[t].key].outcome # "none"

RunsAgree == \A t \in Task : GateAgrees(t) /\ ActAgrees(t)

(* decide_approval is a compare-and-set: nobody's decision is overwritten, *)
(* not by a second click and not by the gate's timeout.                    *)
DecisionFinal == [][\A k \in Key : approval[k] \in Decided => approval'[k] = approval[k]]_vars

(* Every run comes to an end: the gate's deadline bounds the wait for a    *)
(* human, MAX_REPLANS bounds the proposals.                                *)
RunEnds == \A t \in Task : <>(run[t].node \in Over)

(* The ledger's state machine of the design, as the rows and the target    *)
(* show it.                                                                *)
StageOf(k) ==
    IF action[k].outcome \in Outcomes THEN "measured"
    ELSE IF k \in target THEN "changed"
    ELSE IF action[k].status = "applied" THEN "applied"
    ELSE IF action[k].status = "skipped" THEN "skipped"
    ELSE IF approval[k] = "approved" THEN "approved"
    ELSE IF approval[k] \in Refused THEN "refused"
    ELSE IF approval[k] = "pending" THEN "proposed"
    ELSE "absent"

Stage == [k \in Key |-> StageOf(k)]

Ledger == INSTANCE Lifecycle WITH stage <- Stage

(* Every change follows the design's ledger state machine.                 *)
ImplementsLifecycle == Ledger!Spec

-----------------------------------------------------------------------------
(* What the repository says, and the code does not do. *)

(* LLD 8.4, window W3: a crash "between DDL and outcome txn" ends in       *)
(* "probe -> present -> outcome `success`, no re-apply".                   *)
PresentChangeIsJudged ==
    \A t \in Task : run[t].node = "orphaned" /\ run[t].key \in target
                       => action[run[t].key].outcome # "none"
=============================================================================
