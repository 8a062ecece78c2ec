------------------------- MODULE RemediationProofs -------------------------
(***************************************************************************)
(* Theorems about Remediation, for every set of runs and of changes, every *)
(* re-plan budget and any number of process deaths.                        *)
(***************************************************************************)
EXTENDS Remediation, TLAPS

-----------------------------------------------------------------------------
(* Types. *)

(* A checkpoint is a run's record. *)
LEMMA CheckpointIsRun ==
  ASSUME NEW node \in Nodes \cup Over, NEW k \in Key \cup {NoKey},
         NEW n \in 0..MaxReplans
  PROVE  /\ AtNode(node, k, n) \in Run
         /\ [AtNode(node, k, n) EXCEPT !.at = "down"] \in Run
<1>1. AtNode(node, k, n) \in Run
  BY DEF AtNode, Run, Steps
<1> QED
  BY <1>1 DEF Run, Steps

(* So is a record with the fields a step sets. *)
LEMMA SeenIsTyped ==
  ASSUME NEW r \in Run, NEW s \in Decided
  PROVE  [r EXCEPT !.at = "decided", !.seen = s] \in Run
  BY DEF Run, Steps

LEMMA BeforeIsTyped ==
  ASSUME NEW r \in Run, NEW b \in {"slow", "fast"}
  PROVE  [r EXCEPT !.at = "ledger", !.before = b] \in Run
  BY DEF Run, Steps

LEMMA VerdictIsTyped ==
  ASSUME NEW r \in Run, NEW v \in Outcomes
  PROVE  [r EXCEPT !.at = "outcome", !.verdict = v] \in Run
  BY DEF Run, Steps

LEMMA GotoIsTyped ==
  ASSUME TypeOK, NEW t \in Task, NEW node \in Nodes \cup Over,
         NEW k \in Key \cup {NoKey}, NEW n \in 0..MaxReplans, Goto(t, node, k, n)
  PROVE  run' \in [Task -> Run]
  BY CheckpointIsRun DEF TypeOK, Goto

LEMMA ProceedIsTyped ==
  ASSUME TypeOK, NEW t \in Task, NEW step \in Steps, Proceed(t, step)
  PROVE  run' \in [Task -> Run]
  BY DEF TypeOK, Proceed, Run

(* Ending a run keeps the key and the budget it had. *)
LEMMA StopIsTyped ==
  ASSUME TypeOK, NEW t \in Task, NEW how \in Over, Stop(t, how)
  PROVE  run' \in [Task -> Run]
<1>1. run[t].key \in Key \cup {NoKey} /\ run[t].replans \in 0..MaxReplans
  BY DEF TypeOK, Run
<1> QED
  BY <1>1, GotoIsTyped DEF Stop

(* A re-plan stays within the budget. *)
LEMMA ReplanIsTyped ==
  ASSUME TypeOK, NEW t \in Task, CanReplan(t),
         Goto(t, "reason", NoKey, Respent(run[t].replans))
  PROVE  run' \in [Task -> Run]
<1>1. Respent(run[t].replans) \in 0..MaxReplans
  BY RemediationConstants DEF TypeOK, Run, CanReplan, Respent
<1> QED
  BY <1>1, GotoIsTyped DEF Nodes

LEMMA TypeInit == Init => TypeOK
<1> SUFFICES ASSUME Init PROVE TypeOK
  OBVIOUS
<1>1. AtNode("reason", NoKey, 0) \in Run
  <2>1. "reason" \in Nodes \cup Over /\ 0 \in 0..MaxReplans
    BY RemediationConstants DEF Nodes
  <2> QED
    BY <2>1, CheckpointIsRun
<1>2. action \in [Key -> Action]
  BY DEF Init, Action
<1> QED
  BY <1>1, <1>2, RemediationConstants DEF Init, TypeOK

(* A run writes episodes of what it has polled or measured, so the types   *)
(* rest on what a run knows.                                               *)
LEMMA TypeStep == TypeOK /\ RunsAgree /\ [Next]_vars => TypeOK'
<1> SUFFICES ASSUME TypeOK, RunsAgree, [Next]_vars PROVE TypeOK'
  OBVIOUS
<1>1. ASSUME NEW t \in Task, Reason(t) PROVE TypeOK'
  <2>1. ASSUME NEW k \in Key, Propose(t, k) PROVE TypeOK'
    <3>1. run[t].replans \in 0..MaxReplans
      BY DEF TypeOK, Run
    <3>2. run' \in [Task -> Run]
      BY <2>1, <3>1, GotoIsTyped DEF Propose, Nodes
    <3> QED
      BY <2>1, <3>2 DEF Propose, rows, TypeOK
  <2>2. ASSUME ProposeNothing(t) PROVE TypeOK'
    BY <2>2, StopIsTyped DEF ProposeNothing, Over, rows, TypeOK
  <2> QED
    BY <1>1, <2>1, <2>2 DEF Reason
<1>2. ASSUME NEW t \in Task, Gate(t) PROVE TypeOK'
  <2> DEFINE k == run[t].key
  <2>1. CASE GateSelect(t)
    BY <2>1, ProceedIsTyped DEF GateSelect, Steps, rows, TypeOK
  <2>2. CASE GateInsert(t)
    <3>1. run' \in [Task -> Run]
      BY <2>2, ProceedIsTyped DEF GateInsert, Steps
    <3>2. action' \in [Key -> Action]
      BY <2>2 DEF GateInsert, TypeOK, Action
    <3>3. decisions' \in [Key -> Nat]
      <4>1. run[t].key \in Key
        BY <2>2 DEF GateInsert, In, RunsAgree, GateAgrees
      <4>2. decisions[run[t].key] + 1 \in Nat
        BY <4>1 DEF TypeOK
      <4> QED
        BY <2>2, <4>2 DEF GateInsert, TypeOK
    <3> QED
      BY <2>2, <3>1, <3>2, <3>3 DEF GateInsert, TypeOK
  <2>3. CASE GateCollide(t)
    BY <2>3, StopIsTyped DEF GateCollide, Over, rows, TypeOK
  <2>4. CASE GatePoll(t)
    <3>1. run' \in [Task -> Run]
      <4>1. [run[t] EXCEPT !.at = "decided", !.seen = approval[run[t].key]] \in Run
        BY <2>4, SeenIsTyped DEF TypeOK, GatePoll
      <4>2. run' = [run EXCEPT ![t] = [run[t] EXCEPT !.at = "decided", !.seen = approval[run[t].key]]]
        BY <2>4 DEF GatePoll
      <4> QED
        BY <4>1, <4>2 DEF TypeOK
    <3> QED
      BY <2>4, <3>1 DEF GatePoll, rows, TypeOK
  <2>5. CASE GateTimeout(t)
    BY <2>5, ProceedIsTyped DEF GateTimeout, Steps, rows, TypeOK
  <2>6. CASE GateExpire(t)
    <3>1. run' \in [Task -> Run]
      BY <2>6, ProceedIsTyped DEF GateExpire, Steps
    <3>2. approval' \in [Key -> {"none", "pending"} \cup Decided]
      BY <2>6 DEF GateExpire, TypeOK, Decided, Refused
    <3> QED
      BY <2>6, <3>1, <3>2 DEF GateExpire, TypeOK
  <2>7. CASE GateApproved(t)
    <3>1. k \in Key \cup {NoKey} /\ run[t].replans \in 0..MaxReplans
      BY DEF TypeOK, Run
    <3>2. run' \in [Task -> Run]
      BY <2>7, <3>1, GotoIsTyped DEF GateApproved, Nodes
    <3> QED
      BY <2>7, <3>2 DEF GateApproved, rows, TypeOK
  <2>8. CASE GateSkip(t)
    <3>1. run' \in [Task -> Run]
      BY <2>8, ProceedIsTyped DEF GateSkip, Steps
    <3>2. action' \in [Key -> Action]
      BY <2>8 DEF GateSkip, TypeOK, Action
    <3> QED
      BY <2>8, <3>1, <3>2 DEF GateSkip, TypeOK
  <2>9. CASE GateReplan(t)
    BY <2>9, ReplanIsTyped DEF GateReplan, rows, TypeOK
  <2>10. CASE GateClose(t)
    <3>1. run' \in [Task -> Run]
      BY <2>10, StopIsTyped DEF GateClose, Over
    <3>2. run[t].seen \in Decided
      BY <2>10 DEF GateClose, RunsAgree, GateAgrees
    <3>3. episodes' \in [Key -> SUBSET (Decided \cup Outcomes)]
      BY <2>10, <3>2 DEF GateClose, TypeOK
    <3> QED
      BY <2>10, <3>1, <3>3 DEF GateClose, TypeOK
  <2> QED
    BY <1>2, <2>1, <2>2, <2>3, <2>4, <2>5, <2>6, <2>7, <2>8, <2>9, <2>10 DEF Gate
<1>3. ASSUME NEW t \in Task, ActMeasureNode(t) PROVE TypeOK'
  <2>1. CASE BackupBlocked(t)
    BY <2>1, StopIsTyped DEF BackupBlocked, Over, rows, TypeOK
  <2>2. CASE ActMeasure(t)
    <3>1. Speed(t) \in {"slow", "fast"}
      BY DEF Speed
    <3>2. run' \in [Task -> Run]
      <4>1. [run[t] EXCEPT !.at = "ledger", !.before = Speed(t)] \in Run
        BY <3>1, BeforeIsTyped DEF TypeOK
      <4>2. run' = [run EXCEPT ![t] = [run[t] EXCEPT !.at = "ledger", !.before = Speed(t)]]
        BY <2>2 DEF ActMeasure
      <4> QED
        BY <4>1, <4>2 DEF TypeOK
    <3> QED
      BY <2>2, <3>2 DEF ActMeasure, rows, TypeOK
  <2>3. CASE ActLedger(t)
    <3>1. run' \in [Task -> Run]
      BY <2>3, ProceedIsTyped DEF ActLedger, Steps
    <3>2. action' \in [Key -> Action]
      BY <2>3 DEF ActLedger, TypeOK, Action
    <3> QED
      BY <2>3, <3>1, <3>2 DEF ActLedger, TypeOK
  <2>4. CASE ActApply(t)
    <3>1. run' \in [Task -> Run]
      BY <2>4, ProceedIsTyped DEF ActApply, Steps
    <3>2. run[t].key \in Key
      BY <2>4 DEF ActApply, In, RunsAgree, ActAgrees
    <3> QED
      BY <2>4, <3>1, <3>2 DEF ActApply, rows, TypeOK
  <2>5. CASE ActRemeasure(t)
    <3>1. PICK v \in Outcomes :
            run' = [run EXCEPT ![t].at = "outcome", ![t].verdict = v]
      BY <2>5 DEF ActRemeasure, Verdicts, Outcomes
    <3>2. run' \in [Task -> Run]
      <4>1. [run[t] EXCEPT !.at = "outcome", !.verdict = v] \in Run
        BY <3>1, VerdictIsTyped DEF TypeOK
      <4>2. run' = [run EXCEPT ![t] = [run[t] EXCEPT !.at = "outcome", !.verdict = v]]
        BY <3>1
      <4> QED
        BY <4>1, <4>2 DEF TypeOK
    <3> QED
      BY <2>5, <3>2 DEF ActRemeasure, rows, TypeOK
  <2>6. CASE ActOutcome(t)
    <3>1. run' \in [Task -> Run]
      BY <2>6, ProceedIsTyped DEF ActOutcome, Steps
    <3>2. run[t].verdict \in Outcomes
      BY <2>6 DEF ActOutcome, In, RunsAgree, ActAgrees
    <3>3. action' \in [Key -> Action]
      BY <2>6, <3>2 DEF ActOutcome, TypeOK, Action
    <3>4. episodes' \in [Key -> SUBSET (Decided \cup Outcomes)]
      BY <2>6, <3>2 DEF ActOutcome, TypeOK
    <3> QED
      BY <2>6, <3>1, <3>3, <3>4 DEF ActOutcome, TypeOK
  <2>7. CASE ActReplan(t)
    BY <2>7, ReplanIsTyped DEF ActReplan, rows, TypeOK
  <2>8. CASE ActDone(t)
    BY <2>8, StopIsTyped DEF ActDone, Over, rows, TypeOK
  <2> QED
    BY <1>3, <2>1, <2>2, <2>3, <2>4, <2>5, <2>6, <2>7, <2>8 DEF ActMeasureNode
<1>4. ASSUME NEW t \in Task, Redeliver(t) PROVE TypeOK'
  <2>1. CASE Resume(t)
    BY <2>1, ProceedIsTyped DEF Resume, Steps, rows, TypeOK
  <2>2. CASE Orphan(t)
    BY <2>2, StopIsTyped DEF Orphan, Over, rows, TypeOK
  <2> QED
    BY <1>4, <2>1, <2>2 DEF Redeliver
<1>5. ASSUME NEW t \in Task, Fail(t) PROVE TypeOK'
  BY <1>5, StopIsTyped DEF Fail, Over, rows, TypeOK
<1>6. ASSUME NEW t \in Task, Crash(t) PROVE TypeOK'
  <2>1. /\ run[t].node \in Nodes
        /\ run[t].key \in Key \cup {NoKey}
        /\ run[t].replans \in 0..MaxReplans
    BY <1>6 DEF Crash, TypeOK, Run
  <2>2. run' \in [Task -> Run]
    BY <1>6, <2>1, CheckpointIsRun DEF Crash, TypeOK
  <2>3. crashes' \in 0..MaxCrashes
    BY <1>6, RemediationConstants DEF Crash, TypeOK
  <2> QED
    BY <1>6, <2>2, <2>3 DEF Crash, rows, TypeOK
<1>7. ASSUME NEW k \in Key, NEW s \in {"approved", "rejected"}, HumanDecide(k, s)
      PROVE  TypeOK'
  <2>1. s \in Decided
    BY DEF Decided, Refused
  <2> QED
    BY <1>7, <2>1 DEF HumanDecide, TypeOK
<1>8. CASE UNCHANGED vars
  BY <1>8 DEF vars, TypeOK
<1> QED
  BY <1>1, <1>2, <1>3, <1>4, <1>5, <1>6, <1>7, <1>8 DEF Next, Advance

-----------------------------------------------------------------------------
(***************************************************************************)
(* The inductive invariant: the rows of a change agree with one another,   *)
(* and what each run knows agrees with the rows.  The second half is what  *)
(* makes the first inductive: act_measure(node) writes on the strength of  *)
(* what gate(node) read, a human's click or a crash later.                 *)
(***************************************************************************)
RowsAgree == /\ IntentIsOne
             /\ LedgerFollowsDecision
             /\ ChangesAreApproved
             /\ EpisodesAreTrue
             /\ \A k \in Key : action[k].outcome \in Outcomes => k \in target

IInv == TypeOK /\ RowsAgree /\ RunsAgree /\ DoneIsRecorded

(* What no step takes back. *)
Grows == \A k \in Key :
    /\ RowExists(k) => RowExists(k)'
    /\ approval[k] \in Decided => approval'[k] = approval[k]
    /\ action[k].status = "applied" => action'[k].status = "applied"
    /\ action[k].outcome # "none" => action'[k].outcome # "none"
    /\ k \in target => k \in target'

Agrees(t) == /\ GateAgrees(t)
             /\ ActAgrees(t)
             /\ run[t].node = "done" => /\ run[t].key \in Key
                                       /\ action[run[t].key].outcome # "none"

(* A run that a step leaves alone still agrees with rows that only grow. *)
LEMMA OthersAgree ==
  ASSUME IInv, Grows, NEW u \in Task, run'[u] = run[u]
  PROVE  Agrees(u)'
<1>1. GateAgrees(u) /\ ActAgrees(u)
  BY DEF IInv, RunsAgree
<1>2. run[u].node = "done" => run[u].key \in Key /\ action[run[u].key].outcome # "none"
  BY DEF IInv, DoneIsRecorded
<1>3. GateAgrees(u)'
  BY <1>1 DEF Grows, GateAgrees, In, Decided
<1>4. ActAgrees(u)'
  BY <1>1 DEF Grows, ActAgrees, In, Decided
<1> QED
  BY <1>2, <1>3, <1>4 DEF Agrees, Grows

LEMMA QuietRows ==
  ASSUME IInv, UNCHANGED <<rows, target>>
  PROVE  RowsAgree' /\ Grows
<1>1. RowsAgree'
  BY DEF IInv, RowsAgree, rows, IntentIsOne, LedgerFollowsDecision, RowExists,
         ChangesAreApproved, EpisodesAreTrue
<1> QED
  BY <1>1 DEF rows, Grows, RowExists

(* A run at the start of a node, or over without having finished, claims   *)
(* nothing but its key.                                                    *)
LEMMA CheckpointAgrees ==
  ASSUME TypeOK, NEW t \in Task, NEW k, NEW n, NEW node \in Nodes \cup Over,
         node # "done", node \in {"gate", "act"} => k \in Key,
         node = "act" => approval'[k] = "approved",
         Goto(t, node, k, n)
  PROVE  Agrees(t)'
<1>1. run'[t] = AtNode(node, k, n)
  BY DEF Goto, TypeOK
<1>2. run'[t].node = node /\ run'[t].key = k /\ run'[t].at = "start"
  BY <1>1 DEF AtNode
<1> QED
  BY <1>2 DEF Agrees, GateAgrees, ActAgrees, In

LEMMA StopAgrees ==
  ASSUME TypeOK, NEW t \in Task, NEW how \in Over \ {"done"}, Stop(t, how)
  PROVE  Agrees(t)'
<1>1. how \notin {"gate", "act"} /\ how \in Nodes \cup Over /\ how # "done"
  BY DEF Over
<1> QED
  BY <1>1, CheckpointAgrees DEF Stop

(* Putting one run's step together with the runs it leaves alone. *)
LEMMA StepAgrees ==
  ASSUME IInv, NEW t \in Task, \A u \in Task : u # t => run'[u] = run[u],
         TypeOK', RowsAgree', Grows, Agrees(t)'
  PROVE  IInv'
<1>1. \A u \in Task : Agrees(u)'
  BY OthersAgree
<1> QED
  BY <1>1 DEF IInv, RunsAgree, DoneIsRecorded, Agrees

(* reason(node) writes no row of the ledger. *)
LEMMA ReasonAgrees ==
  ASSUME IInv, TypeOK', NEW t \in Task, Reason(t)
  PROVE  IInv'
<1>1. RowsAgree' /\ Grows
  BY QuietRows DEF Reason, Propose, ProposeNothing
<1>2. \A u \in Task : u # t => run'[u] = run[u]
  BY DEF IInv, TypeOK, Reason, Propose, ProposeNothing, Stop, Goto
<1>3. Agrees(t)'
  <2>1. ASSUME NEW k \in Key, Propose(t, k) PROVE Agrees(t)'
    BY <2>1, CheckpointAgrees DEF Propose, IInv, Nodes
  <2>2. CASE ProposeNothing(t)
    BY <2>2, StopAgrees DEF ProposeNothing, IInv, Over
  <2> QED
    BY <2>1, <2>2 DEF Reason
<1> QED
  BY <1>1, <1>2, <1>3, StepAgrees

(* The steps of gate(node) that only read. *)
LEMMA GateReadsAgree ==
  ASSUME IInv, TypeOK', NEW t \in Task,
         \/ GateSelect(t) \/ GateCollide(t) \/ GatePoll(t) \/ GateTimeout(t)
         \/ GateApproved(t) \/ GateReplan(t)
  PROVE  IInv'
<1>1. RowsAgree' /\ Grows
  BY QuietRows DEF GateSelect, GateCollide, GatePoll, GateTimeout, GateApproved, GateReplan
<1>2. \A u \in Task : u # t => run'[u] = run[u]
  BY DEF IInv, TypeOK, GateSelect, GateCollide, GatePoll, GateTimeout, GateApproved,
         GateReplan, Proceed, Stop, Goto
<1>3. GateAgrees(t) /\ ActAgrees(t) /\ run \in [Task -> Run] /\ TypeOK
  BY DEF IInv, RunsAgree, TypeOK
<1>4. Agrees(t)'
  <2>1. CASE GateSelect(t)
    <3>1. run'[t] = [run[t] EXCEPT !.at = IF RowExists(run[t].key) THEN "poll" ELSE "insert"]
      BY <1>3, <2>1 DEF GateSelect, Proceed
    <3>2. /\ run'[t].node = "gate" /\ run'[t].key = run[t].key
          /\ run'[t].at = IF RowExists(run[t].key) THEN "poll" ELSE "insert"
      BY <1>3, <2>1, <3>1 DEF GateSelect, In, Run
    <3> QED
      BY <1>3, <2>1, <3>2 DEF GateSelect, rows, RowExists, Agrees, GateAgrees, ActAgrees, In
  <2>2. CASE GateCollide(t)
    BY <1>3, <2>2, StopAgrees DEF GateCollide, Over
  <2>3. CASE GatePoll(t)
    <3>1. /\ run'[t].node = "gate" /\ run'[t].key = run[t].key
          /\ run'[t].at = "decided" /\ run'[t].seen = approval[run[t].key]
      BY <1>3, <2>3 DEF GatePoll, In, Run
    <3> QED
      BY <1>3, <2>3, <3>1 DEF GatePoll, rows, RowExists, Agrees, GateAgrees, ActAgrees, In
  <2>4. CASE GateTimeout(t)
    <3>1. /\ run'[t].node = "gate" /\ run'[t].key = run[t].key
          /\ run'[t].at = "expire"
      BY <1>3, <2>4 DEF GateTimeout, Proceed, In, Run
    <3> QED
      BY <1>3, <2>4, <3>1 DEF GateTimeout, rows, RowExists, Agrees, GateAgrees, ActAgrees, In
  <2>5. CASE GateApproved(t)
    <3>1. run[t].key \in Key /\ approval'[run[t].key] = "approved"
      BY <1>3, <2>5 DEF GateApproved, GateAgrees, In, rows
    <3> QED
      BY <1>3, <2>5, <3>1, CheckpointAgrees DEF GateApproved, Nodes
  <2>6. CASE GateReplan(t)
    BY <1>3, <2>6, CheckpointAgrees DEF GateReplan, Nodes
  <2> QED
    BY <2>1, <2>2, <2>3, <2>4, <2>5, <2>6
<1> QED
  BY <1>1, <1>2, <1>4, StepAgrees

(* The three INSERTs: a new row, its approval and its one decision. *)
LEMMA GateInsertAgrees ==
  ASSUME IInv, TypeOK', NEW t \in Task, GateInsert(t)
  PROVE  IInv'
<1> DEFINE k == run[t].key
<1>1. k \in Key /\ ~RowExists(k) /\ TypeOK /\ RowsAgree
  BY DEF GateInsert, In, IInv, RunsAgree, GateAgrees
<1>2. /\ action' = [action EXCEPT ![k].status = "proposed"]
      /\ approval' = [approval EXCEPT ![k] = "pending"]
      /\ decisions' = [decisions EXCEPT ![k] = @ + 1]
      /\ UNCHANGED <<episodes, target>>
  BY DEF GateInsert
<1>3. /\ approval[k] = "none" /\ decisions[k] = 0 /\ k \notin target
      /\ episodes[k] \cap Refused = {} /\ episodes[k] \cap Outcomes = {}
      /\ action[k].outcome \notin Outcomes
  <2>1. approval[k] = "none" /\ decisions[k] = 0 /\ k \notin target
    BY <1>1 DEF RowsAgree, IntentIsOne, ChangesAreApproved, RowExists
  <2> QED
    BY <1>1, <2>1 DEF RowsAgree, EpisodesAreTrue, Refused
<1>4. \A j \in Key : j # k => /\ action'[j] = action[j] /\ approval'[j] = approval[j]
                             /\ decisions'[j] = decisions[j]
  BY <1>1, <1>2 DEF TypeOK
<1>5. /\ action'[k].status = "proposed" /\ action'[k].outcome = action[k].outcome
      /\ approval'[k] = "pending" /\ decisions'[k] = 1
  BY <1>1, <1>2, <1>3 DEF TypeOK, Action
<1>6. RowsAgree'
  <2>1. IntentIsOne'
    BY <1>1, <1>4, <1>5 DEF RowsAgree, IntentIsOne, RowExists
  <2>2. LedgerFollowsDecision' /\ ChangesAreApproved'
    BY <1>1, <1>2, <1>3, <1>4, <1>5 DEF RowsAgree, LedgerFollowsDecision, ChangesAreApproved, TypeOK
  <2>3. EpisodesAreTrue'
    BY <1>1, <1>2, <1>3, <1>4, <1>5 DEF RowsAgree, EpisodesAreTrue
  <2>4. \A j \in Key : action'[j].outcome \in Outcomes => j \in target'
    BY <1>1, <1>2, <1>3, <1>4, <1>5 DEF RowsAgree
  <2> QED
    BY <2>1, <2>2, <2>3, <2>4 DEF RowsAgree
<1>7. Grows
  BY <1>1, <1>2, <1>3, <1>4, <1>5 DEF Grows, RowExists, Decided, Refused
<1>8. \A u \in Task : u # t => run'[u] = run[u]
  BY <1>1 DEF TypeOK, GateInsert, Proceed
<1>9. Agrees(t)'
  <2>1. run'[t].node = "gate" /\ run'[t].key = k /\ run'[t].at = "poll"
    BY <1>1 DEF GateInsert, In, TypeOK, Run, Proceed
  <2> QED
    BY <1>1, <1>5, <2>1 DEF Agrees, GateAgrees, ActAgrees, In, RowExists
<1> QED
  BY <1>6, <1>7, <1>8, <1>9, StepAgrees

(* An approval is decided while it is pending, by the gate or by a human:  *)
(* no run has acted on it yet, and none has given up on it.                *)
LEMMA DecideAgrees ==
  ASSUME IInv, NEW k \in Key, CanDecide(k), NEW s \in Decided,
         approval' = [approval EXCEPT ![k] = s],
         UNCHANGED <<action, decisions, episodes, target>>
  PROVE  RowsAgree' /\ Grows
<1>1. TypeOK /\ RowsAgree /\ approval[k] = "pending"
  BY DEF IInv, CanDecide
<1>2. /\ action[k].status \notin {"applied", "skipped"} /\ k \notin target
      /\ RowExists(k) /\ episodes[k] \cap Refused = {}
  BY <1>1 DEF RowsAgree, LedgerFollowsDecision, ChangesAreApproved, IntentIsOne,
              EpisodesAreTrue, Refused
<1>3. approval'[k] = s /\ s # "none" /\ \A j \in Key : j # k => approval'[j] = approval[j]
  BY <1>1 DEF TypeOK, Decided, Refused
<1>4. IntentIsOne'
  BY <1>1, <1>2, <1>3 DEF RowsAgree, IntentIsOne, RowExists
<1>5. LedgerFollowsDecision' /\ ChangesAreApproved'
  BY <1>1, <1>2, <1>3 DEF RowsAgree, LedgerFollowsDecision, ChangesAreApproved, TypeOK
<1>6. EpisodesAreTrue'
  BY <1>1, <1>2, <1>3 DEF RowsAgree, EpisodesAreTrue
<1>7. \A j \in Key : action'[j].outcome \in Outcomes => j \in target'
  BY <1>1 DEF RowsAgree
<1>8. Grows
  BY <1>1, <1>3 DEF Grows, RowExists, Decided, Refused
<1> QED
  BY <1>4, <1>5, <1>6, <1>7, <1>8 DEF RowsAgree

LEMMA GateExpireAgrees ==
  ASSUME IInv, TypeOK', NEW t \in Task, GateExpire(t)
  PROVE  IInv'
<1> DEFINE k == run[t].key
<1>1. k \in Key /\ RowExists(k) /\ TypeOK
  BY DEF GateExpire, In, IInv, RunsAgree, GateAgrees
<1>2. RowsAgree' /\ Grows
  <2>1. CASE CanDecide(k)
    BY <1>1, <2>1, DecideAgrees DEF GateExpire, Decided, Refused
  <2>2. CASE ~CanDecide(k)
    BY <2>2, QuietRows DEF GateExpire, rows
  <2> QED
    BY <2>1, <2>2
<1>3. \A u \in Task : u # t => run'[u] = run[u]
  BY <1>1 DEF TypeOK, GateExpire, Proceed
<1>4. Agrees(t)'
  <2>1. run'[t].node = "gate" /\ run'[t].key = k /\ run'[t].at = "poll"
    BY <1>1 DEF GateExpire, In, TypeOK, Run, Proceed
  <2> QED
    BY <1>1, <2>1, <1>2 DEF Grows, Agrees, GateAgrees, ActAgrees, In
<1> QED
  BY <1>2, <1>3, <1>4, StepAgrees

(* update_remediation_status: only a refused change is closed as skipped,  *)
(* because the approval the run has seen is still the one on the row.      *)
LEMMA GateSkipAgrees ==
  ASSUME IInv, TypeOK', NEW t \in Task, GateSkip(t)
  PROVE  IInv'
<1> DEFINE k == run[t].key
<1>1. TypeOK /\ RowsAgree /\ k \in Key
  BY DEF GateSkip, In, IInv, RunsAgree, GateAgrees
<1>2. approval[k] \in Refused /\ run[t].seen = approval[k] /\ run[t].seen \in Decided
  BY DEF GateSkip, IInv, RunsAgree, GateAgrees, Decided
<1>3. RowExists(k) /\ action[k].status # "applied" /\ k \notin target
  BY <1>1, <1>2 DEF RowsAgree, IntentIsOne, LedgerFollowsDecision, ChangesAreApproved, Refused
<1>4. /\ action'[k].status = "skipped" /\ action'[k].outcome = "skipped"
      /\ \A j \in Key : j # k => action'[j] = action[j]
      /\ UNCHANGED <<approval, decisions, episodes, target>>
  BY <1>1 DEF GateSkip, TypeOK
<1>5. RowsAgree'
  <2>1. IntentIsOne'
    BY <1>1, <1>3, <1>4 DEF RowsAgree, IntentIsOne, RowExists
  <2>2. LedgerFollowsDecision' /\ ChangesAreApproved'
    BY <1>1, <1>2, <1>3, <1>4 DEF RowsAgree, LedgerFollowsDecision, ChangesAreApproved, TypeOK
  <2>3. EpisodesAreTrue' /\ \A j \in Key : action'[j].outcome \in Outcomes => j \in target'
    BY <1>1, <1>4 DEF RowsAgree, EpisodesAreTrue, Outcomes
  <2> QED
    BY <2>1, <2>2, <2>3 DEF RowsAgree
<1>6. Grows
  BY <1>3, <1>4 DEF Grows, RowExists
<1>7. \A u \in Task : u # t => run'[u] = run[u]
  BY <1>1 DEF TypeOK, GateSkip, Proceed
<1>8. Agrees(t)'
  <2>1. /\ run'[t].node = "gate" /\ run'[t].key = k /\ run'[t].at = "skipped"
        /\ run'[t].seen = run[t].seen
    BY <1>1 DEF GateSkip, In, TypeOK, Run, Proceed
  <2>2. run[t].seen # "approved"
    BY DEF GateSkip
  <2> QED
    BY <1>1, <1>2, <1>4, <2>1, <2>2 DEF Agrees, GateAgrees, ActAgrees, In
<1> QED
  BY <1>5, <1>6, <1>7, <1>8, StepAgrees

(* The terminal episode says what the approval says. *)
LEMMA GateCloseAgrees ==
  ASSUME IInv, TypeOK', NEW t \in Task, GateClose(t)
  PROVE  IInv'
<1> DEFINE k == run[t].key
<1>1. /\ TypeOK /\ RowsAgree /\ k \in Key /\ action[k].outcome # "none"
      /\ run[t].seen = approval[k] /\ run[t].seen \in Refused
  BY DEF GateClose, In, IInv, RunsAgree, GateAgrees, Decided
<1>2. /\ episodes'[k] = episodes[k] \cup {approval[k]}
      /\ \A j \in Key : j # k => episodes'[j] = episodes[j]
      /\ UNCHANGED <<action, approval, decisions, target>>
  BY <1>1 DEF GateClose, TypeOK
<1>3. RowsAgree'
  <2>1. EpisodesAreTrue'
    BY <1>1, <1>2 DEF RowsAgree, EpisodesAreTrue, Refused, Outcomes
  <2>2. /\ IntentIsOne' /\ LedgerFollowsDecision' /\ ChangesAreApproved'
        /\ \A j \in Key : action'[j].outcome \in Outcomes => j \in target'
    BY <1>1, <1>2 DEF RowsAgree, IntentIsOne, LedgerFollowsDecision, ChangesAreApproved,
                      RowExists
  <2> QED
    BY <2>1, <2>2 DEF RowsAgree
<1>4. Grows
  BY <1>2 DEF Grows, RowExists
<1>5. \A u \in Task : u # t => run'[u] = run[u]
  BY <1>1 DEF TypeOK, GateClose, Stop, Goto
<1>6. Agrees(t)'
  <2>1. run'[t].node = "done" /\ run'[t].key = k
    BY <1>1 DEF GateClose, Stop, Goto, AtNode, TypeOK
  <2> QED
    BY <1>1, <1>2, <2>1 DEF Agrees, GateAgrees, ActAgrees, In
<1> QED
  BY <1>3, <1>4, <1>5, <1>6, StepAgrees

(* The steps of act_measure(node) that write nothing. *)
LEMMA ActReadsAgree ==
  ASSUME IInv, TypeOK', NEW t \in Task,
         \/ BackupBlocked(t) \/ ActMeasure(t) \/ ActRemeasure(t)
         \/ ActReplan(t) \/ ActDone(t)
  PROVE  IInv'
<1>1. RowsAgree' /\ Grows
  BY QuietRows DEF BackupBlocked, ActMeasure, ActRemeasure, ActReplan, ActDone
<1>2. ActAgrees(t) /\ run \in [Task -> Run] /\ TypeOK
  BY DEF IInv, RunsAgree, TypeOK
<1>3. \A u \in Task : u # t => run'[u] = run[u]
  BY <1>2 DEF BackupBlocked, ActMeasure, ActRemeasure, ActReplan, ActDone, Stop, Goto
<1>4. Agrees(t)'
  <2>1. CASE BackupBlocked(t)
    BY <1>2, <2>1, StopAgrees DEF BackupBlocked, Over
  <2>2. CASE ActMeasure(t)
    <3>1. /\ run'[t].node = "act" /\ run'[t].key = run[t].key
          /\ run'[t].at = "ledger"
      BY <1>2, <2>2 DEF ActMeasure, In, Run
    <3> QED
      BY <1>2, <2>2, <3>1 DEF ActMeasure, rows, In, Agrees, GateAgrees, ActAgrees
  <2>3. CASE ActRemeasure(t)
    <3>1. PICK v \in Outcomes :
            run' = [run EXCEPT ![t].at = "outcome", ![t].verdict = v]
      BY <2>3 DEF ActRemeasure, Verdicts, Outcomes
    <3>2. /\ run'[t].node = "act" /\ run'[t].key = run[t].key
          /\ run'[t].at = "outcome" /\ run'[t].verdict \in Outcomes
      <4>1. run[t] \in Run /\ run'[t] = [run[t] EXCEPT !.at = "outcome", !.verdict = v]
        BY <1>2, <3>1
      <4> QED
        BY <2>3, <4>1 DEF ActRemeasure, In, Run
    <3> QED
      BY <1>2, <2>3, <3>2 DEF ActRemeasure, rows, In, Agrees, GateAgrees, ActAgrees
  <2>4. CASE ActReplan(t)
    BY <1>2, <2>4, CheckpointAgrees DEF ActReplan, Nodes
  <2>5. CASE ActDone(t)
    <3>1. run'[t].node = "done" /\ run'[t].key = run[t].key
      BY <1>2, <2>5 DEF ActDone, Stop, Goto, AtNode
    <3> QED
      BY <1>2, <2>5, <3>1 DEF ActDone, rows, In, Agrees, GateAgrees, ActAgrees
  <2> QED
    BY <2>1, <2>2, <2>3, <2>4, <2>5
<1> QED
  BY <1>1, <1>3, <1>4, StepAgrees

(* The ledger transaction: the run acts on an approval that stands. *)
LEMMA ActLedgerAgrees ==
  ASSUME IInv, TypeOK', NEW t \in Task, ActLedger(t)
  PROVE  IInv'
<1> DEFINE k == run[t].key
<1>1. TypeOK /\ RowsAgree /\ k \in Key /\ approval[k] = "approved"
  BY DEF ActLedger, In, IInv, RunsAgree, ActAgrees
<1>2. /\ action'[k].status = "applied" /\ action'[k].outcome = action[k].outcome
      /\ \A j \in Key : j # k => action'[j] = action[j]
      /\ UNCHANGED <<approval, decisions, episodes, target>>
  BY <1>1 DEF ActLedger, TypeOK, Action
<1>3. RowExists(k)
  BY <1>1 DEF RowsAgree, IntentIsOne
<1>4. RowsAgree'
  <2>1. IntentIsOne'
    BY <1>1, <1>2, <1>3 DEF RowsAgree, IntentIsOne, RowExists
  <2>2. LedgerFollowsDecision' /\ ChangesAreApproved'
    BY <1>1, <1>2 DEF RowsAgree, LedgerFollowsDecision, ChangesAreApproved, TypeOK
  <2>3. EpisodesAreTrue' /\ \A j \in Key : action'[j].outcome \in Outcomes => j \in target'
    BY <1>1, <1>2 DEF RowsAgree, EpisodesAreTrue
  <2> QED
    BY <2>1, <2>2, <2>3 DEF RowsAgree
<1>5. Grows
  BY <1>1, <1>2 DEF Grows, RowExists
<1>6. \A u \in Task : u # t => run'[u] = run[u]
  BY <1>1 DEF TypeOK, ActLedger, Proceed
<1>7. Agrees(t)'
  <2>1. run'[t].node = "act" /\ run'[t].key = k /\ run'[t].at = "ddl"
    BY <1>1 DEF ActLedger, In, TypeOK, Run, Proceed
  <2> QED
    BY <1>1, <1>2, <2>1 DEF Agrees, GateAgrees, ActAgrees, In
<1> QED
  BY <1>4, <1>5, <1>6, <1>7, StepAgrees

(* The DDL: the ledger said applied before. *)
LEMMA ActApplyAgrees ==
  ASSUME IInv, TypeOK', NEW t \in Task, ActApply(t)
  PROVE  IInv'
<1> DEFINE k == run[t].key
<1>1. /\ TypeOK /\ RowsAgree /\ k \in Key /\ approval[k] = "approved"
      /\ action[k].status = "applied"
  BY DEF ActApply, In, IInv, RunsAgree, ActAgrees
<1>2. target' = target \cup {k} /\ UNCHANGED <<action, approval, decisions, episodes>>
  BY DEF ActApply, rows
<1>3. RowsAgree' /\ Grows
  BY <1>1, <1>2 DEF RowsAgree, IntentIsOne, RowExists, LedgerFollowsDecision,
                    ChangesAreApproved, EpisodesAreTrue, Grows
<1>4. \A u \in Task : u # t => run'[u] = run[u]
  BY <1>1 DEF TypeOK, ActApply, Proceed
<1>5. Agrees(t)'
  <2>1. run'[t].node = "act" /\ run'[t].key = k /\ run'[t].at = "after"
    BY <1>1 DEF ActApply, In, TypeOK, Run, Proceed
  <2> QED
    BY <1>1, <1>2, <2>1 DEF Agrees, GateAgrees, ActAgrees, In
<1> QED
  BY <1>3, <1>4, <1>5, StepAgrees

(* The outcome transaction: of a change that is on the target. *)
LEMMA ActOutcomeAgrees ==
  ASSUME IInv, TypeOK', NEW t \in Task, ActOutcome(t)
  PROVE  IInv'
<1> DEFINE k == run[t].key
           v == run[t].verdict
<1>1. /\ TypeOK /\ RowsAgree /\ k \in Key /\ k \in target /\ v \in Outcomes
      /\ action[k].status = "applied" /\ approval[k] = "approved"
  BY DEF ActOutcome, In, IInv, RunsAgree, ActAgrees
<1>2. /\ action'[k].status = action[k].status /\ action'[k].outcome = v
      /\ \A j \in Key : j # k => action'[j] = action[j]
      /\ episodes'[k] = episodes[k] \cup {v}
      /\ \A j \in Key : j # k => episodes'[j] = episodes[j]
      /\ UNCHANGED <<approval, decisions, target>>
  BY <1>1 DEF ActOutcome, TypeOK, Action
<1>3. RowsAgree'
  <2>1. IntentIsOne'
    BY <1>1, <1>2 DEF RowsAgree, IntentIsOne, RowExists
  <2>2. LedgerFollowsDecision' /\ ChangesAreApproved'
    BY <1>1, <1>2 DEF RowsAgree, LedgerFollowsDecision, ChangesAreApproved, TypeOK
  <2>3. EpisodesAreTrue'
    BY <1>1, <1>2 DEF RowsAgree, EpisodesAreTrue, Refused, Outcomes
  <2>4. \A j \in Key : action'[j].outcome \in Outcomes => j \in target'
    BY <1>1, <1>2 DEF RowsAgree
  <2> QED
    BY <2>1, <2>2, <2>3, <2>4 DEF RowsAgree
<1>4. Grows
  BY <1>1, <1>2 DEF Grows, RowExists, Outcomes
<1>5. \A u \in Task : u # t => run'[u] = run[u]
  BY <1>1 DEF TypeOK, ActOutcome, Proceed
<1>6. Agrees(t)'
  <2>1. /\ run'[t].node = "act" /\ run'[t].key = k /\ run'[t].at = "return"
        /\ run'[t].verdict = v
    BY <1>1 DEF ActOutcome, In, TypeOK, Run, Proceed
  <2> QED
    BY <1>1, <1>2, <2>1 DEF Agrees, GateAgrees, ActAgrees, In, Outcomes
<1> QED
  BY <1>3, <1>4, <1>5, <1>6, StepAgrees

(* Errors, deaths and redeliveries write no row, and a run that loses its  *)
(* local state knows less than before, never something else.               *)
LEMMA MishapAgrees ==
  ASSUME IInv, TypeOK', NEW t \in Task, Fail(t) \/ Crash(t) \/ Resume(t) \/ Orphan(t)
  PROVE  IInv'
<1>1. RowsAgree' /\ Grows
  BY QuietRows DEF Fail, Crash, Resume, Orphan
<1>2. GateAgrees(t) /\ ActAgrees(t) /\ Agrees(t) /\ run \in [Task -> Run] /\ TypeOK
  BY DEF IInv, RunsAgree, TypeOK, Agrees, DoneIsRecorded
<1>3. \A u \in Task : u # t => run'[u] = run[u]
  BY <1>2 DEF Fail, Crash, Resume, Orphan, Proceed, Stop, Goto
<1>4. Agrees(t)'
  <2>1. CASE Fail(t) \/ Orphan(t)
    BY <1>2, <2>1, StopAgrees DEF Fail, Orphan, Over
  <2>2. CASE Crash(t)
    <3>1. /\ run'[t].node = run[t].node /\ run'[t].key = run[t].key
          /\ run'[t].at = "down" /\ run[t].node \in Nodes
      <4>1. run'[t] = [AtNode(run[t].node, run[t].key, run[t].replans)
                         EXCEPT !.at = "down"]
        BY <1>2, <2>2 DEF Crash
      <4> QED
        BY <2>2, <4>1 DEF Crash, AtNode
    <3> QED
      BY <1>2, <2>2, <3>1 DEF Crash, rows, Nodes, Agrees, GateAgrees, ActAgrees, In
  <2>3. CASE Resume(t)
    <3>1. /\ run'[t].node = run[t].node /\ run'[t].key = run[t].key
          /\ run'[t].at = "start"
      BY <1>2, <2>3 DEF Resume, Proceed, Run
    <3> QED
      BY <1>2, <2>3, <3>1 DEF Resume, rows, Agrees, GateAgrees, ActAgrees, In
  <2> QED
    BY <2>1, <2>2, <2>3
<1> QED
  BY <1>1, <1>3, <1>4, StepAgrees

LEMMA HumanAgrees ==
  ASSUME IInv, TypeOK', NEW k \in Key, NEW s \in {"approved", "rejected"},
         HumanDecide(k, s)
  PROVE  IInv'
<1>1. RowsAgree' /\ Grows
  <2>1. s \in Decided
    BY DEF Decided, Refused
  <2> QED
    BY <2>1, DecideAgrees DEF HumanDecide
<1>2. \A u \in Task : run'[u] = run[u]
  BY DEF HumanDecide
<1>3. \A u \in Task : Agrees(u)'
  BY <1>1, <1>2, OthersAgree
<1> QED
  BY <1>1, <1>3 DEF IInv, RunsAgree, DoneIsRecorded, Agrees

-----------------------------------------------------------------------------
(* Every step keeps the invariant. *)
LEMMA IInvInductive == IInv /\ [Next]_vars => IInv'
<1> SUFFICES ASSUME IInv, [Next]_vars PROVE IInv'
  OBVIOUS
<1>1. TypeOK'
  BY TypeStep DEF IInv
<1>2. ASSUME NEW t \in Task, Reason(t) PROVE IInv'
  BY <1>1, <1>2, ReasonAgrees
<1>3. ASSUME NEW t \in Task, Gate(t) PROVE IInv'
  BY <1>1, <1>3, GateReadsAgree, GateInsertAgrees, GateExpireAgrees, GateSkipAgrees,
     GateCloseAgrees DEF Gate
<1>4. ASSUME NEW t \in Task, ActMeasureNode(t) PROVE IInv'
  BY <1>1, <1>4, ActReadsAgree, ActLedgerAgrees, ActApplyAgrees, ActOutcomeAgrees
     DEF ActMeasureNode
<1>5. ASSUME NEW t \in Task, Redeliver(t) \/ Fail(t) \/ Crash(t) PROVE IInv'
  BY <1>1, <1>5, MishapAgrees DEF Redeliver
<1>6. ASSUME NEW k \in Key, NEW s \in {"approved", "rejected"}, HumanDecide(k, s)
      PROVE  IInv'
  BY <1>1, <1>6, HumanAgrees
<1>7. CASE UNCHANGED vars
  <2>1. UNCHANGED <<rows, target>> /\ \A u \in Task : run'[u] = run[u]
    BY <1>7 DEF vars, rows
  <2>2. RowsAgree' /\ Grows
    BY <2>1, QuietRows
  <2>3. \A u \in Task : Agrees(u)'
    BY <2>1, <2>2, OthersAgree
  <2> QED
    BY <1>1, <2>2, <2>3 DEF IInv, RunsAgree, DoneIsRecorded, Agrees
<1> QED
  BY <1>2, <1>3, <1>4, <1>5, <1>6, <1>7 DEF Next, Advance

THEOREM IInvHolds == Spec => []IInv
<1>1. Init => IInv
  <2> SUFFICES ASSUME Init PROVE IInv
    OBVIOUS
  <2>1. TypeOK
    BY TypeInit
  <2>2. RowsAgree
    BY DEF Init, RowsAgree, IntentIsOne, RowExists, LedgerFollowsDecision,
           ChangesAreApproved, EpisodesAreTrue, Outcomes, Refused
  <2>3. RunsAgree /\ DoneIsRecorded
    BY DEF Init, RunsAgree, GateAgrees, ActAgrees, DoneIsRecorded, In, AtNode
  <2> QED
    BY <2>1, <2>2, <2>3 DEF IInv
<1> QED
  BY <1>1, IInvInductive, PTL DEF Spec

(* The variables keep their types: no run re-plans over its budget, no row *)
(* has a status or an outcome the code does not write.                     *)
THEOREM TypeCorrect == Spec => []TypeOK
<1>1. IInv => TypeOK
  BY DEF IInv
<1> QED
  BY <1>1, IInvHolds, PTL

(* Nothing reaches the target cluster but what the ledger already calls    *)
(* applied and a human approved (act_measure(node)'s order of writes).     *)
THEOREM OnlyApprovedChanges == Spec => []ChangesAreApproved
<1>1. IInv => ChangesAreApproved
  BY DEF IInv, RowsAgree
<1> QED
  BY <1>1, IInvHolds, PTL

(* A change is applied only if approved and skipped only if refused,       *)
(* whoever refused it (gate(node), decide_approval, the deadline).         *)
THEOREM LedgerIsTrue == Spec => []LedgerFollowsDecision
<1>1. IInv => LedgerFollowsDecision
  BY DEF IInv, RowsAgree
<1> QED
  BY <1>1, IInvHolds, PTL

(* A change met by two runs, or twice by one, has one decision, one intent *)
(* and one approval, or none of them (insert_gate_decision).               *)
THEOREM IntentsAreOne == Spec => []IntentIsOne
<1>1. IInv => IntentIsOne
  BY DEF IInv, RowsAgree
<1> QED
  BY <1>1, IInvHolds, PTL

(* Memory learns of a refusal only what was refused, of a measurement only *)
(* what is on the target.                                                  *)
THEOREM MemoryIsTrue == Spec => []EpisodesAreTrue
<1>1. IInv => EpisodesAreTrue
  BY DEF IInv, RowsAgree
<1> QED
  BY <1>1, IInvHolds, PTL

(* A run that ends normally has left an outcome on its last change.        *)
THEOREM NormalEndIsRecorded == Spec => []DoneIsRecorded
<1>1. IInv => DoneIsRecorded
  BY DEF IInv
<1> QED
  BY <1>1, IInvHolds, PTL

(* What a run knows is what the rows say, until the run acts on it.        *)
THEOREM RunsKnow == Spec => []RunsAgree
<1>1. IInv => RunsAgree
  BY DEF IInv
<1> QED
  BY <1>1, IInvHolds, PTL

(* Nobody's decision is overwritten: not by a second click, not by the     *)
(* gate's timeout, not by a second run that proposes the same change.      *)
LEMMA DecisionKept ==
  ASSUME IInv, [Next]_vars, NEW j \in Key, approval[j] \in Decided
  PROVE  approval'[j] = approval[j]
<1>1. TypeOK /\ IntentIsOne /\ approval[j] \notin {"none", "pending"}
  BY DEF IInv, RowsAgree, Decided, Refused
<1>2. ASSUME NEW t \in Task, GateInsert(t) PROVE approval'[j] = approval[j]
  <2>1. run[t].key # j
    BY <1>1, <1>2 DEF GateInsert, IntentIsOne
  <2> QED
    BY <1>1, <1>2, <2>1 DEF GateInsert, TypeOK
<1>3. ASSUME NEW t \in Task, GateExpire(t) PROVE approval'[j] = approval[j]
  BY <1>1, <1>3 DEF GateExpire, CanDecide, TypeOK
<1>4. ASSUME NEW k \in Key, NEW s \in {"approved", "rejected"}, HumanDecide(k, s)
      PROVE  approval'[j] = approval[j]
  BY <1>1, <1>4 DEF HumanDecide, CanDecide, TypeOK
<1>5. ASSUME UNCHANGED approval PROVE approval'[j] = approval[j]
  BY <1>5
<1>6. ASSUME NEW t \in Task, Gate(t), ~GateInsert(t), ~GateExpire(t)
      PROVE  UNCHANGED approval
  BY <1>6 DEF Gate, GateSelect, GateCollide, GatePoll, GateTimeout, GateApproved,
              GateSkip, GateReplan, GateClose, rows
<1>7. ASSUME NEW t \in Task, ActMeasureNode(t) PROVE UNCHANGED approval
  BY <1>7 DEF ActMeasureNode, BackupBlocked, ActMeasure, ActLedger, ActApply,
              ActRemeasure, ActOutcome, ActReplan, ActDone, rows
<1>8. ASSUME NEW t \in Task, Reason(t) \/ Redeliver(t) \/ Fail(t) \/ Crash(t)
      PROVE  UNCHANGED approval
  BY <1>8 DEF Reason, Propose, ProposeNothing, Redeliver, Resume, Orphan, Fail, Crash, rows
<1>9. CASE UNCHANGED vars
  BY <1>5, <1>9 DEF vars
<1> QED
  BY <1>2, <1>3, <1>4, <1>5, <1>6, <1>7, <1>8, <1>9 DEF Next, Advance

THEOREM DecisionsStand == Spec => DecisionFinal
<1>1. IInv /\ [Next]_vars
        => \A k \in Key : approval[k] \in Decided => approval'[k] = approval[k]
  BY DecisionKept
<1> QED
  BY <1>1, IInvHolds, PTL DEF Spec, DecisionFinal

-----------------------------------------------------------------------------
(* The refinement of Lifecycle: a step moves the stage of one change along *)
(* one edge, or moves nothing.                                             *)
LEMMA OneStage ==
  ASSUME NEW k \in Key,
         \A j \in Key : j # k => StageOf(j)' = StageOf(j),
         StageOf(k)' # StageOf(k) => <<StageOf(k), StageOf(k)'>> \in Ledger!Edges
  PROVE  [Ledger!Next]_Stage
<1>1. CASE StageOf(k)' = StageOf(k)
  BY <1>1 DEF Stage
<1>2. CASE StageOf(k)' # StageOf(k)
  <2>1. StageOf(k)' \in Ledger!Stages
    BY <1>2 DEF Ledger!Edges, Ledger!Stages
  <2>2. Stage' = [Stage EXCEPT ![k] = StageOf(k)'] /\ Stage[k] = StageOf(k)
    BY DEF Stage
  <2>3. Ledger!Advance(k)
    BY <1>2, <2>1, <2>2 DEF Ledger!Advance
  <2> QED
    BY <2>3 DEF Ledger!Next
<1> QED
  BY <1>1, <1>2

LEMMA NoStage ==
  ASSUME UNCHANGED <<action, approval, target>>
  PROVE  [Ledger!Next]_Stage
<1>1. \A j \in Key : StageOf(j)' = StageOf(j)
  BY DEF StageOf
<1> QED
  BY <1>1 DEF Stage

(* The stages a decision, the ledger transaction, the DDL, the outcome and *)
(* the closing of a refused change lead from and to.                       *)
LEMMA StageStep == IInv /\ [Next]_vars => [Ledger!Next]_Stage
<1> SUFFICES ASSUME IInv, [Next]_vars
             PROVE  [Ledger!Next]_Stage
  OBVIOUS
<1>1. TypeOK /\ RowsAgree
  BY DEF IInv
<1> DEFINE Goal == [Ledger!Next]_Stage
<1>2. ASSUME NEW t \in Task, GateInsert(t) PROVE Goal
  <2>k. PICK k \in Key : k = run[t].key
    BY <1>2 DEF GateInsert, In, IInv, RunsAgree, GateAgrees
  <2>1. /\ k \in Key /\ action[k].status = "none" /\ approval[k] = "none"
        /\ k \notin target /\ action[k].outcome \notin Outcomes
    BY <1>1, <1>2, <2>k DEF GateInsert, In, IInv, RunsAgree, GateAgrees, RowsAgree, IntentIsOne,
                      RowExists, ChangesAreApproved
  <2>2. /\ action'[k].status = "proposed" /\ action'[k].outcome = action[k].outcome
        /\ approval'[k] = "pending" /\ target' = target
        /\ \A j \in Key : j # k => action'[j] = action[j] /\ approval'[j] = approval[j]
    BY <1>1, <1>2, <2>k, <2>1 DEF GateInsert, TypeOK, Action
  <2>3. StageOf(k) = "absent" /\ StageOf(k)' = "proposed"
    BY <2>1, <2>2 DEF StageOf, Refused
  <2>4. \A j \in Key : j # k => StageOf(j)' = StageOf(j)
    BY <2>2 DEF StageOf
  <2> QED
    BY <2>1, <2>3, <2>4, OneStage DEF Ledger!Edges
<1>3. ASSUME NEW k \in Key, NEW s \in Decided, CanDecide(k),
             approval' = [approval EXCEPT ![k] = s], UNCHANGED <<action, target>>
      PROVE  Goal
  <2>1. /\ action[k].status \notin {"applied", "skipped"} /\ k \notin target
        /\ action[k].outcome \notin Outcomes /\ approval[k] = "pending"
    BY <1>1, <1>3 DEF CanDecide, RowsAgree, LedgerFollowsDecision, ChangesAreApproved, Refused
  <2>2. /\ approval'[k] = s /\ UNCHANGED <<action, target>>
        /\ \A j \in Key : j # k => approval'[j] = approval[j]
    BY <1>1, <1>3 DEF TypeOK
  <2>3. /\ StageOf(k) = "proposed"
        /\ StageOf(k)' = IF s = "approved" THEN "approved" ELSE "refused"
    BY <1>3, <2>1, <2>2 DEF StageOf, Refused, Decided
  <2>4. \A j \in Key : j # k => StageOf(j)' = StageOf(j)
    BY <2>2 DEF StageOf
  <2> QED
    BY <2>3, <2>4, OneStage DEF Ledger!Edges
<1>4. ASSUME NEW t \in Task, GateExpire(t) PROVE Goal
  <2>1. run[t].key \in Key
    BY <1>4 DEF GateExpire, In, IInv, RunsAgree, GateAgrees
  <2>2. CASE CanDecide(run[t].key)
    BY <1>3, <1>4, <2>1, <2>2 DEF GateExpire, Decided, Refused
  <2>3. CASE ~CanDecide(run[t].key)
    BY <1>4, <2>3, NoStage DEF GateExpire
  <2> QED
    BY <2>2, <2>3
<1>5. ASSUME NEW k \in Key, NEW s \in {"approved", "rejected"}, HumanDecide(k, s)
      PROVE  Goal
  BY <1>3, <1>5 DEF HumanDecide, Decided, Refused
<1>6. ASSUME NEW t \in Task, GateSkip(t) PROVE Goal
  <2>k. PICK k \in Key : k = run[t].key
    BY <1>6 DEF GateSkip, In, IInv, RunsAgree, GateAgrees
  <2>1. k \in Key /\ approval[k] \in Refused
    BY <1>6, <2>k DEF GateSkip, In, IInv, RunsAgree, GateAgrees, Decided
  <2>2. /\ k \notin target /\ action[k].status # "applied"
        /\ action[k].outcome \notin Outcomes
    BY <1>1, <2>1 DEF RowsAgree, LedgerFollowsDecision, ChangesAreApproved, Refused
  <2>3. /\ action'[k].status = "skipped" /\ action'[k].outcome = "skipped"
        /\ UNCHANGED <<approval, target>>
        /\ \A j \in Key : j # k => action'[j] = action[j]
    BY <1>1, <1>6, <2>k, <2>1 DEF GateSkip, TypeOK
  <2>4. StageOf(k) \in {"refused", "skipped"} /\ StageOf(k)' = "skipped"
    BY <2>1, <2>2, <2>3 DEF StageOf, Refused, Outcomes
  <2>5. \A j \in Key : j # k => StageOf(j)' = StageOf(j)
    BY <2>3 DEF StageOf
  <2> QED
    BY <2>1, <2>4, <2>5, OneStage DEF Ledger!Edges
<1>7. ASSUME NEW t \in Task, ActLedger(t) PROVE Goal
  <2>k. PICK k \in Key : k = run[t].key
    BY <1>7 DEF ActLedger, In, IInv, RunsAgree, ActAgrees
  <2>1. k \in Key /\ approval[k] = "approved"
    BY <1>7, <2>k DEF ActLedger, In, IInv, RunsAgree, ActAgrees
  <2>2. action[k].status # "skipped"
    BY <1>1, <2>1 DEF RowsAgree, LedgerFollowsDecision, Refused
  <2>3. /\ action'[k].status = "applied" /\ action'[k].outcome = action[k].outcome
        /\ UNCHANGED <<approval, target>>
        /\ \A j \in Key : j # k => action'[j] = action[j]
    BY <1>1, <1>7, <2>k, <2>1 DEF ActLedger, TypeOK, Action
  <2>4. StageOf(k)' # StageOf(k) => StageOf(k) = "approved" /\ StageOf(k)' = "applied"
    BY <2>1, <2>2, <2>3 DEF StageOf
  <2>5. \A j \in Key : j # k => StageOf(j)' = StageOf(j)
    BY <2>3 DEF StageOf
  <2> QED
    BY <2>1, <2>4, <2>5, OneStage DEF Ledger!Edges
<1>8. ASSUME NEW t \in Task, ActApply(t) PROVE Goal
  <2>k. PICK k \in Key : k = run[t].key
    BY <1>8 DEF ActApply, In, IInv, RunsAgree, ActAgrees
  <2>1. k \in Key /\ action[k].status = "applied"
    BY <1>8, <2>k DEF ActApply, In, IInv, RunsAgree, ActAgrees
  <2>2. target' = target \cup {k} /\ UNCHANGED <<action, approval>>
    BY <1>8, <2>k DEF ActApply, rows
  <2>3. StageOf(k)' # StageOf(k) => StageOf(k) = "applied" /\ StageOf(k)' = "changed"
    BY <2>1, <2>2 DEF StageOf
  <2>4. \A j \in Key : j # k => StageOf(j)' = StageOf(j)
    BY <2>2 DEF StageOf
  <2> QED
    BY <2>1, <2>3, <2>4, OneStage DEF Ledger!Edges
<1>9. ASSUME NEW t \in Task, ActOutcome(t) PROVE Goal
  <2>k. PICK k \in Key : k = run[t].key
    BY <1>9 DEF ActOutcome, In, IInv, RunsAgree, ActAgrees
  <2>1. k \in Key /\ k \in target /\ run[t].verdict \in Outcomes
    BY <1>9, <2>k DEF ActOutcome, In, IInv, RunsAgree, ActAgrees
  <2>2. /\ action'[k].outcome \in Outcomes /\ UNCHANGED <<approval, target>>
        /\ \A j \in Key : j # k => action'[j] = action[j]
    BY <1>1, <1>9, <2>k, <2>1 DEF ActOutcome, TypeOK, Action
  <2>3. StageOf(k) \in {"changed", "measured"} /\ StageOf(k)' = "measured"
    BY <2>1, <2>2 DEF StageOf
  <2>4. \A j \in Key : j # k => StageOf(j)' = StageOf(j)
    BY <2>2 DEF StageOf
  <2> QED
    BY <2>1, <2>3, <2>4, OneStage DEF Ledger!Edges
<1>10. ASSUME NEW t \in Task, Gate(t), ~GateInsert(t), ~GateExpire(t), ~GateSkip(t)
       PROVE  Goal
  BY <1>10, NoStage DEF Gate, GateSelect, GateCollide, GatePoll, GateTimeout, GateApproved,
                        GateReplan, GateClose, rows
<1>11. ASSUME NEW t \in Task, ActMeasureNode(t), ~ActLedger(t), ~ActApply(t), ~ActOutcome(t)
       PROVE  Goal
  BY <1>11, NoStage DEF ActMeasureNode, BackupBlocked, ActMeasure, ActRemeasure, ActReplan,
                        ActDone, rows
<1>12. ASSUME NEW t \in Task, Reason(t) \/ Redeliver(t) \/ Fail(t) \/ Crash(t)
       PROVE  Goal
  BY <1>12, NoStage DEF Reason, Propose, ProposeNothing, Redeliver, Resume, Orphan, Fail,
                        Crash, rows
<1>13. CASE UNCHANGED vars
  BY <1>13, NoStage DEF vars
<1> QED
  BY <1>2, <1>4, <1>5, <1>6, <1>7, <1>8, <1>9, <1>10, <1>11, <1>12, <1>13 DEF Next, Advance

(* The rows and the target follow the ledger's state machine of the design *)
(* (LLD 8.2), for any number of runs, changes and deaths.                  *)
THEOREM Implements == Spec => ImplementsLifecycle
<1>1. Init => Ledger!Init
  <2> SUFFICES ASSUME Init, NEW k \in Key PROVE StageOf(k) = "absent"
    BY DEF Ledger!Init, Stage
  <2> QED
    BY DEF Init, StageOf, Refused, Outcomes
<1> QED
  BY <1>1, StageStep, IInvHolds, PTL DEF Spec, ImplementsLifecycle, Ledger!Spec
=============================================================================
