---------------------------- MODULE ProposalProofs ----------------------------
(***************************************************************************)
(* Theorems about module Proposal, for any proposals, tables, numbers of   *)
(* rounds, retries, re-plans, schema changes and deaths: what the human    *)
(* was shown was recorded, unfalsified and checked against real columns,   *)
(* and what runs was approved and has a backup, judged and checked in the  *)
(* execution of the node that uses it.                                     *)
(***************************************************************************)
EXTENDS Proposal, TLAPS

-----------------------------------------------------------------------------
(* The invariant: one part about the world, one about the run's record r,  *)
(* so that a step of the run is proved by what it makes of the record.     *)

StepsOf(node) ==
  CASE node = "reason" -> {"call", "record", "return"}
    [] node = "gate" -> {"look", "ledger", "poll"}
    [] node = "act" -> {"backup", "apply", "measure"}
    [] OTHER -> {"over"}

\* The record's history knows all the target has been since the node began.
Remembers(r) ==
  /\ r.began <= now
  /\ \A t \in Table : schema[t] \subseteq r.existed[t]
                       /\ (schema[t] = {} => t \in r.missed)

\* The renderer let p through in this execution of the node.
Rendered(r, p) ==
  /\ p.table \in Table
  /\ p.kind = "create_index" /\ p.table \notin r.missed
       => p.columns \subseteq r.existed[p.table]

Asked(p) == p \in decisions.all /\ ~Falsified(p) /\ p.table \in Table

WorldTyped ==
  /\ candidate \subseteq Column
  /\ decisions \in [all: SUBSET Change, last: SUBSET Change]
  /\ decisions.last \subseteq decisions.all
  /\ approval \in [Change -> {"none", "pending"} \cup Decided]
  /\ schema \in [Table -> SUBSET Column]
  /\ \A i \in indexes : i.table \in Table /\ i.columns \subseteq Column
  /\ backups \subseteq 0 .. MaxTime
  /\ now \in 0 .. MaxTime /\ changes \in 0 .. MaxChanges
  /\ crashes \in 0 .. MaxCrashes

WorldOK ==
  /\ WorldTyped
  /\ \A p \in Change : approval[p] # "none" => Asked(p)

\* The statement was approved before the run came to it, and stays so.
ApprovedRuns(r) == r.node = "act" => \A p \in r.change : approval[p] = "approved"

\* The judgement of the backup gate is this execution's own.
Backed(r) == r.step = "apply" => \E b \in backups : r.began - b <= Window

RunOK(r) ==
  /\ r \in Run /\ r.step \in StepsOf(r.node)
  /\ \A p \in r.change : ~Falsified(p)
  /\ r.node \in {"gate", "act"} \/ r.step = "return" => r.change = decisions.last
  /\ r.step = "ledger" => \A p \in r.change : Rendered(r, p)
  /\ Remembers(r)
  /\ ApprovedRuns(r)
  /\ Backed(r)

Inv == WorldOK /\ RunOK(run)

-----------------------------------------------------------------------------
(* Lemmas.                                                                 *)

world == <<candidate, decisions, approval, indexes, target>>

LEMMA ChangeTyped ==
  ASSUME NEW r \in Run, NEW p \in r.change
  PROVE  p \in Change /\ r.change = {p} /\ p \in Proposals
BY ProposalAssumption DEF Run

LEMMA AtTyped ==
  ASSUME WorldTyped,
         NEW node \in {"reason", "gate", "act"} \cup Over,
         NEW change \in {{}} \cup {{p} : p \in Change}, NEW replans \in 0 .. MaxReplans
  PROVE  /\ At(node, change, replans) \in Run
         /\ At(node, change, replans).node = node
         /\ At(node, change, replans).change = change
         /\ At(node, change, replans).step = FirstStep(node)
         /\ FirstStep(node) \in StepsOf(node)
         /\ FirstStep(node) \notin {"return", "ledger", "poll", "apply", "measure"}
         /\ Remembers(At(node, change, replans))
<1>1. /\ FirstStep(node) \in {"call", "look", "backup", "over"}
      /\ FirstStep(node) \in StepsOf(node)
  BY DEF FirstStep, StepsOf, Over
<1>2. 1 \in 1 .. MaxRounds /\ 1 \in 1 .. MaxRetries
  BY ProposalAssumption
<1>3. now \in 0 .. MaxTime /\ schema \in [Table -> SUBSET Column]
      /\ now \in Nat
  BY ProposalAssumption DEF WorldTyped
<1>4. At(node, change, replans) \in Run
  BY <1>1, <1>2, <1>3 DEF At, Run
<1>5. Remembers(At(node, change, replans))
  BY <1>3 DEF At, Remembers
<1> QED
  BY <1>1, <1>4, <1>5 DEF At

\* A step of the run alone.
LEMMA RunStep ==
  ASSUME Inv, NEW r, RunOK(r), run' = r, UNCHANGED world, crashes' \in 0 .. MaxCrashes
  PROVE  Inv'
<1>1. WorldOK'
  BY DEF Inv, WorldOK, WorldTyped, Asked, Falsified, world, target
<1>2. RunOK(run)'
  BY DEF RunOK, ApprovedRuns, Backed, Rendered, Remembers, Falsified, world, target
<1> QED
  BY <1>1, <1>2 DEF Inv

LEMMA ProceedStep ==
  ASSUME Inv, NEW r, RunOK(r), run' = r,
         UNCHANGED <<candidate, decisions, approval, indexes, crashes, target>>
  PROVE  Inv'
<1>1. crashes' \in 0 .. MaxCrashes
  BY DEF Inv, WorldOK, WorldTyped
<1> QED
  BY <1>1, RunStep DEF world

\* A record of the same execution of the node.
Kept(r) == r.began = run.began /\ r.existed = run.existed /\ r.missed = run.missed

LEMMA KeptOK ==
  ASSUME Inv, NEW r, Kept(r)
  PROVE  Remembers(r) /\ \A p : Rendered(run, p) => Rendered(r, p)
BY DEF Inv, RunOK, Kept, Remembers, Rendered

\* Wherever the run stops, what it holds is what it held.
LEMMA StopOK ==
  ASSUME Inv, NEW how \in Over
  PROVE  RunOK(At(how, run.change, run.replans))
<1>1. run.change \in {{}} \cup {{p} : p \in Change} /\ run.replans \in 0 .. MaxReplans
  BY DEF Inv, RunOK, Run
<1>0. WorldTyped
  BY DEF Inv, WorldOK
<1>2. how \notin {"reason", "gate", "act"} /\ how \in {"reason", "gate", "act"} \cup Over
  BY DEF Over
<1> DEFINE r == At(how, run.change, run.replans)
<1>3. /\ r \in Run /\ r.node = how /\ r.change = run.change
      /\ r.step \in StepsOf(how)
      /\ r.step \notin {"return", "ledger", "poll", "apply", "measure"}
      /\ Remembers(r)
  BY <1>0, <1>1, <1>2, AtTyped
<1> HIDE DEF r
<1>4. RunOK(r)
  BY <1>2, <1>3 DEF Inv, RunOK, ApprovedRuns, Backed
<1> QED
  BY <1>4 DEF r

LEMMA StopStep ==
  ASSUME Inv, NEW how \in Over, Stop(how),
         UNCHANGED <<candidate, decisions, approval, indexes, crashes, target>>
  PROVE  Inv'
BY StopOK, ProceedStep DEF Stop, Goto

LEMMA NextRoundStep ==
  ASSUME Inv, run.step = "call", NextRound,
         UNCHANGED <<candidate, decisions, approval, indexes, crashes, target>>
  PROVE  Inv'
<1>0. run.step # "ledger"
  OBVIOUS
<1>1. CASE run.round < MaxRounds
  <2> DEFINE r == [run EXCEPT !.round = @ + 1, !.attempt = 1]
  <2>1. run' = r
    BY <1>1 DEF NextRound, Becomes
  <2>2. run \in Run /\ run.round + 1 \in 1 .. MaxRounds /\ 1 \in 1 .. MaxRetries
    BY <1>1, ProposalAssumption DEF Inv, RunOK, Run
  <2>3. /\ r \in Run /\ r.step = run.step /\ r.node = run.node
        /\ r.change = run.change /\ Kept(r)
    BY <2>2 DEF Run, Kept
  <2>4. RunOK(r)
    BY <1>0, <2>3, KeptOK DEF Inv, RunOK, ApprovedRuns, Backed
  <2> QED
    BY <2>1, <2>4, ProceedStep
<1>2. CASE ~(run.round < MaxRounds)
  BY <1>2, StopStep DEF NextRound, Over
<1> QED
  BY <1>1, <1>2

\* The run goes on to a step of its node with the change it holds.
LEMMA StepOK ==
  ASSUME Inv, NEW step \in StepsOf(run.node),
         step # "return" /\ step # "apply",
         step = "ledger" => \A p \in run.change : Rendered(run, p)
  PROVE  RunOK([run EXCEPT !.step = step])
<1> DEFINE r == [run EXCEPT !.step = step]
<1>1. step \in {"call", "record", "return", "look", "ledger", "poll", "backup",
                "apply", "measure", "over"}
  BY DEF StepsOf, Over
<1>2. run \in Run
  BY DEF Inv, RunOK
<1>3. /\ r \in Run /\ r.step = step /\ r.node = run.node /\ r.change = run.change
      /\ Kept(r)
  BY <1>1, <1>2 DEF Run, Kept
<1> QED
  BY <1>3, KeptOK DEF Inv, RunOK, ApprovedRuns, Backed

LEMMA StepStep ==
  ASSUME Inv, NEW step \in StepsOf(run.node),
         step # "return" /\ step # "apply",
         step = "ledger" => \A p \in run.change : Rendered(run, p),
         Becomes([run EXCEPT !.step = step]),
         UNCHANGED <<candidate, decisions, approval, indexes, crashes, target>>
  PROVE  Inv'
BY StepOK, ProceedStep DEF Becomes

\* A node begins: with nothing, or with what the node before it left.
LEMMA ReasonOK ==
  ASSUME WorldTyped, NEW replans \in 0 .. MaxReplans
  PROVE  RunOK(At("reason", {}, replans))
<1> DEFINE r == At("reason", {}, replans)
<1>1. /\ r \in Run /\ r.node = "reason" /\ r.change = {}
      /\ r.step \in StepsOf("reason")
      /\ r.step \notin {"return", "ledger", "poll", "apply", "measure"}
      /\ Remembers(r)
  BY AtTyped
<1> HIDE DEF r
<1>2. RunOK(r)
  BY <1>1 DEF RunOK, ApprovedRuns, Backed
<1> QED
  BY <1>2 DEF r

LEMMA GateOK ==
  ASSUME Inv, run.change = decisions.last
  PROVE  RunOK(At("gate", run.change, run.replans))
<1>1. run.change \in {{}} \cup {{p} : p \in Change} /\ run.replans \in 0 .. MaxReplans
  BY DEF Inv, RunOK, Run
<1> DEFINE r == At("gate", run.change, run.replans)
<1>2. /\ r \in Run /\ r.node = "gate" /\ r.change = run.change
      /\ r.step \in StepsOf("gate")
      /\ r.step \notin {"return", "ledger", "poll", "apply", "measure"}
      /\ Remembers(r)
  BY <1>1, AtTyped DEF Inv, WorldOK
<1> HIDE DEF r
<1>3. RunOK(r)
  BY <1>2 DEF Inv, RunOK, ApprovedRuns, Backed
<1> QED
  BY <1>3 DEF r

LEMMA ActOK ==
  ASSUME Inv, run.change = decisions.last,
         \A p \in run.change : approval[p] = "approved"
  PROVE  RunOK(At("act", run.change, run.replans))
<1>1. run.change \in {{}} \cup {{p} : p \in Change} /\ run.replans \in 0 .. MaxReplans
  BY DEF Inv, RunOK, Run
<1> DEFINE r == At("act", run.change, run.replans)
<1>2. /\ r \in Run /\ r.node = "act" /\ r.change = run.change
      /\ r.step \in StepsOf("act")
      /\ r.step \notin {"return", "ledger", "poll", "apply", "measure"}
      /\ Remembers(r)
  BY <1>1, AtTyped DEF Inv, WorldOK
<1> HIDE DEF r
<1>3. RunOK(r)
  BY <1>2 DEF Inv, RunOK, ApprovedRuns, Backed
<1> QED
  BY <1>3 DEF r

LEMMA ReplanStep ==
  ASSUME Inv, Replan,
         UNCHANGED <<candidate, decisions, approval, indexes, crashes, target>>
  PROVE  Inv'
<1>1. run.replans + 1 \in 0 .. MaxReplans
  BY ProposalAssumption DEF Replan, Inv, RunOK, Run
<1> QED
  BY <1>1, ReasonOK, ProceedStep DEF Replan, Becomes, Inv, WorldOK

-----------------------------------------------------------------------------
(* The nodes.                                                              *)

LEMMA ReasonPreserves ==
  ASSUME Inv, Reason
  PROVE  Inv'
<1>1. ASSUME NEW p \in Change, Answer(p) PROVE Inv'
  <2>1. CASE Falsified(p)
    BY <1>1, <2>1, NextRoundStep DEF Answer
  <2>2. CASE ~Falsified(p)
    <3> DEFINE r == [run EXCEPT !.step = "record", !.change = {p}]
    <3>1. run' = r /\ run.step = "call"
      BY <1>1, <2>2 DEF Answer, Becomes
    <3>2. run \in Run /\ run.node \notin {"gate", "act"}
      BY <3>1 DEF Inv, RunOK, StepsOf, Over
    <3>3. /\ r \in Run /\ r.step = "record" /\ r.node = run.node /\ r.change = {p}
          /\ Remembers(r)
      BY <3>2, KeptOK DEF Run, Kept
    <3>4. run.node = "reason"
      BY <3>1, <3>2 DEF Inv, RunOK, StepsOf, Run, Over
    <3>5. RunOK(r)
      BY <2>2, <3>2, <3>3, <3>4 DEF RunOK, ApprovedRuns, Backed, StepsOf
    <3> QED
      BY <1>1, <3>1, <3>5, ProceedStep DEF Answer
  <2> QED
    BY <2>1, <2>2
<1>2. CASE AnswerInvalid
  BY <1>2, NextRoundStep DEF AnswerInvalid
<1>3. CASE AnswerRaises
  BY <1>3, StopStep DEF AnswerRaises, Over
<1>4. CASE CallFails
  <2>1. CASE run.attempt < MaxRetries
    <3> DEFINE r == [run EXCEPT !.attempt = @ + 1]
    <3>1. run' = r
      BY <1>4, <2>1 DEF CallFails, Becomes
    <3>2. run \in Run /\ run.attempt + 1 \in 1 .. MaxRetries
      BY <2>1, ProposalAssumption DEF Inv, RunOK, Run
    <3>3. /\ r \in Run /\ r.step = "call" /\ r.node = run.node
          /\ r.change = run.change /\ Kept(r)
      BY <1>4, <3>2 DEF Run, Kept, CallFails
    <3>4. RunOK(r)
      BY <1>4, <3>3, KeptOK DEF CallFails, Inv, RunOK, ApprovedRuns, Backed
    <3> QED
      BY <1>4, <3>1, <3>4, ProceedStep DEF CallFails
  <2>2. CASE ~(run.attempt < MaxRetries)
    BY <1>4, <2>2, StopStep DEF CallFails, Over
  <2> QED
    BY <2>1, <2>2
<1>5. CASE Record
  <2> DEFINE r == [run EXCEPT !.step = "return"]
  <2>1. /\ run' = r /\ run.step = "record"
        /\ decisions' = [all |-> decisions.all \cup run.change, last |-> run.change]
        /\ UNCHANGED <<candidate, approval, indexes, crashes, target>>
    BY <1>5 DEF Record, Becomes
  <2>2. run \in Run /\ run.node = "reason" /\ run.change \subseteq Change
    BY <2>1 DEF Inv, RunOK, StepsOf, Run, Over
  <2>3. /\ r \in Run /\ r.step = "return" /\ r.node = "reason" /\ r.change = run.change
        /\ Remembers(r)
    BY <2>2, KeptOK DEF Run, Kept
  <2>4. WorldOK'
    BY <2>1, <2>2 DEF Inv, WorldOK, WorldTyped, Asked,
                      Falsified, target
  <2>5. RunOK(run)'
    BY <2>1, <2>3 DEF Inv, RunOK, ApprovedRuns, Backed, Remembers, StepsOf, Falsified, target
  <2> QED
    BY <2>4, <2>5 DEF Inv
<1>6. CASE ReasonReturns
  <2>1. run.change = decisions.last
    BY <1>6 DEF ReasonReturns, Inv, RunOK
  <2> QED
    BY <1>6, <2>1, GateOK, ProceedStep DEF ReasonReturns, Goto
<1> QED
  BY <1>1, <1>2, <1>3, <1>4, <1>5, <1>6 DEF Reason

\* What the renderer passes now has columns the table has, whatever its index
\* is called.
LEMMA RendersReal ==
  ASSUME Inv, NEW p \in Proposals, p.table # NoTable, Renders(p, KnownColumns(p))
  PROVE  Rendered(run, p)
<1>1. p.table \in Table /\ p.columns \subseteq Column
  BY DEF Proposals
<1>2. schema[p.table] \subseteq run.existed[p.table]
      /\ (schema[p.table] = {} => p.table \in run.missed)
  BY <1>1 DEF Inv, RunOK, Remembers
<1> QED
  BY <1>1, <1>2 DEF Rendered, Renders, KnownColumns

LEMMA DecideStep ==
  ASSUME Inv, NEW p \in Change, NEW status \in Decided, Decide(p, status)
  PROVE  Inv'
<1>1. /\ approval[p] = "pending" /\ approval' = [approval EXCEPT ![p] = status]
      /\ UNCHANGED <<run, candidate, decisions, indexes, crashes, target>>
  BY DEF Decide
<1>2. approval' \in [Change -> {"none", "pending"} \cup Decided]
  BY <1>1 DEF Inv, WorldOK, WorldTyped
<1>3. \A q \in Change : approval'[q] # "none" => approval[q] # "none"
  BY <1>1 DEF Inv, WorldOK, WorldTyped
<1>4. WorldOK'
  BY <1>1, <1>2, <1>3
  DEF Inv, WorldOK, WorldTyped, Asked, Falsified, target
<1>5. \A q \in run.change : q \in Change
  BY DEF Inv, RunOK, Run
<1>6. ApprovedRuns(run)'
  BY <1>1, <1>5 DEF Inv, RunOK, ApprovedRuns, WorldOK, WorldTyped
<1>7. RunOK(run)'
  BY <1>1, <1>6 DEF Inv, RunOK, Backed, Rendered, Remembers, Falsified, target
<1> QED
  BY <1>4, <1>7 DEF Inv

LEMMA GatePreserves ==
  ASSUME Inv, Gate
  PROVE  Inv'
<1>0. run \in Run
  BY DEF Inv, RunOK
<1>1. CASE Render
  <2>1. PICK p \in run.change :
          IF p.table # NoTable /\ Renders(p, KnownColumns(p))
          THEN Becomes([run EXCEPT !.step = "ledger"])
          ELSE Stop("failed")
    BY <1>1 DEF Render
  <2>2. run.change = {p} /\ p \in Proposals
    BY <1>0, <2>1, ChangeTyped
  <2>3. CASE p.table # NoTable /\ Renders(p, KnownColumns(p))
    <3>1. \A q \in run.change : Rendered(run, q)
      BY <2>2, <2>3, RendersReal
    <3>2. "ledger" \in StepsOf(run.node)
      BY <1>0, <1>1 DEF Render, Inv, RunOK, StepsOf, Run, Over
    <3> QED
      BY <1>1, <2>1, <2>3, <3>1, <3>2, StepStep DEF Render
  <2>4. CASE ~(p.table # NoTable /\ Renders(p, KnownColumns(p)))
    BY <1>1, <2>1, <2>4, StopStep DEF Render, Over
  <2> QED
    BY <2>3, <2>4
<1>2. CASE RequestApproval
  <2> DEFINE r == [run EXCEPT !.step = "poll"]
  <2>1. /\ run' = r /\ run.step = "ledger"
        /\ approval' = [p \in Change |-> IF p \in run.change /\ approval[p] = "none"
                                         THEN "pending" ELSE approval[p]]
        /\ UNCHANGED <<candidate, decisions, indexes, crashes, target>>
    BY <1>2 DEF RequestApproval, Becomes
  <2>2. run.node = "gate" /\ run.change = decisions.last
    BY <1>0, <2>1 DEF Inv, RunOK, StepsOf, Run, Over
  <2>3. /\ r \in Run /\ r.step = "poll" /\ r.node = "gate" /\ r.change = run.change
        /\ Remembers(r)
    BY <1>0, <2>2, KeptOK DEF Run, Kept
  <2>4. \A p \in run.change : Asked(p)
    BY <2>1, <2>2 DEF Inv, RunOK, WorldOK, WorldTyped, Asked, Rendered
  <2>5. \A p \in Change : approval'[p] # "none" => Asked(p)
    BY <2>1, <2>4 DEF Inv, WorldOK
  <2>6. approval' \in [Change -> {"none", "pending"} \cup Decided]
    BY <2>1 DEF Inv, WorldOK, WorldTyped
  <2>7. WorldOK'
    BY <2>1, <2>5, <2>6 DEF Inv, WorldOK, WorldTyped, Asked,
                            Falsified, target
  <2>8. RunOK(run)'
    BY <2>1, <2>3, <2>2 DEF Inv, RunOK, ApprovedRuns, Backed, StepsOf, Remembers,
                            Falsified, target
  <2> QED
    BY <2>7, <2>8 DEF Inv
<1>3. CASE Expire
  <2>1. PICK p \in run.change : Decide(p, "expired")
    BY <1>3 DEF Expire
  <2>2. p \in Change
    BY <1>0, <2>1, ChangeTyped
  <2> QED
    BY <2>1, <2>2, DecideStep DEF Decided
<1>4. CASE GateReturns
  <2>1. PICK p \in run.change :
          /\ approval[p] \in Decided
          /\ CASE approval[p] = "approved" -> Goto("act", run.change)
              [] approval[p] = "rejected" /\ run.replans < MaxReplans -> Replan
              [] OTHER -> Stop("done")
    BY <1>4 DEF GateReturns
  <2>2. run.change = {p}
    BY <1>0, <2>1, ChangeTyped
  <2>3. run.node = "gate" /\ run.change = decisions.last
    BY <1>0, <1>4, <2>1 DEF GateReturns, Inv, RunOK, StepsOf, Run, Over
  <2>4. CASE approval[p] = "approved"
    <3>1. run' = At("act", run.change, run.replans)
      BY <2>1, <2>4 DEF Goto
    <3> QED
      BY <1>4, <2>2, <2>3, <2>4, <3>1, ActOK, ProceedStep DEF GateReturns
  <2>5. CASE approval[p] = "rejected" /\ run.replans < MaxReplans
    BY <1>4, <2>1, <2>5, ReplanStep DEF GateReturns
  <2>6. CASE approval[p] # "approved" /\ ~(approval[p] = "rejected" /\ run.replans < MaxReplans)
    BY <1>4, <2>1, <2>6, StopStep DEF GateReturns, Over
  <2> QED
    BY <2>4, <2>5, <2>6
<1> QED
  BY <1>1, <1>2, <1>3, <1>4 DEF Gate

LEMMA ActPreserves ==
  ASSUME Inv, Act
  PROVE  Inv'
<1>0. run \in Run
  BY DEF Inv, RunOK
<1>1. CASE CheckBackup
  <2>1. CASE BackupRecent /\ Becomes([run EXCEPT !.step = "apply"])
    <3> DEFINE r == [run EXCEPT !.step = "apply"]
    <3>1. run' = r /\ now \in 0 .. MaxTime /\ run.step = "backup"
      BY <1>1, <2>1 DEF CheckBackup, Becomes, Inv, WorldOK, WorldTyped
    <3>2. run.node = "act"
      BY <1>0, <3>1 DEF Inv, RunOK, StepsOf, Run, Over
    <3>3. /\ r \in Run /\ r.step = "apply" /\ r.node = "act" /\ r.change = run.change
          /\ Remembers(r)
      BY <1>0, <3>2, KeptOK DEF Run, Kept
    <3>4. Backed(r)
      <4>1. PICK b \in backups : now - b <= Window
        BY <2>1 DEF BackupRecent
      <4>2. now \in Nat /\ b \in Nat /\ r.began \in Nat /\ r.began <= now /\ Window \in Nat
        BY <3>3, ProposalAssumption DEF Inv, WorldOK, WorldTyped, Run, Remembers
      <4> QED
        BY <4>1, <4>2 DEF Backed
    <3>5. RunOK(r)
      BY <3>2, <3>3, <3>4 DEF Inv, RunOK, ApprovedRuns, StepsOf
    <3> QED
      BY <1>1, <3>1, <3>5, ProceedStep DEF CheckBackup
  <2>2. CASE Stop("parked")
    BY <1>1, <2>2, StopStep DEF CheckBackup, Over
  <2> QED
    BY <1>1, <2>1, <2>2 DEF CheckBackup
<1>2. CASE Apply
  <2>1. PICK p \in run.change :
          IF \/ schema[p.table] = {}
             \/ p.kind = "create_index" /\ ~(p.columns \subseteq schema[p.table])
          THEN Stop("failed") /\ UNCHANGED indexes
          ELSE /\ indexes' = IF p.kind = "create_index" /\ ~NameTaken(p)
                             THEN indexes \cup {IndexOf(p)} ELSE indexes
               /\ Becomes([run EXCEPT !.step = "measure"])
    BY <1>2 DEF Apply
  <2>2. run.node = "act" /\ p \in Proposals
    BY <1>0, <1>2, <2>1, ChangeTyped DEF Apply, Inv, RunOK, StepsOf, Run, Over
  <2>3. p.table \in Table /\ p.columns \subseteq Column
    BY <1>0, <2>1, <2>2, ChangeTyped DEF Inv, RunOK, WorldOK, ApprovedRuns, Asked, Proposals
  <2>4. CASE Stop("failed") /\ UNCHANGED indexes
    BY <1>2, <2>4, StopStep DEF Apply, Over
  <2>5. CASE ~(Stop("failed") /\ UNCHANGED indexes)
    <3> DEFINE r == [run EXCEPT !.step = "measure"]
    <3>1. run' = r /\ indexes' \subseteq indexes \cup {IndexOf(p)}
      BY <2>1, <2>5 DEF Becomes
    <3>2. run.step = "apply" /\ UNCHANGED <<candidate, decisions, approval, crashes, target>>
      BY <1>2 DEF Apply
    <3>3. /\ r \in Run /\ r.step = "measure" /\ r.node = "act"
          /\ r.change = run.change /\ Remembers(r)
      BY <1>0, <2>2, KeptOK DEF Run, Kept
    <3>4. \A i \in indexes' : i.table \in Table /\ i.columns \subseteq Column
      BY <2>3, <3>1 DEF IndexOf, Inv, WorldOK, WorldTyped
    <3>5. WorldOK'
      BY <3>2, <3>4 DEF Inv, WorldOK, WorldTyped, Asked,
                        Falsified, target
    <3>6. RunOK(run)'
      BY <2>2, <3>1, <3>2, <3>3 DEF Inv, RunOK, ApprovedRuns, Backed, StepsOf,
                                    Remembers, Falsified, target
    <3> QED
      BY <3>5, <3>6 DEF Inv
  <2> QED
    BY <2>4, <2>5
<1>3. CASE Measure
  <2>1. CASE Stop("done")
    BY <1>3, <2>1, StopStep DEF Measure, Over
  <2>2. CASE Replan
    BY <1>3, <2>2, ReplanStep DEF Measure
  <2> QED
    BY <1>3, <2>1, <2>2 DEF Measure
<1> QED
  BY <1>1, <1>2, <1>3 DEF Act

-----------------------------------------------------------------------------
(* The rest of the world.                                                  *)

LEMMA CrashPreserves ==
  ASSUME Inv, Crash
  PROVE  Inv'
<1>1. /\ run \in Run /\ run.replans \in 0 .. MaxReplans /\ UNCHANGED world
      /\ run.node \in {"reason", "gate", "act"}
  BY DEF Crash, world, Inv, RunOK, Run
<1>2. crashes' \in 0 .. MaxCrashes
  BY ProposalAssumption DEF Crash, Inv, WorldOK, WorldTyped
<1>3. CASE run.node = "reason"
  BY <1>1, <1>2, <1>3, ReasonOK, RunStep DEF Crash, Goto, Inv, WorldOK
<1>4. CASE run.node = "gate"
  <2>1. run.change = decisions.last
    BY <1>4 DEF Inv, RunOK
  <2>2. run' = At("gate", run.change, run.replans)
    BY <1>4 DEF Crash, Goto
  <2> QED
    BY <1>1, <1>2, <2>1, <2>2, GateOK, RunStep
<1>5. CASE run.node = "act"
  <2>1. /\ run.change = decisions.last
        /\ \A p \in run.change : approval[p] = "approved"
    BY <1>5 DEF Inv, RunOK, ApprovedRuns
  <2>2. run' = At("act", run.change, run.replans)
    BY <1>5 DEF Crash, Goto
  <2> QED
    BY <1>1, <1>2, <2>1, <2>2, ActOK, RunStep
<1> QED
  BY <1>1, <1>3, <1>4, <1>5

\* A migration of the target: the history grows, so what was rendered then is
\* rendered still.
LEMMA SchemaPreserves ==
  ASSUME Inv, NEW t \in Table, NEW columns \in SUBSET Column, SchemaChanges(t, columns)
  PROVE  Inv'
<1> DEFINE r == [run EXCEPT !.existed[t] = @ \cup columns,
                            !.missed = IF columns = {} THEN @ \cup {t} ELSE @]
<1>1. /\ schema' = [schema EXCEPT ![t] = columns]
      /\ run' = r
      /\ indexes' \subseteq indexes
      /\ UNCHANGED <<candidate, decisions, approval, backups, now, crashes>>
  BY DEF SchemaChanges, Becomes
<1>2. changes' \in 0 .. MaxChanges
  BY ProposalAssumption DEF SchemaChanges, Inv, WorldOK, WorldTyped
<1>3. WorldTyped'
  BY <1>1, <1>2 DEF Inv, WorldOK, WorldTyped
<1>4. \A p \in Change : approval'[p] # "none" => Asked(p)'
  BY <1>1 DEF Inv, WorldOK, Asked, Falsified
<1>5. run \in Run /\ run.existed \in [Table -> SUBSET Column] /\ run.missed \subseteq Table
  BY DEF Inv, RunOK, Run
<1>6. /\ r \in Run /\ r.node = run.node /\ r.step = run.step /\ r.change = run.change
      /\ r.began = run.began
      /\ r.existed = [run.existed EXCEPT ![t] = @ \cup columns]
      /\ r.missed = IF columns = {} THEN run.missed \cup {t} ELSE run.missed
  BY <1>5 DEF Run
<1>7. PICK q : q = r
  OBVIOUS
<1> HIDE DEF r
<1>8. /\ \A u \in Table : run.existed[u] \subseteq q.existed[u]
      /\ run.missed \subseteq q.missed
  BY <1>5, <1>6, <1>7
<1>9. ASSUME NEW p, Rendered(run, p) PROVE Rendered(q, p)
  BY <1>8, <1>9 DEF Rendered
<1>10. Remembers(q)'
  <2>1. q.began <= now'
    BY <1>1, <1>6, <1>7 DEF Inv, RunOK, Remembers
  <2>2. ASSUME NEW u \in Table
        PROVE  schema'[u] \subseteq q.existed[u] /\ (schema'[u] = {} => u \in q.missed)
    <3>1. schema[u] \subseteq run.existed[u] /\ (schema[u] = {} => u \in run.missed)
      BY DEF Inv, RunOK, Remembers
    <3>2. schema \in [Table -> SUBSET Column]
      BY DEF Inv, WorldOK, WorldTyped
    <3>3. CASE u = t
      BY <1>1, <1>5, <1>6, <1>7, <3>2, <3>3
    <3>4. CASE u # t
      BY <1>1, <1>8, <3>1, <3>2, <3>4
    <3> QED
      BY <3>3, <3>4
  <2> QED
    BY <2>1, <2>2 DEF Remembers
<1>11. RunOK(q)'
  BY <1>1, <1>6, <1>7, <1>9, <1>10 DEF Inv, RunOK, ApprovedRuns, Backed, Rendered, Falsified
<1>12. run' = q
  BY <1>1, <1>7
<1>13. RunOK(run)'
  BY <1>11, <1>12 DEF RunOK, ApprovedRuns, Backed, Rendered, Remembers, Falsified
<1> QED
  BY <1>3, <1>4, <1>13 DEF Inv, WorldOK

LEMMA TimePasses ==
  ASSUME Inv, Tick \/ Backup
  PROVE  Inv'
<1>1. /\ now' \in 0 .. MaxTime /\ backups' \subseteq 0 .. MaxTime
      /\ backups \subseteq backups' /\ now <= now'
  <2>1. now \in 0 .. MaxTime /\ MaxTime \in Nat /\ backups \subseteq 0 .. MaxTime
    BY ProposalAssumption DEF Inv, WorldOK, WorldTyped
  <2>2. CASE Tick
    BY <2>1, <2>2 DEF Tick
  <2>3. CASE Backup
    BY <2>1, <2>3 DEF Backup
  <2> QED
    BY <2>2, <2>3
<1>2. UNCHANGED <<run, candidate, decisions, approval, schema, indexes, changes,
                  crashes>>
  BY DEF Tick, Backup
<1>3. WorldOK'
  BY <1>1, <1>2 DEF Inv, WorldOK, WorldTyped, Asked, Falsified
<1>4. run.began <= now'
  <2>1. now \in Nat /\ now' \in Nat /\ run.began \in Nat /\ run.began <= now
    BY <1>1, ProposalAssumption DEF Inv, WorldOK, WorldTyped, RunOK, Run, Remembers
  <2> QED
    BY <1>1, <2>1
<1>5. RunOK(run)'
  BY <1>1, <1>2, <1>4 DEF Inv, RunOK, ApprovedRuns, Backed, Rendered, Remembers, Falsified
<1> QED
  BY <1>3, <1>5 DEF Inv

LEMMA NextInv == Inv /\ [Next]_vars => Inv'
<1> SUFFICES ASSUME Inv, [Next]_vars PROVE Inv'
  OBVIOUS
<1>1. CASE Proceeds
  BY <1>1, ReasonPreserves, GatePreserves, ActPreserves DEF Proceeds
<1>2. CASE StatementFails
  BY <1>2, StopStep DEF StatementFails, Over
<1>3. CASE Crash
  BY <1>3, CrashPreserves
<1>4. ASSUME NEW p \in Change, NEW status \in {"approved", "rejected"}, Decide(p, status)
      PROVE  Inv'
  BY <1>4, DecideStep DEF Decided
<1>5. ASSUME NEW t \in Table, NEW columns \in SUBSET Column, SchemaChanges(t, columns)
      PROVE  Inv'
  BY <1>5, SchemaPreserves
<1>6. CASE Tick \/ Backup
  BY <1>6, TimePasses
<1>7. CASE UNCHANGED vars
  BY <1>7 DEF vars, Inv, WorldOK, WorldTyped, Asked, Falsified,
              RunOK, ApprovedRuns, Backed, Rendered, Remembers
<1> QED
  BY <1>1, <1>2, <1>3, <1>4, <1>5, <1>6, <1>7 DEF Next

LEMMA InitInv == Init => Inv
<1> SUFFICES ASSUME Init PROVE Inv
  OBVIOUS
<1>1. schema \in [Table -> SUBSET Column]
  BY ProposalAssumption DEF Init
<1>2. candidate \subseteq Column
  BY <1>1 DEF Init
<1>3. 0 \in 0 .. MaxTime /\ 0 \in 0 .. MaxChanges /\ 0 \in 0 .. MaxCrashes
      /\ 0 \in 0 .. MaxReplans
  BY ProposalAssumption
<1>4. WorldOK
  BY <1>1, <1>2, <1>3 DEF Init, WorldOK, WorldTyped
<1>5. RunOK(run)
  BY <1>3, <1>4, ReasonOK DEF Init, WorldOK
<1> QED
  BY <1>4, <1>5 DEF Inv

LEMMA Invariance == Spec => []Inv
BY InitInv, NextInv, PTL DEF Spec

-----------------------------------------------------------------------------
(* Theorems.                                                               *)

\* The run, the ledger's rows, the target and the history keep their types.
THEOREM TypeCorrect == Spec => []TypeOK
<1>1. Inv => TypeOK
  BY DEF Inv, WorldOK, WorldTyped, RunOK, TypeOK
<1> QED
  BY Invariance, <1>1, PTL

\* What waits at the gate, or runs, is the last proposal the audit trail has
\* recorded, and the optimizer contradicts nothing a human was asked about.
THEOREM AuditExplains == Spec => []GatedIsRecorded
<1>1. Inv => GatedIsRecorded
  BY DEF Inv, WorldOK, RunOK, Asked, GatedIsRecorded
<1> QED
  BY Invariance, <1>1, PTL

\* The renderer's look at the target is this execution's own: what a human is
\* asked about has been there since the gate began, but for tables that were
\* missing meanwhile.
THEOREM LooksAreReal == Spec => ColumnsWereReal
<1>1. ASSUME Inv, [Next]_vars, NEW p \in Change, Asks(p),
             p.kind = "create_index", p.table \notin run.missed
      PROVE  p.columns \subseteq run.existed[p.table]
  <2>1. approval'[p] # approval[p]
    BY <1>1 DEF Asks
  <2>2. CASE Expire \/ \E q \in Change : \E status \in {"approved", "rejected"} :
                           Decide(q, status)
    <3>1. PICK q, status : approval[q] = "pending"
                           /\ approval' = [approval EXCEPT ![q] = status]
      BY <2>2 DEF Expire, Decide
    <3> QED
      BY <1>1, <3>1 DEF Asks, Inv, WorldOK, WorldTyped
  <2>3. CASE RequestApproval
    <3>1. p \in run.change /\ run.step = "ledger"
      BY <1>1, <2>1, <2>3 DEF RequestApproval
    <3> QED
      BY <1>1, <3>1 DEF Inv, RunOK, Rendered
  <2>4. CASE Reason \/ Render \/ GateReturns \/ Act \/ StatementFails \/ Crash
    BY <2>1, <2>4 DEF Reason, Answer, AnswerInvalid, AnswerRaises, CallFails, Record,
                      ReasonReturns, Render, GateReturns, Act, CheckBackup, Apply,
                      Measure, StatementFails, Crash
  <2>5. CASE UNCHANGED vars \/ Tick \/ Backup
             \/ \E t \in Table : \E columns \in SUBSET Column : SchemaChanges(t, columns)
    BY <2>1, <2>5 DEF vars, Tick, Backup, SchemaChanges
  <2> QED
    BY <1>1, <2>2, <2>3, <2>4, <2>5 DEF Next, Proceeds, Gate
<1>2. Inv /\ [Next]_vars
        => [\A p \in Change : Asks(p) /\ p.kind = "create_index" /\ p.table \notin run.missed
                                => p.columns \subseteq run.existed[p.table]]_vars
  BY <1>1
<1> QED
  BY Invariance, <1>2, PTL DEF Spec, ColumnsWereReal

\* What act_measure puts on the target was approved and recorded, and a backup
\* was inside the window when the execution that puts it there began, or later:
\* a resumed node judges again.
THEOREM ClearedFirst == Spec => StatementIsCleared
<1>1. ASSUME Inv, [Next]_vars, NEW i \in indexes' \ indexes
      PROVE  /\ \E p \in decisions.all : i = IndexOf(p) /\ approval[p] = "approved"
             /\ \E b \in backups : run.began - b <= Window
  <2>1. Apply
    BY <1>1 DEF Next, Proceeds, Reason, Answer, AnswerInvalid, AnswerRaises,
                CallFails, Record, ReasonReturns, Gate, Render, RequestApproval, Expire,
                Decide, GateReturns, Act, CheckBackup, Measure, StatementFails,
                Crash, SchemaChanges, Tick, Backup, vars
  <2>2. PICK p \in run.change : indexes' \subseteq indexes \cup {IndexOf(p)}
    BY <2>1 DEF Apply
  <2>3. run.step = "apply" /\ run.node = "act" /\ run \in Run
    BY <1>1, <2>1 DEF Apply, Inv, RunOK, StepsOf, Run, Over
  <2>4. p \in decisions.all /\ approval[p] = "approved"
    BY <1>1, <2>2, <2>3 DEF Inv, RunOK, ApprovedRuns, WorldOK, WorldTyped
  <2> QED
    BY <1>1, <2>2, <2>3, <2>4 DEF Inv, RunOK, Backed
<1>2. Inv /\ [Next]_vars
        => [\A i \in indexes' \ indexes :
              /\ \E p \in decisions.all : i = IndexOf(p) /\ approval[p] = "approved"
              /\ \E b \in backups : run.began - b <= Window]_vars
  BY <1>1
<1> QED
  BY Invariance, <1>2, PTL DEF Spec, StatementIsCleared

\* act_measure is entered, and after a death entered again, with an approval
\* that is still one.
THEOREM ApprovedFirst == Spec => []ApprovedRuns(run)
<1>1. Inv => ApprovedRuns(run)
  BY DEF Inv, RunOK
<1> QED
  BY Invariance, <1>1, PTL
=============================================================================
