----------------------------- MODULE Lifecycle -----------------------------
(***************************************************************************)
(* What the remediation ledger promises of every proposed change, whoever  *)
(* proposes it, however often a run dies: design/02-low-level-design.md    *)
(* section 8.2.  A change is proposed once, decided once, and reaches the  *)
(* target cluster only after it was approved and then committed to the     *)
(* ledger; only a change that is on the target is ever measured, and a     *)
(* refused one is closed as skipped and goes nowhere else.                 *)
(***************************************************************************)
CONSTANT Key       \* the canonical changes, one ledger row for each

VARIABLE stage     \* how far each change has come

Stages == {"absent", "proposed", "approved", "refused", "skipped",
           "applied", "changed", "measured"}

(* The edges of the ledger's state machine. *)
Edges == { <<"absent", "proposed">>,
           <<"proposed", "approved">>, <<"proposed", "refused">>,
           <<"refused", "skipped">>,
           <<"approved", "applied">>, <<"applied", "changed">>,
           <<"changed", "measured">> }

Init == stage = [k \in Key |-> "absent"]

Advance(k) == \E s \in Stages : /\ <<stage[k], s>> \in Edges
                                /\ stage' = [stage EXCEPT ![k] = s]

Next == \E k \in Key : Advance(k)

Spec == Init /\ [][Next]_stage
=============================================================================
