--------------------------- MODULE MCRemediation ---------------------------
(***************************************************************************)
(* Instances of Remediation for TLC: one change that helps every query and *)
(* one that helps none, so that both verdicts, both re-plan edges and two  *)
(* runs proposing the same change all occur.                               *)
(***************************************************************************)
EXTENDS Remediation

CONSTANTS t1, t2, good, bad

(* The useful change is useful to every run. *)
OneGoodChange == [t \in Task |-> {good}]
=============================================================================
