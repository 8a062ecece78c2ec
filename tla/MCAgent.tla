------------------------------ MODULE MCAgent ------------------------------
(***************************************************************************)
(* Instances of Agent for TLC: two processes and the messages of one       *)
(* watched query, which are in one FIFO group.                             *)
(***************************************************************************)
EXTENDS Agent, TLC

OneQuery == [m \in Msg |-> "watched"]

ProcSymmetric == Permutations(Proc)
=============================================================================
