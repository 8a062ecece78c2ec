------------------------------- MODULE Mutex -------------------------------
(***************************************************************************)
(* What a lease promises, with the table, the clock and the tokens left    *)
(* out: at any time at most one process works on the task.  Lease.tla is   *)
(* shown to implement this specification.                                  *)
(***************************************************************************)
CONSTANT Proc
VARIABLE working        \* the processes that work on the task

Init == working = {}

\* p starts to work, which nobody else is doing.
Enter(p) == working = {} /\ working' = {p}

\* p stops: it finished, crashed, or learnt that its lease is gone.
Leave(p) == p \in working /\ working' = working \ {p}

Next == \E p \in Proc : Enter(p) \/ Leave(p)

Spec == Init /\ [][Next]_working
=============================================================================
