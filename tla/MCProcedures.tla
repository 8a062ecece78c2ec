---------------------------- MODULE MCProcedures ----------------------------
EXTENDS Procedures, TLC

CONSTANTS s1, a, b, a1, a2, b1, b2, w1, w2, d1, d2

\* Scope s1 has episodes for two procedures.
MCScopeOf == [e \in Episode |-> s1]
MCNameOf == [e \in Episode |-> IF e \in {b1, b2} THEN b ELSE a]

Symmetric == Permutations(Worker) \cup Permutations(Decayer)
=============================================================================
