------------------------------ MODULE MCLease ------------------------------
(* Instances of Lease for TLC: two or three processes, a TTL of a few      *)
(* renewal intervals.  lease_timely keeps the code's proportions (renewals *)
(* every quarter of the TTL, acquirers that wait between a third of it and *)
(* all of it); lease_late lets a renewal run later than the TTL.           *)
EXTENDS Lease, TLC

Symmetric == Permutations(Proc)
=============================================================================
