------------------------------- MODULE Lease -------------------------------
(***************************************************************************)
(* The lease on one task: its row in agent_leases, the statements of       *)
(* agent/memory/db.py that touch the row, and the LeaseHandle objects of   *)
(* agent/memory/leases.py with their background renew loops.               *)
(*                                                                         *)
(* Every statement has task_id = $1 in its WHERE clause, so the rows of    *)
(* different tasks do not interact and one row is modelled.  A process has *)
(* one handle at a time (consume_loop takes one message at a time) and a   *)
(* restarted process has a new holder_id, so a crashed one never returns.  *)
(*                                                                         *)
(* Time is kept as what is left of each delay: row.left is expires_at -    *)
(* now(), saturating at -1, and handle[p].due is the rest of the sleep     *)
(* that process p is in.  Every action is instantaneous; Tick passes time. *)
(***************************************************************************)
EXTENDS Integers

CONSTANTS
  Proc,         \* agent processes, each with its own holder_id
  NoProc,       \* the holder of no row
  TTL,          \* DEFAULT_LEASE_TTL_S
  RenewEvery,   \* DEFAULT_RENEW_INTERVAL_S
  RenewLag,     \* how late a renewal may run: event loop, pool and network
  MinJitter,    \* DEFAULT_JITTER_S
  MaxJitter,
  MaxAttempts,  \* DEFAULT_MAX_ATTEMPTS
  MaxFence      \* bound: takeovers of one row, for TLC

ASSUME LeaseConstants ==
  /\ NoProc \notin Proc
  /\ TTL \in Nat \ {0}
  /\ RenewEvery \in Nat \ {0}
  /\ RenewLag \in Nat
  /\ MinJitter \in Nat
  /\ MaxJitter \in Nat
  /\ MinJitter <= MaxJitter
  /\ MaxAttempts \in Nat \ {0}
  /\ MaxFence \in Nat \ {0}

VARIABLES
  row,          \* the agent_leases row
  handle        \* per process: the acquisition or the handle it is in

vars == <<row, handle>>

NoRow == [holder |-> NoProc, fence |-> 0, left |-> -1]

Row == [holder : Proc, fence : 1..MaxFence, left : -1..TTL] \cup {NoRow}

Idle == [pc |-> "idle", fence |-> 0, lost |-> FALSE, renewer |-> "off",
         due |-> 0, tries |-> 0]

Handle == [pc      : {"idle", "trying", "held", "releasing", "dead"},
           fence   : 0..MaxFence,
           lost    : BOOLEAN,                \* LeaseHandle._lost
           renewer : {"off", "on", "failed"},\* LeaseHandle._renew_task
           due     : Int,
           tries   : 0..MaxAttempts]

TypeOK == row \in Row /\ handle \in [Proc -> Handle]

Init == row = NoRow /\ handle = [p \in Proc |-> Idle]

-----------------------------------------------------------------------------
(* The four statements of db.py. *)

RowExists == row.holder # NoProc

\* expires_at < now()
Expired == row.left < 0

\* Faults: definitions named ...Fault are plausible bugs in the definition
\* that follows them.  No specification uses them; they show that a property
\* can fail.

\* Fault: the UPDATE forgets its expires_at < now().
TakeOverLiveFault == RowExists /\ row.fence < MaxFence

\* UPDATE ... SET fence_token = fence_token + 1 WHERE expires_at < now()
CanTakeOver == RowExists /\ Expired /\ row.fence < MaxFence

\* INSERT ... VALUES (..., 1, ...) ON CONFLICT (task_id) DO NOTHING
CanInsert == ~RowExists

NextFence == row.fence + 1      \* NoRow has fence 0, so an INSERT writes 1

\* WHERE task_id AND holder_id AND fence_token, the renewal's CAS
RenewMatches(p) == row.holder = p /\ row.fence = handle[p].fence

\* Fault: the DELETE forgets its holder_id.
DeleteAnyFault(p) == RowExists

\* WHERE task_id AND holder_id, the release's DELETE
DeleteMatches(p) == row.holder = p

-----------------------------------------------------------------------------
(* leases.acquire: up to MaxAttempts attempts, a jittered sleep after each. *)

Begin(p) ==
  /\ handle[p].pc = "idle"
  /\ handle' = [handle EXCEPT ![p] = [Idle EXCEPT !.pc = "trying"]]
  /\ UNCHANGED row

Win(p) ==
  /\ row' = [holder |-> p, fence |-> NextFence, left |-> TTL]
  /\ handle' = [handle EXCEPT ![p] =
       [Idle EXCEPT !.pc = "held", !.fence = NextFence, !.renewer = "on",
                    !.due = RenewEvery]]

\* Fault: one attempt too many.
AttemptOnceMoreFault(p) ==
  /\ handle[p].pc = "trying"
  /\ handle[p].due <= 0
  /\ handle[p].tries <= MaxAttempts

Attempting(p) ==
  /\ handle[p].pc = "trying"
  /\ handle[p].due <= 0
  /\ handle[p].tries < MaxAttempts

TakeOver(p) == Attempting(p) /\ CanTakeOver /\ Win(p)

Insert(p) == Attempting(p) /\ CanInsert /\ Win(p)

\* Fault: the loop does not count its attempts.
BackOffForeverFault(p) ==
  /\ Attempting(p)
  /\ RowExists /\ ~Expired
  /\ \E jitter \in MinJitter..MaxJitter :
       handle' = [handle EXCEPT ![p].due = jitter]
  /\ UNCHANGED row

BackOff(p) ==
  /\ Attempting(p)
  /\ RowExists /\ ~Expired
  /\ \E jitter \in MinJitter..MaxJitter :
       handle' = [handle EXCEPT ![p].tries = @ + 1, ![p].due = jitter]
  /\ UNCHANGED row

\* LeaseAcquireTimeoutError, after the sleep that follows the last attempt.
GiveUp(p) ==
  /\ handle[p].pc = "trying"
  /\ handle[p].due <= 0
  /\ handle[p].tries = MaxAttempts
  /\ handle' = [handle EXCEPT ![p] = Idle]
  /\ UNCHANGED row

-----------------------------------------------------------------------------
(* LeaseHandle: the renew loop, and release(). *)

RenewDue(p) ==
  /\ handle[p].pc = "held"
  /\ handle[p].renewer = "on"
  /\ handle[p].due <= 0

\* Fault: the renewal sets renewed_at and leaves expires_at alone.
RenewNothingFault(p) ==
  /\ RenewDue(p)
  /\ RenewMatches(p)
  /\ handle' = [handle EXCEPT ![p].due = RenewEvery]
  /\ UNCHANGED row

Renew(p) ==
  /\ RenewDue(p)
  /\ RenewMatches(p)
  /\ row' = [row EXCEPT !.left = TTL]
  /\ handle' = [handle EXCEPT ![p].due = RenewEvery]

\* Fault: the loop takes a stale lease for a transient error and tries again.
RenewStaleRetriesFault(p) ==
  /\ RenewDue(p)
  /\ ~RenewMatches(p)
  /\ handle' = [handle EXCEPT ![p].due = RenewEvery]
  /\ UNCHANGED row

\* StaleLeaseError: the loop sets _lost and ends.
RenewStale(p) ==
  /\ RenewDue(p)
  /\ ~RenewMatches(p)
  /\ handle' = [handle EXCEPT ![p].lost = TRUE, ![p].renewer = "off"]
  /\ UNCHANGED row

\* Fault: the loop takes any error for the loss of the lease.
RenewErrorLosesFault(p) ==
  /\ RenewDue(p)
  /\ handle' = [handle EXCEPT ![p].lost = TRUE, ![p].renewer = "off"]
  /\ UNCHANGED row

\* Any other exception ends the loop too, and nothing sets _lost.
RenewError(p) ==
  /\ RenewDue(p)
  /\ handle' = [handle EXCEPT ![p].renewer = "failed"]
  /\ UNCHANGED row

\* release() with the lease lost, or with a loop that ended in an exception,
\* which `await self._renew_task` raises again before the DELETE is reached.
ReleaseNothing(p) ==
  /\ handle[p].pc = "held"
  /\ handle[p].lost \/ handle[p].renewer = "failed"
  /\ handle' = [handle EXCEPT ![p] = Idle]
  /\ UNCHANGED row

\* release() of a lease believed valid: cancel the loop, then DELETE.
Release(p) ==
  /\ handle[p].pc = "held"
  /\ ~handle[p].lost
  /\ handle[p].renewer = "on"
  /\ handle' = [handle EXCEPT ![p].pc = "releasing", ![p].renewer = "off"]
  /\ UNCHANGED row

Delete(p) ==
  /\ handle[p].pc = "releasing"
  /\ row' = IF DeleteMatches(p) THEN NoRow ELSE row
  /\ handle' = [handle EXCEPT ![p] = Idle]

DeleteError(p) ==
  /\ handle[p].pc = "releasing"
  /\ handle' = [handle EXCEPT ![p] = Idle]
  /\ UNCHANGED row

\* SIGKILL, `aws ecs stop-task`: the row is left to expire.
Crash(p) ==
  /\ handle[p].pc # "dead"
  /\ handle' = [handle EXCEPT ![p] = [Idle EXCEPT !.pc = "dead"]]
  /\ UNCHANGED row

-----------------------------------------------------------------------------
\* The delays that run: the renew loop's sleep and the acquirer's back-off.
Sleeping(p) ==
  \/ handle[p].pc = "held" /\ handle[p].renewer = "on"
  \/ handle[p].pc = "trying" /\ handle[p].due > 0

\* Time passes; a renewal runs at most RenewLag late.
Tick ==
  /\ \A p \in Proc :
       handle[p].pc = "held" /\ handle[p].renewer = "on"
         => handle[p].due > -RenewLag
  /\ row' = [row EXCEPT !.left = IF Expired THEN @ ELSE @ - 1]
  /\ handle' = [p \in Proc |-> IF Sleeping(p)
                                 THEN [handle[p] EXCEPT !.due = @ - 1]
                                 ELSE handle[p]]

Acquire(p) == TakeOver(p) \/ Insert(p) \/ BackOff(p) \/ GiveUp(p)
RenewLoop(p) == Renew(p) \/ RenewStale(p) \/ RenewError(p)
EndHold(p) == ReleaseNothing(p) \/ Release(p) \/ Delete(p) \/ DeleteError(p)

Next ==
  \/ \E p \in Proc :
       Begin(p) \/ Acquire(p) \/ RenewLoop(p) \/ EndHold(p) \/ Crash(p)
  \/ Tick

Spec == Init /\ [][Next]_vars

(* The event loop of a process that runs gets to its timers, and the       *)
(* clock moves.  Nothing obliges a caller to start, to finish or to crash. *)
Fairness ==
  /\ WF_vars(Tick)
  /\ \A p \in Proc : WF_vars(Acquire(p)) /\ WF_vars(RenewLoop(p))

FairSpec == Spec /\ Fairness

-----------------------------------------------------------------------------
(* Properties. *)

\* p works under a lease whose renew loop runs.
Working(p) ==
  handle[p].pc = "held" /\ ~handle[p].lost /\ handle[p].renewer = "on"

\* p holds a handle that no longer is the row's tenure.
Displaced(p) == handle[p].pc = "held" /\ ~RenewMatches(p)

(* At most one process works on the task under a lease it renews, whatever *)
(* the interleaving of crashes, takeovers, releases and failing renewals,  *)
(* as long as a renewal that is due runs within TTL - RenewEvery.          *)
WorkersExclusive ==
  \A p, q \in Proc : Working(p) /\ Working(q) => p = q

(* A holder that renews in time keeps its row: no takeover, insert or      *)
(* release of another process ever takes a lease from under it.            *)
HolderKeepsLease == \A p \in Proc : Working(p) => RenewMatches(p)

\* A statement changed the row, as opposed to the clock.
RowTouched ==
  row'.holder # row.holder \/ row'.fence # row.fence \/ row'.left > row.left

(* Until it expires, a row is changed by its holder alone: others neither  *)
(* delete it (release's DELETE), nor extend it (a stale renewal), nor take *)
(* it over.  It does not depend on how late renewals run.                  *)
LiveRowIsOwners ==
  [][\A p \in Proc :
       row.holder = p /\ ~Expired /\ RowTouched => handle'[p] # handle[p]]_vars

(* A handle reports its lease lost only when the row is not its own any    *)
(* more, and the row never becomes its own again.                          *)
LostIsLost ==
  \A p \in Proc : handle[p].pc = "held" /\ handle[p].lost => ~RenewMatches(p)

(* A process displaced while its renew loop runs finds out (the CAS of     *)
(* renew_lease fails), ends its work, or is in an error of the loop.       *)
DisplacedLearns ==
  \A p \in Proc :
    Displaced(p) /\ Working(p) ~> ~(Displaced(p) /\ Working(p))

(* leases.acquire ends: it wins the row or raises the timeout (or the row  *)
(* has reached the bound on takeovers).                                    *)
AcquireEnds ==
  \A p \in Proc :
    handle[p].pc = "trying" ~> handle[p].pc # "trying" \/ row.fence = MaxFence

(* leases.py: the renew loop reports the lease "the moment the lease is    *)
(* actually gone": a handle whose row went to another is marked lost.      *)
DisplacedIsMarkedLost ==
  \A p \in Proc :
    Displaced(p) ~> handle[p].lost \/ handle[p].pc # "held"

(* The lease implements mutual exclusion of the processes that work.       *)
Exclusion == INSTANCE Mutex WITH working <- {p \in Proc : Working(p)}
ImplementsMutex == Exclusion!Spec
=============================================================================
