---------------------------- MODULE LeaseProofs ----------------------------
(***************************************************************************)
(* Theorems about Lease, for every set of processes and every value of the *)
(* delays.  Mutual exclusion needs one assumption on them, RenewInTime: a  *)
(* renewal that is due runs before the TTL of the previous one is over.    *)
(***************************************************************************)
EXTENDS Lease, TLAPS

RenewInTime == RenewEvery + RenewLag <= TTL

(***************************************************************************)
(* The inductive invariant behind mutual exclusion: the row of a process   *)
(* that works is its own, and what is left of it is the TTL less the time  *)
(* since the last renewal, which the timer of the renew loop tells.        *)
(***************************************************************************)
RowTracksTimer ==
  \A p \in Proc : Working(p) =>
    /\ RenewMatches(p)
    /\ -RenewLag <= handle[p].due
    /\ row.left = TTL - RenewEvery + handle[p].due

IInv == TypeOK /\ RowTracksTimer

-----------------------------------------------------------------------------
(* The records that the actions write are handles and rows.                *)
LEMMA IdleIsHandle == Idle \in Handle
  BY LeaseConstants DEF Idle, Handle

LEMMA StartedIsHandle ==
  /\ [Idle EXCEPT !.pc = "trying"] \in Handle
  /\ [Idle EXCEPT !.pc = "dead"] \in Handle
  BY IdleIsHandle DEF Handle

LEMMA WonIsTyped ==
  ASSUME NEW p \in Proc, NEW f \in 1..MaxFence
  PROVE  /\ [Idle EXCEPT !.pc = "held", !.fence = f, !.renewer = "on",
                         !.due = RenewEvery] \in Handle
         /\ [holder |-> p, fence |-> f, left |-> TTL] \in Row
<1>1. f \in 0..MaxFence /\ RenewEvery \in Int /\ TTL \in -1..TTL
  BY LeaseConstants
<1>2. [Idle EXCEPT !.pc = "held", !.fence = f, !.renewer = "on",
                   !.due = RenewEvery] \in Handle
  BY <1>1, IdleIsHandle DEF Handle
<1> QED
  BY <1>1, <1>2 DEF Row

(* An acquisition writes the row and the handle of the same new tenure.    *)
LEMMA WinEffect ==
  ASSUME TypeOK, NEW p \in Proc, TakeOver(p) \/ Insert(p)
  PROVE  \E f \in 1..MaxFence :
           /\ f = NextFence
           /\ row' = [holder |-> p, fence |-> f, left |-> TTL]
           /\ handle' = [handle EXCEPT ![p] =
                [Idle EXCEPT !.pc = "held", !.fence = f, !.renewer = "on",
                             !.due = RenewEvery]]
<1>1. Win(p)
  BY DEF TakeOver, Insert
<1>2. NextFence \in 1..MaxFence
  BY LeaseConstants
     DEF TypeOK, Row, NoRow, TakeOver, Insert, CanTakeOver, CanInsert,
         RowExists, NextFence
<1> QED
  BY <1>1, <1>2 DEF Win

-----------------------------------------------------------------------------
(* The variables keep their types: in particular what is left of a row     *)
(* never leaves -1..TTL, and a missing row has no fence and no time left.  *)
THEOREM TypeCorrect == Spec => []TypeOK
<1>1. Init => TypeOK
  BY IdleIsHandle DEF Init, TypeOK, Row
<1>2. TypeOK /\ [Next]_vars => TypeOK'
  <2> SUFFICES ASSUME TypeOK, [Next]_vars
               PROVE  TypeOK'
    OBVIOUS
  <2> USE DEF TypeOK
  <2>1. ASSUME NEW p \in Proc, Begin(p) \/ Crash(p)
        PROVE  TypeOK'
    BY <2>1, StartedIsHandle DEF Begin, Crash
  <2>2. ASSUME NEW p \in Proc, TakeOver(p) \/ Insert(p)
        PROVE  TypeOK'
    BY <2>2, WinEffect, WonIsTyped
  <2>3. ASSUME NEW p \in Proc, BackOff(p)
        PROVE  TypeOK'
    <3> PICK jitter \in MinJitter..MaxJitter :
          handle' = [handle EXCEPT ![p].tries = @ + 1, ![p].due = jitter]
      BY <2>3 DEF BackOff
    <3> DEFINE h == [handle[p] EXCEPT !.tries = handle[p].tries + 1,
                                      !.due = jitter]
    <3>1. handle[p].tries + 1 \in 0..MaxAttempts /\ jitter \in Int
      BY <2>3, LeaseConstants DEF Handle, BackOff, Attempting
    <3>2. h \in Handle
      BY <3>1 DEF Handle
    <3>3. handle' = [handle EXCEPT ![p] = h]
      BY DEF Handle
    <3> QED
      BY <2>3, <3>2, <3>3 DEF BackOff
  <2>4. ASSUME NEW p \in Proc, GiveUp(p) \/ EndHold(p)
        PROVE  TypeOK'
    BY <2>4, IdleIsHandle
       DEF GiveUp, EndHold, ReleaseNothing, Release, Delete, DeleteError,
           Handle, Row
  <2>5. ASSUME NEW p \in Proc, RenewLoop(p)
        PROVE  TypeOK'
    BY <2>5, LeaseConstants
       DEF RenewLoop, Renew, RenewStale, RenewError, RenewDue, RenewMatches,
           Handle, Row, NoRow
  <2>6. CASE Tick
    <3>1. row' \in Row
      BY <2>6, LeaseConstants DEF Tick, Expired, Row, NoRow
    <3>2. handle' \in [Proc -> Handle]
      BY <2>6 DEF Tick, Handle
    <3> QED
      BY <3>1, <3>2
  <2>7. CASE UNCHANGED vars
    BY <2>7 DEF vars
  <2> QED
    BY <2>1, <2>2, <2>3, <2>4, <2>5, <2>6, <2>7 DEF Next, Acquire
<1> QED
  BY <1>1, <1>2, PTL DEF Spec

-----------------------------------------------------------------------------
(* RowTracksTimer implies that no row of a working process is expired.     *)
LEMMA WorkingRowIsLive ==
  ASSUME RenewInTime, IInv, NEW p \in Proc, Working(p)
  PROVE  row.holder = p /\ ~Expired
BY LeaseConstants
   DEF RenewInTime, IInv, RowTracksTimer, TypeOK, Handle, Expired, RenewMatches

(* So an acquisition finds nobody working: the row is expired or missing.  *)
LEMMA WinnerIsAlone ==
  ASSUME RenewInTime, IInv, NEW p \in Proc, TakeOver(p) \/ Insert(p),
         NEW q \in Proc
  PROVE  ~Working(q)
BY WorkingRowIsLive, LeaseConstants
   DEF TakeOver, Insert, CanTakeOver, CanInsert, RowExists

LEMMA IInvInductive == RenewInTime /\ IInv /\ TypeOK' /\ [Next]_vars => IInv'
<1> SUFFICES ASSUME RenewInTime, IInv, TypeOK', [Next]_vars
             PROVE  RowTracksTimer'
  BY DEF IInv
<1> USE LeaseConstants DEF IInv, TypeOK, RowTracksTimer, Working, RenewMatches
<1>1. ASSUME NEW p \in Proc, Begin(p) \/ Crash(p) \/ GiveUp(p)
      PROVE  RowTracksTimer'
  BY <1>1 DEF Begin, Crash, GiveUp, Idle
<1>2. ASSUME NEW p \in Proc, TakeOver(p) \/ Insert(p)
      PROVE  RowTracksTimer'
  <2>1. PICK f \in 1..MaxFence :
           /\ row' = [holder |-> p, fence |-> f, left |-> TTL]
           /\ handle' = [handle EXCEPT ![p] =
                [Idle EXCEPT !.pc = "held", !.fence = f, !.renewer = "on",
                             !.due = RenewEvery]]
    BY <1>2, WinEffect
  <2>2. \A r \in Proc : ~Working(r)
    BY <1>2, WinnerIsAlone
  <2>3. \A r \in Proc : Working(r)' => r = p
    BY <2>1, <2>2
  <2>4. /\ handle'[p].fence = f /\ handle'[p].due = RenewEvery
        /\ row'.holder = p /\ row'.fence = f /\ row'.left = TTL
    BY <2>1, IdleIsHandle DEF Handle
  <2> QED
    BY <2>3, <2>4
<1>3. ASSUME NEW p \in Proc, BackOff(p)
      PROVE  RowTracksTimer'
  BY <1>3 DEF BackOff, Attempting, Handle
<1>4. ASSUME NEW p \in Proc, RenewLoop(p)
      PROVE  RowTracksTimer'
  <2>1. CASE Renew(p)
    <3>1. \A r \in Proc : Working(r)' => r = p
      BY <2>1 DEF Renew, RenewDue, Handle
    <3>2. /\ row'.holder = p /\ row'.fence = handle'[p].fence
          /\ row'.left = TTL /\ handle'[p].due = RenewEvery
      BY <2>1 DEF Renew, Row, Handle, NoRow
    <3> QED
      BY <3>1, <3>2
  <2>2. CASE RenewStale(p) \/ RenewError(p)
    BY <2>2 DEF RenewStale, RenewError, RenewDue, Handle
  <2> QED
    BY <1>4, <2>1, <2>2 DEF RenewLoop
<1>5. ASSUME NEW p \in Proc, EndHold(p)
      PROVE  RowTracksTimer'
  <2>1. CASE Delete(p)
    BY <2>1 DEF Delete, DeleteMatches, Idle, Handle
  <2>2. CASE ReleaseNothing(p) \/ Release(p) \/ DeleteError(p)
    BY <2>2 DEF ReleaseNothing, Release, DeleteError, Idle, Handle
  <2> QED
    BY <1>5, <2>1, <2>2 DEF EndHold
<1>6. CASE Tick
  <2>1. \A r \in Proc : Working(r)' =>
          /\ Working(r) /\ ~Expired
          /\ handle[r].due > -RenewLag
          /\ handle'[r].due = handle[r].due - 1
          /\ handle'[r].fence = handle[r].fence
    BY <1>6, WorkingRowIsLive DEF Tick, Sleeping, Handle
  <2>2. ~Expired => /\ row'.left = row.left - 1
                    /\ row'.holder = row.holder /\ row'.fence = row.fence
    BY <1>6 DEF Tick, Expired, Row, NoRow
  <2>3. \A r \in Proc : handle[r].due \in Int
    BY DEF Handle
  <2> QED
    BY <2>1, <2>2, <2>3, RenewInTime DEF RenewInTime
<1>7. CASE UNCHANGED vars
  BY <1>7 DEF vars
<1> QED
  BY <1>1, <1>2, <1>3, <1>4, <1>5, <1>6, <1>7 DEF Next, Acquire

THEOREM IInvHolds == RenewInTime => (Spec => []IInv)
<1> SUFFICES ASSUME RenewInTime
             PROVE  Spec => []IInv
  OBVIOUS
<1>1. Init => RowTracksTimer
  BY DEF Init, RowTracksTimer, Working, Idle
<1>2. IInv /\ TypeOK' /\ [Next]_vars => IInv'
  BY IInvInductive
<1>3. IInv <=> TypeOK /\ RowTracksTimer
  BY DEF IInv
<1> QED
  BY <1>1, <1>2, <1>3, TypeCorrect, PTL DEF Spec

-----------------------------------------------------------------------------
(* At most one process works on the task, when renewals run in time.       *)
THEOREM Exclusive == RenewInTime => (Spec => []WorkersExclusive)
<1> SUFFICES ASSUME RenewInTime
             PROVE  Spec => []WorkersExclusive
  OBVIOUS
<1>1. IInv => WorkersExclusive
  BY DEF IInv, RowTracksTimer, WorkersExclusive, RenewMatches
<1> QED
  BY <1>1, IInvHolds, PTL

(* Whoever works has the row still: its next renewal finds holder and      *)
(* fence as its acquisition left them.                                     *)
THEOREM WorksUnderItsRow == RenewInTime => (Spec => []HolderKeepsLease)
<1> SUFFICES ASSUME RenewInTime
             PROVE  Spec => []HolderKeepsLease
  OBVIOUS
<1>1. IInv => HolderKeepsLease
  BY DEF IInv, RowTracksTimer, HolderKeepsLease, RenewMatches
<1> QED
  BY <1>1, IInvHolds, PTL

(* The lease implements the mutual exclusion of Mutex: an acquisition is   *)
(* an Enter, the end of a working handle a Leave, all else a stutter.      *)
THEOREM Implements == RenewInTime => (Spec => ImplementsMutex)
<1> SUFFICES ASSUME RenewInTime
             PROVE  Spec => ImplementsMutex
  OBVIOUS
<1> DEFINE W == {p \in Proc : Working(p)}
<1>1. Init => W = {}
  BY DEF Init, Working, Idle
<1>2. ASSUME IInv, TypeOK', [Next]_vars
      PROVE  [\E p \in Proc : \/ W = {} /\ W' = {p}
                              \/ p \in W /\ W' = W \ {p}]_W
  <2> USE <1>2 DEF IInv, TypeOK, Working
  <2>1. ASSUME NEW p \in Proc, TakeOver(p) \/ Insert(p)
        PROVE  W = {} /\ W' = {p}
    <3>1. W = {}
      <4>1. \A q \in Proc : ~Working(q)
        BY <2>1, WinnerIsAlone
      <4> QED
        BY <4>1
    <3>2. Working(p)' /\ \A q \in Proc \ {p} : Working(q)' <=> Working(q)
      <4>1. PICK f \in 1..MaxFence :
              handle' = [handle EXCEPT ![p] =
                [Idle EXCEPT !.pc = "held", !.fence = f, !.renewer = "on",
                             !.due = RenewEvery]]
        BY <2>1, WinEffect
      <4> QED
        BY <4>1 DEF Idle
    <3> QED
      BY <3>1, <3>2
  <2>2. ASSUME NEW p \in Proc,
               Begin(p) \/ Crash(p) \/ GiveUp(p) \/ BackOff(p) \/ RenewLoop(p)
                 \/ EndHold(p)
        PROVE  W' = W \/ (p \in W /\ W' = W \ {p})
    <3>1. \A q \in Proc \ {p} : handle'[q] = handle[q]
      BY <2>2
         DEF Begin, Crash, GiveUp, BackOff, Attempting, RenewLoop, Renew,
             RenewStale, RenewError, EndHold, ReleaseNothing, Release, Delete,
             DeleteError
    <3>2. Working(p)' => Working(p)
      BY <2>2, IdleIsHandle, StartedIsHandle
         DEF Begin, Crash, GiveUp, BackOff, Attempting, RenewLoop, Renew,
             RenewDue, RenewStale, RenewError, EndHold, ReleaseNothing,
             Release, Delete, DeleteError, Handle, Idle
    <3> QED
      BY <3>1, <3>2
  <2>3. CASE Tick
    BY <2>3 DEF Tick, Handle
  <2>4. CASE UNCHANGED vars
    BY <2>4 DEF vars
  <2> QED
    BY <2>1, <2>2, <2>3, <2>4 DEF Next, Acquire
<1>3. Init => Exclusion!Init
  BY <1>1 DEF Exclusion!Init
<1>4. IInv /\ TypeOK' /\ [Next]_vars => [Exclusion!Next]_W
  BY <1>2 DEF Exclusion!Next, Exclusion!Enter, Exclusion!Leave
<1> QED
  BY <1>3, <1>4, TypeCorrect, IInvHolds, PTL
     DEF ImplementsMutex, Exclusion!Spec, Spec

-----------------------------------------------------------------------------
(* Whatever the delays: a row that has not expired is changed by its       *)
(* holder alone.                                                           *)
THEOREM LiveRow == Spec => LiveRowIsOwners
<1> DEFINE Touch(p) == row.holder = p /\ ~Expired /\ RowTouched
                         => handle'[p] # handle[p]
<1>1. ASSUME TypeOK, [Next]_vars, NEW p \in Proc
      PROVE  Touch(p)
  <2> SUFFICES ASSUME row.holder = p, ~Expired, RowTouched
               PROVE  handle'[p] # handle[p]
    OBVIOUS
  <2> USE <1>1, LeaseConstants DEF TypeOK, RowTouched
  <2>1. ASSUME NEW q \in Proc, TakeOver(q) \/ Insert(q)
        PROVE  FALSE
    BY <2>1 DEF TakeOver, Insert, CanTakeOver, CanInsert, RowExists
  <2>2. ASSUME NEW q \in Proc, Renew(q)
        PROVE  handle'[p] # handle[p]
    <3>1. q = p
      BY <2>2 DEF Renew, RenewMatches
    <3>2. handle[p].due <= 0 /\ handle'[p].due = RenewEvery
      BY <2>2, <3>1 DEF Renew, RenewDue, Handle
    <3> QED
      BY <3>2
  <2>3. ASSUME NEW q \in Proc, Delete(q)
        PROVE  handle'[p] # handle[p]
    <3>1. q = p
      BY <2>3 DEF Delete, DeleteMatches, Row, NoRow
    <3>2. handle[p].pc = "releasing" /\ handle'[p].pc = "idle"
      BY <2>3, <3>1, IdleIsHandle DEF Delete, Idle
    <3> QED
      BY <3>2
  <2>4. ASSUME NEW q \in Proc,
               Begin(q) \/ Crash(q) \/ GiveUp(q) \/ BackOff(q) \/ RenewStale(q)
                 \/ RenewError(q) \/ ReleaseNothing(q) \/ Release(q)
                 \/ DeleteError(q)
        PROVE  FALSE
    <3>1. row' = row
      BY <2>4 DEF Begin, Crash, GiveUp, BackOff, RenewStale, RenewError,
                  ReleaseNothing, Release, DeleteError
    <3> QED
      BY <3>1 DEF Row, NoRow
  <2>5. CASE Tick
    BY <2>5 DEF Tick, Expired, Row, NoRow
  <2>6. CASE UNCHANGED vars
    BY <2>6 DEF vars, Row, NoRow
  <2> QED
    BY <2>1, <2>2, <2>3, <2>4, <2>5, <2>6
       DEF Next, Acquire, RenewLoop, EndHold
<1>2. TypeOK /\ [Next]_vars => [\A p \in Proc : Touch(p)]_vars
  BY <1>1
<1> QED
  BY <1>2, TypeCorrect, PTL DEF Spec, LiveRowIsOwners

(* Whatever the delays: a lease reported lost is lost for good.  The row's *)
(* next tenure belongs to another process, and the loser writes no more.   *)
LEMMA LostStays ==
  ASSUME TypeOK, LostIsLost, [Next]_vars
  PROVE  LostIsLost'
<1> SUFFICES ASSUME NEW p \in Proc, handle'[p].pc = "held", handle'[p].lost
             PROVE  ~RenewMatches(p)'
  BY DEF LostIsLost
<1> USE LeaseConstants DEF TypeOK
<1>1. ASSUME NEW q \in Proc, TakeOver(q) \/ Insert(q)
      PROVE  ~RenewMatches(p)'
  <2>1. PICK f \in 1..MaxFence :
          /\ row' = [holder |-> q, fence |-> f, left |-> TTL]
          /\ handle' = [handle EXCEPT ![q] =
               [Idle EXCEPT !.pc = "held", !.fence = f, !.renewer = "on",
                            !.due = RenewEvery]]
    BY <1>1, WinEffect
  <2>2. q # p
    BY <2>1 DEF Idle
  <2> QED
    BY <2>1, <2>2 DEF RenewMatches
<1>2. ASSUME NEW q \in Proc, RenewStale(q)
      PROVE  ~RenewMatches(p)'
  <2>1. CASE q = p
    <3>1. handle'[p].fence = handle[p].fence
      BY <1>2, <2>1 DEF RenewStale, Handle
    <3> QED
      BY <1>2, <2>1, <3>1 DEF RenewStale, RenewMatches
  <2>2. CASE q # p
    BY <1>2, <2>2 DEF RenewStale, RenewMatches, LostIsLost
  <2> QED
    BY <2>1, <2>2
<1>3. ASSUME NEW q \in Proc, Delete(q)
      PROVE  ~RenewMatches(p)'
  <2>1. q # p
    BY <1>3 DEF Delete, Idle
  <2> QED
    BY <1>3, <2>1 DEF Delete, RenewMatches, LostIsLost, NoRow
<1>4. ASSUME NEW q \in Proc, Begin(q) \/ Crash(q) \/ GiveUp(q) \/ BackOff(q)
                 \/ ReleaseNothing(q) \/ Release(q) \/ DeleteError(q)
      PROVE  ~RenewMatches(p)'
  <2>1. q # p
    BY <1>4 DEF Begin, Crash, GiveUp, BackOff, ReleaseNothing, Release,
                DeleteError, Idle, Attempting, Handle
  <2> QED
    BY <1>4, <2>1 DEF Begin, Crash, GiveUp, BackOff, ReleaseNothing, Release,
                      DeleteError, RenewMatches, LostIsLost
<1>5. ASSUME NEW q \in Proc, Renew(q) \/ RenewError(q)
      PROVE  ~RenewMatches(p)'
  <2>1. /\ handle'[p].pc = handle[p].pc /\ handle'[p].lost = handle[p].lost
        /\ handle'[p].fence = handle[p].fence
    <3>1. CASE Renew(q)
      BY <3>1 DEF Renew, Handle
    <3>2. CASE RenewError(q)
      BY <3>2 DEF RenewError, Handle
    <3> QED
      BY <1>5, <3>1, <3>2
  <2>2. row'.holder = row.holder /\ row'.fence = row.fence
    BY <1>5 DEF Renew, RenewError, Row, NoRow
  <2> QED
    BY <2>1, <2>2 DEF RenewMatches, LostIsLost
<1>6. CASE Tick
  <2>1. /\ handle'[p].pc = handle[p].pc /\ handle'[p].lost = handle[p].lost
        /\ handle'[p].fence = handle[p].fence
    BY <1>6 DEF Tick, Handle
  <2>2. row'.holder = row.holder /\ row'.fence = row.fence
    BY <1>6 DEF Tick, Row, NoRow
  <2> QED
    BY <2>1, <2>2 DEF RenewMatches, LostIsLost
<1>7. CASE UNCHANGED vars
  BY <1>7 DEF vars, RenewMatches, LostIsLost
<1> QED
  BY <1>1, <1>2, <1>3, <1>4, <1>5, <1>6, <1>7
     DEF Next, Acquire, RenewLoop, EndHold

THEOREM LostForGood == Spec => []LostIsLost
<1>1. Init => LostIsLost
  BY DEF Init, Idle, LostIsLost
<1>2. TypeOK /\ LostIsLost /\ [Next]_vars => LostIsLost'
  BY LostStays
<1> QED
  BY <1>1, <1>2, TypeCorrect, PTL DEF Spec
=============================================================================
