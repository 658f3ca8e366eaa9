----------------------------- MODULE KstatQueue -----------------------------
(***************************************************************************)
(* The queue statistics of a kstat_io_t: kstat_waitq_enter and _exit, and  *)
(* with the same code kstat_runq_enter and _exit.  The statistics are only *)
(* brought up to date when the queue changes; the model runs them beside   *)
(* two integrals over time that are always exact.                          *)
(***************************************************************************)
EXTENDS Integers, TLAPS

CONSTANTS
    MaxTime,    \* bound of the clock
    MaxCount    \* bound of the queue's length

ASSUME BoundsAssumption == MaxTime \in Nat /\ MaxCount \in Nat

VARIABLES
    now,            \* gethrtime()
    wcnt,           \* elements in the queue
    wlastupdate,    \* when the queue last changed
    wlentime,       \* cumulative length * time product
    wtime,          \* cumulative time with a queue
    area,           \* the exact integral of the length
    busy            \* the exact time with a queue

vars == <<now, wcnt, wlastupdate, wlentime, wtime, area, busy>>

Init ==
    /\ now \in 0 .. MaxTime
    /\ wcnt = 0 /\ wlastupdate = 0 /\ wlentime = 0 /\ wtime = 0
    /\ area = 0 /\ busy = 0

Tick ==
    /\ now < MaxTime
    /\ now' = now + 1
    /\ area' = area + wcnt
    /\ busy' = busy + (IF wcnt # 0 THEN 1 ELSE 0)
    /\ UNCHANGED <<wcnt, wlastupdate, wlentime, wtime>>

delta == now - wlastupdate

\* An entry that counts the time of an empty queue.
Mut_kstat_waitq_enter ==
    /\ wcnt < MaxCount
    /\ wlastupdate' = now
    /\ wcnt' = wcnt + 1
    /\ wlentime' = wlentime + delta * wcnt
    /\ wtime' = wtime + delta
    /\ UNCHANGED <<now, area, busy>>

kstat_waitq_enter ==
    /\ wcnt < MaxCount
    /\ wlastupdate' = now
    /\ wcnt' = wcnt + 1
    /\ IF wcnt # 0
       THEN wlentime' = wlentime + delta * wcnt /\ wtime' = wtime + delta
       ELSE UNCHANGED <<wlentime, wtime>>
    /\ UNCHANGED <<now, area, busy>>

\* Callers only take out what they put in: ASSERT((int)wcnt > 0).
kstat_waitq_exit ==
    /\ wcnt > 0
    /\ wlastupdate' = now
    /\ wcnt' = wcnt - 1
    /\ wlentime' = wlentime + delta * wcnt
    /\ wtime' = wtime + delta
    /\ UNCHANGED <<now, area, busy>>

Next == Tick \/ kstat_waitq_enter \/ kstat_waitq_exit

Spec == Init /\ [][Next]_vars

------------------------------------------------------------------------------
TypeOK ==
    /\ now \in 0 .. MaxTime /\ wcnt \in 0 .. MaxCount /\ wlastupdate \in 0 .. now
    /\ wlentime \in Nat /\ wtime \in Nat /\ area \in Nat /\ busy \in Nat

\* The statistics, with what has passed since the last change of the queue, are the
\* exact integrals: no time is counted twice or left out, and an empty queue
\* counts for nothing.
QueueExact ==
    /\ wlentime + delta * wcnt = area
    /\ wtime + (IF wcnt # 0 THEN delta ELSE 0) = busy

IInv == TypeOK /\ QueueExact

------------------------------------------------------------------------------
\* The products that the statistics are made of.
LEMMA Products ==
  ASSUME NEW d \in Nat, NEW c \in Nat
  PROVE  /\ d * c \in Nat /\ (d + 1) * c = d * c + c
         /\ d * 0 = 0 /\ 0 * c = 0
BY SMT

\* The clock moves on: the integrals grow by what the queue holds.
LEMMA TickKeeps == IInv /\ Tick => IInv'
<1> SUFFICES ASSUME IInv, Tick PROVE IInv'
  OBVIOUS
<1> USE BoundsAssumption DEF IInv, TypeOK
<1>1. delta \in Nat /\ wcnt \in Nat
  BY DEF delta
<1>2. delta' = delta + 1 /\ wcnt' = wcnt
  BY DEF delta, Tick
<1>3. delta' * wcnt' = delta * wcnt + wcnt
  BY <1>1, <1>2, Products
<1>4. QueueExact'
  <2>1. wlentime' + delta' * wcnt' = area'
    BY <1>1, <1>3, Products DEF Tick, QueueExact
  <2>2. wtime' + (IF wcnt' # 0 THEN delta' ELSE 0) = busy'
    BY <1>1, <1>2 DEF Tick, QueueExact
  <2> QED BY <2>1, <2>2 DEF QueueExact
<1>5. TypeOK'
  BY DEF Tick
<1> QED BY <1>4, <1>5

\* The queue changes: the statistics take in the time since the last change.
LEMMA ChangeKeeps == IInv /\ (kstat_waitq_enter \/ kstat_waitq_exit) => IInv'
<1> SUFFICES ASSUME IInv, kstat_waitq_enter \/ kstat_waitq_exit PROVE IInv'
  OBVIOUS
<1> USE BoundsAssumption DEF IInv, TypeOK
<1>1. delta \in Nat /\ wcnt \in Nat /\ wcnt' \in Nat /\ wcnt' <= MaxCount
  BY DEF delta, kstat_waitq_enter, kstat_waitq_exit
<1>2. delta' = 0 /\ UNCHANGED <<now, area, busy>> /\ wlastupdate' = now
  BY DEF delta, kstat_waitq_enter, kstat_waitq_exit
<1>3. delta * wcnt \in Nat /\ delta * 0 = 0 /\ 0 * wcnt' = 0
  BY Zenon, <1>1, Products
<1>4. wlentime' = wlentime + delta * wcnt
  BY <1>1, <1>3 DEF kstat_waitq_enter, kstat_waitq_exit
<1>5. wtime' = wtime + (IF wcnt # 0 THEN delta ELSE 0)
  BY <1>1 DEF kstat_waitq_enter, kstat_waitq_exit
<1>6. QueueExact'
  <2>0. delta' * wcnt' = 0
    BY <1>2, <1>3
  <2>1. wlentime' + delta' * wcnt' = area'
    BY <1>2, <1>3, <1>4, <2>0 DEF QueueExact
  <2>2. wtime' + (IF wcnt' # 0 THEN delta' ELSE 0) = busy'
    BY <1>1, <1>2, <1>5 DEF QueueExact
  <2> QED BY <2>1, <2>2 DEF QueueExact
<1>7. TypeOK'
  BY <1>1, <1>2, <1>3, <1>4, <1>5
<1> QED BY <1>6, <1>7

\* kstat_waitq_enter and kstat_waitq_exit keep exact statistics for every length of
\* the queue and every time that passes between two changes.
THEOREM Exact == Spec => []QueueExact
<1>1. Init => IInv
  BY BoundsAssumption DEF Init, IInv, TypeOK, QueueExact, delta
<1>2. IInv /\ [Next]_vars => IInv'
  <2>1. CASE Tick
    BY <2>1, TickKeeps
  <2>2. CASE kstat_waitq_enter \/ kstat_waitq_exit
    BY <2>2, ChangeKeeps
  <2>3. CASE UNCHANGED vars
    BY <2>3 DEF vars, IInv, TypeOK, QueueExact, delta
  <2> QED BY <2>1, <2>2, <2>3 DEF Next
<1> QED BY <1>1, <1>2, PTL DEF Spec, IInv

=============================================================================
