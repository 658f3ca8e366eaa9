---------------------------- MODULE TaskqPromise ----------------------------
(***************************************************************************)
(* What a taskq promises its users, without lists, timers or threads: tasks *)
(* get consecutive ids, each is queued, then run once or cancelled, and a   *)
(* wait returns only when the tasks it waits for are over.                  *)
(***************************************************************************)
EXTENDS Integers

CONSTANTS Procs, MaxId

VARIABLES
    status,   \* the state of the task with each id
    waiting   \* what each thread waits for

pvars == <<status, waiting>>

None == [on |-> "none", id |-> 0]
Open == {n \in 1 .. MaxId : status[n] \in {"queued", "running"}}

Init ==
    /\ status = [n \in 1 .. MaxId |-> "unborn"]
    /\ waiting = [p \in Procs |-> None]

Move(n, from, to) ==
    /\ status[n] = from /\ status'[n] = to
    /\ status' = [status EXCEPT ![n] = to]
    /\ UNCHANGED waiting

Dispatch(n) == Move(n, "unborn", "queued") /\ \A m \in 1 .. n - 1 : status[m] # "unborn"
Start(n) == Move(n, "queued", "running")
Finish(n) == Move(n, "running", "done")
Cancel(n) == Move(n, "queued", "cancelled")

BeginWait(p) ==
    /\ waiting[p] = None
    /\ waiting'[p] \in [on : {"id", "outstanding", "all"}, id : Nat]
    /\ waiting' = [waiting EXCEPT ![p] = waiting'[p]]
    /\ UNCHANGED status

\* A wait for one id returns when that task is over; a wait for the outstanding
\* ids when all tasks up to the id are; a wait for all when no task is open.
EndWait(p) ==
    /\ waiting[p] # None /\ waiting'[p] = None
    /\ CASE waiting[p].on = "id" -> waiting[p].id \notin Open
         [] waiting[p].on = "outstanding" -> \A n \in Open : n > waiting[p].id
         [] OTHER -> Open = {}
    /\ waiting' = [waiting EXCEPT ![p] = None]
    /\ UNCHANGED status

Next ==
    \/ \E n \in 1 .. MaxId : Dispatch(n) \/ Start(n) \/ Finish(n) \/ Cancel(n)
    \/ \E p \in Procs : BeginWait(p) \/ EndWait(p)

Spec == Init /\ [][Next]_pvars

=============================================================================
