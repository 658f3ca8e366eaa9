------------------------------- MODULE Taskq -------------------------------
(***************************************************************************)
(* The task side of module/spl/spl-taskq.c for one taskq that was created  *)
(* without TASKQ_DYNAMIC: its entries, its lists, the ids it hands out,    *)
(* delayed tasks and their timers, cancellation, the three wait calls and  *)
(* taskq_destroy.  How dynamic taskqs grow and shrink their pool of        *)
(* threads, and how workers sleep and are woken, is TaskqThreads.          *)
(*                                                                         *)
(* Every action is one critical section of tq_lock, from spin_lock to      *)
(* spin_unlock.  The one section cut in two is the worker's: it finishes a *)
(* task, and goes round its loop to the next one, without dropping the     *)
(* lock, so tq_lock names the worker between those two steps.              *)
(***************************************************************************)
EXTENDS Integers, Sequences, FiniteSetsExt, KernelList

CONSTANTS
    Clients,            \* threads that use the taskq and are not its workers
    Threads,            \* the taskq's worker threads
    HeapEnts,           \* entries that task_alloc can get from kmem_alloc
    PreEnts,            \* entries that callers embed in their own structures
    MaxId,              \* bound: the last id handed out
    MinAlloc, MaxAlloc, \* tq_minalloc, tq_maxalloc
    MaxPolls,           \* bound: times task_alloc polls at tq_maxalloc (100)
    Prepopulate,        \* TASKQ_PREPOPULATE given to taskq_create
    Hows,               \* allocation flags in use: "sleep", "nosleep", "noalloc"
    Ops,                \* the operations Clients call
    TaskOps,            \* the operations task functions call
    CancelRacesExpiry,  \* may taskq_cancel_id meet a timer already being run
    Nobody              \* no thread

Kinds == {"pend", "front", "noqueue", "delay"}
Waits == {"id", "outstanding", "all"}
AllOps == Kinds \cup Waits \cup {"ent", "cancel", "destroy"}

ASSUME NatConstants ==
    /\ MaxId \in Nat /\ MaxPolls \in Nat
    /\ MinAlloc \in Nat /\ MaxAlloc \in Nat
    /\ MinAlloc <= MaxAlloc

ASSUME SetConstants ==
    /\ IsFiniteSet(Clients) /\ IsFiniteSet(Threads)
    /\ IsFiniteSet(HeapEnts) /\ IsFiniteSet(PreEnts)
    /\ Clients \cap Threads = {}
    /\ HeapEnts \cap PreEnts = {}
    /\ Nobody \notin Clients \cup Threads

ASSUME UseConstants ==
    /\ Ops \subseteq AllOps /\ TaskOps \subseteq Kinds \cup {"ent"}
    /\ Hows \subseteq {"sleep", "nosleep", "noalloc"}
    /\ Prepopulate \in BOOLEAN /\ CancelRacesExpiry \in BOOLEAN

VARIABLES
    tq_active,       \* TASKQ_ACTIVE is set in tq_flags
    tq_next_id, tq_lowest_id, tq_nactive, tq_nalloc,
    tq_free_list, tq_pend_list, tq_prio_list, tq_delay_list,
    tq_active_list,  \* the workers that run a task, by the task's id
    tq_lock,         \* the worker that holds the lock between two actions
    heap,            \* the entries of HeapEnts that are allocated
    tqent_id, tqent_flags,
    timer,           \* tqent_timer: "off", "pending", "firing"
    tqt,             \* per worker: what it does, tqt_id and the entry it runs
    call,            \* per thread: the taskq call it is in the middle of
    stopping,        \* workers that kthread_stop has been called on
    cancelled        \* history: the ids taskq_cancel_id took off a list

lists == <<tq_free_list, tq_pend_list, tq_prio_list, tq_delay_list>>
ids == <<tq_next_id, tq_lowest_id>>
pool == <<tq_nalloc, heap>>
ents == <<tqent_id, tqent_flags, timer>>
workers == <<tq_nactive, tq_active_list, tq_lock, tqt, stopping>>
vars == <<tq_active, lists, ids, pool, ents, workers, call, cancelled>>

Procs == Clients \cup Threads
Ents == HeapEnts \cup PreEnts
INVALID == 0                       \* TASKQID_INVALID
Idle == [pc |-> "idle"]
Resting == [pc |-> "idle", id |-> INVALID, ents |-> {}]

-----------------------------------------------------------------------------
(* Lists.                                                                  *)

tqt_id == [t \in Threads |-> tqt[t].id]

\* The priority list, or the delay list, is forgotten.
MutLowestNoPrio(pend, prio, delay, active) ==
    HeadOr(active, tqt_id, HeadOr(delay, tqent_id, HeadOr(pend, tqent_id, tq_next_id)))
MutLowestNoDelay(pend, prio, delay, active) ==
    HeadOr(active, tqt_id, HeadOr(prio, tqent_id, HeadOr(pend, tqent_id, tq_next_id)))

taskq_lowest_id(pend, prio, delay, active) ==
    HeadOr(active, tqt_id, HeadOr(delay, tqent_id,
        HeadOr(prio, tqent_id, HeadOr(pend, tqent_id, tq_next_id))))

\* The entry with this id, as a set; the scan gives up at the first larger id.
taskq_find_list(L, n) ==
    {L[i] : i \in {k \in DOMAIN L : /\ tqent_id[L[k]] = n
                                    /\ \A j \in 1 .. k - 1 : tqent_id[L[j]] < n}}

\* taskq_find, the pending half: delay list, then priority, then pending list.
FindPending(n) ==
    LET d == taskq_find_list(tq_delay_list, n)
        p == taskq_find_list(tq_prio_list, n)
    IN  IF d # {} THEN d ELSE IF p # {} THEN p ELSE taskq_find_list(tq_pend_list, n)

\* taskq_find, the active half: the task is being run (-EBUSY).
FindActive(n) == \E t \in Range(tq_active_list) : tqt[t].id = n

-----------------------------------------------------------------------------
(* Entries: task_alloc, task_done and the tail common to the dispatches.   *)

tq_nthreads == Cardinality({t \in Threads : tqt[t].pc # "dead"})

OpsOf(p) == IF p \in Clients THEN Ops ELSE TaskOps

Destroying == \E p \in Clients : call[p].pc \in {"stop", "gone"}
                                 \/ (call[p].pc = "wait" /\ call[p].on = "destroy")

\* p may enter the taskq with this operation.  A worker enters it from the
\* task it runs; no client uses a taskq that another is destroying.
MayCall(p, op) ==
    /\ op \in OpsOf(p)
    /\ call[p] = Idle
    /\ tq_lock = Nobody
    /\ IF p \in Clients THEN ~Destroying ELSE tqt[p].pc = "run"

\* The bound on ids, counting those that calls in progress will take.
IdLeft == tq_next_id + Cardinality({p \in Procs : call[p].pc \in {"poll", "alloc"}}) <= MaxId

\* What the dispatches do with the entry they got.
Enqueue(e, kind) ==
    /\ tq_prio_list' = CASE kind = "noqueue" -> <<e>> \o tq_prio_list
                         [] kind = "front" -> Append(tq_prio_list, e)
                         [] OTHER -> tq_prio_list
    /\ tq_pend_list' = IF kind = "pend" THEN Append(tq_pend_list, e) ELSE tq_pend_list
    /\ tq_delay_list' = IF kind = "delay" THEN Append(tq_delay_list, e) ELSE tq_delay_list
    /\ timer' = IF kind = "delay" THEN [timer EXCEPT ![e] = "pending"] ELSE timer
    /\ tqent_id' = [tqent_id EXCEPT ![e] = tq_next_id]
    /\ tq_next_id' = tq_next_id + 1

\* task_alloc up to the point where it drops the lock, count polls later.
task_alloc(p, kind, how, count) ==
    \/ /\ tq_free_list # <<>>
       /\ tq_free_list' = Tail(tq_free_list)
       /\ Enqueue(Head(tq_free_list), kind)
       /\ call' = [call EXCEPT ![p] = Idle]
       /\ UNCHANGED <<tq_active, tq_lowest_id, pool, tqent_flags, workers, cancelled>>
    \/ /\ tq_free_list = <<>>
       /\ how # "noalloc"
       /\ tq_nalloc >= MaxAlloc => how = "sleep"
       /\ call' = [call EXCEPT ![p] =
                      IF tq_nalloc >= MaxAlloc
                      THEN [pc |-> "poll", kind |-> kind, how |-> how, count |-> count]
                      ELSE [pc |-> "alloc", kind |-> kind, how |-> how]]
       /\ UNCHANGED <<tq_active, lists, ids, pool, ents, workers, cancelled>>

\* tq_nalloc is not counted down when an entry is freed.
MutDoneKeepsCount(e, flags) ==
    IF tq_nalloc <= MinAlloc
    THEN /\ tqent_id' = [tqent_id EXCEPT ![e] = INVALID]
         /\ tqent_flags' = [flags EXCEPT ![e] = {}]
         /\ tq_free_list' = Append(tq_free_list, e)
         /\ UNCHANGED pool
    ELSE /\ heap' = heap \ {e}
         /\ tqent_flags' = flags
         /\ UNCHANGED <<tqent_id, tq_free_list, tq_nalloc>>

\* task_done: back to the free list, or to the heap when there are enough.
task_done(e, flags) ==
    IF tq_nalloc <= MinAlloc
    THEN /\ tqent_id' = [tqent_id EXCEPT ![e] = INVALID]
         /\ tqent_flags' = [flags EXCEPT ![e] = {}]
         /\ tq_free_list' = Append(tq_free_list, e)
         /\ UNCHANGED pool
    ELSE /\ heap' = heap \ {e}
         /\ tq_nalloc' = tq_nalloc - 1
         /\ tqent_flags' = flags
         /\ UNCHANGED <<tqent_id, tq_free_list>>

-----------------------------------------------------------------------------
(* Dispatch.                                                               *)

\* taskq_dispatch and taskq_dispatch_delay.  A call that is refused
\* (TASKQID_INVALID) leaves no trace and is not a step.
Dispatch(p, kind, how) ==
    /\ MayCall(p, kind)
    /\ IdLeft
    /\ tq_active
    /\ kind = "noqueue" => tq_nactive # tq_nthreads
    /\ task_alloc(p, kind, how, 0)

\* task_alloc wakes up from schedule_timeout at tq_maxalloc.
PollAlloc(p) ==
    /\ call[p].pc = "poll"
    /\ tq_lock = Nobody
    /\ \/ call[p].count < MaxPolls
          /\ task_alloc(p, call[p].kind, call[p].how, call[p].count + 1)
       \/ /\ call[p].count >= MaxPolls
          /\ call' = [call EXCEPT ![p] = [pc |-> "alloc", kind |-> call[p].kind,
                                          how |-> call[p].how]]
          /\ UNCHANGED <<tq_active, lists, ids, pool, ents, workers, cancelled>>

\* task_alloc is back from kmem_alloc, which may fail without KM_SLEEP; the
\* checks made before the lock was dropped are not made again.
AllocReturns(p) ==
    /\ call[p].pc = "alloc"
    /\ tq_lock = Nobody
    /\ call' = [call EXCEPT ![p] = Idle]
    /\ \/ \E e \in HeapEnts \ heap :
             /\ heap' = heap \cup {e}
             /\ tq_nalloc' = tq_nalloc + 1
             /\ tqent_flags' = [tqent_flags EXCEPT ![e] = {}]
             /\ Enqueue(e, call[p].kind)
             /\ UNCHANGED <<tq_active, tq_lowest_id, tq_free_list, workers, cancelled>>
       \/ /\ call[p].how = "nosleep"
          /\ UNCHANGED <<tq_active, lists, ids, pool, ents, workers, cancelled>>

\* e is on no list: what taskq_dispatch_ent asks of its caller.
taskq_empty_ent(e) ==
    e \notin Range(tq_pend_list) \cup Range(tq_prio_list) \cup Range(tq_delay_list)

\* taskq_dispatch_ent.  TQ_NOQUEUE does not reach the priority list here.
DispatchEnt(p, e, kind) ==
    /\ MayCall(p, "ent")
    /\ kind \in OpsOf(p)
    /\ taskq_empty_ent(e)
    /\ \/ /\ tq_active
          /\ IdLeft
          /\ kind = "noqueue" => tq_nactive # tq_nthreads
          /\ tqent_flags' = [tqent_flags EXCEPT ![e] = @ \cup {"PREALLOC"}]
          /\ Enqueue(e, IF kind = "noqueue" THEN "pend" ELSE kind)
          /\ UNCHANGED <<tq_active, tq_lowest_id, tq_free_list, pool, workers, call,
                         cancelled>>
       \/ /\ ~tq_active
          /\ tqent_id' = [tqent_id EXCEPT ![e] = INVALID]
          /\ UNCHANGED <<tq_active, lists, ids, pool, tqent_flags, timer, workers, call,
                         cancelled>>

-----------------------------------------------------------------------------
(* Timers.  The kernel detaches a timer before it runs its function, so    *)
(* timer_pending is already false while task_expire waits for tq_lock.     *)

TimerFires(e) ==
    /\ timer[e] = "pending"
    /\ timer' = [timer EXCEPT ![e] = "firing"]
    /\ UNCHANGED <<tq_active, lists, ids, pool, tqent_id, tqent_flags, workers, call,
                   cancelled>>

\* task_expire_impl: a cancelled entry is left alone, any other moves to its
\* place in the priority list.
task_expire(e) ==
    /\ timer[e] = "firing"
    /\ tq_lock = Nobody
    /\ timer' = [timer EXCEPT ![e] = "off"]
    /\ \/ /\ "CANCEL" \in tqent_flags[e]
          /\ UNCHANGED lists
       \/ /\ "CANCEL" \notin tqent_flags[e]
          /\ tq_delay_list' = list_del(tq_delay_list, e)
          /\ tq_pend_list' = list_del(tq_pend_list, e)
          /\ tq_free_list' = list_del(tq_free_list, e)
          /\ tq_prio_list' = InsertById(list_del(tq_prio_list, e), e, tqent_id)
    /\ UNCHANGED <<tq_active, ids, pool, tqent_id, tqent_flags, workers, call, cancelled>>

-----------------------------------------------------------------------------
(* Cancellation.                                                           *)

\* lowest_id after the task with this id left the lists it was on.
NextLowest(id, pend, prio, delay, active) ==
    IF tq_lowest_id = id THEN taskq_lowest_id(pend, prio, delay, active)
                         ELSE tq_lowest_id

\* taskq_cancel_id finds the task on a list.  With a pending timer it drops
\* the lock for del_timer_sync; otherwise it disposes of the entry at once.
CancelPending(p, n) ==
    /\ MayCall(p, "cancel")
    /\ \E e \in FindPending(n) :
        LET pend == list_del(tq_pend_list, e)
            prio == list_del(tq_prio_list, e)
            delay == list_del(tq_delay_list, e)
            flags == [tqent_flags EXCEPT ![e] = @ \cup {"CANCEL"}]
        IN  /\ timer[e] = "firing" => CancelRacesExpiry
            /\ tq_pend_list' = pend /\ tq_prio_list' = prio /\ tq_delay_list' = delay
            /\ tq_lowest_id' = NextLowest(n, pend, prio, delay, tq_active_list)
            /\ cancelled' = cancelled \cup {n}
            /\ \/ /\ timer[e] = "pending"
                  /\ call' = [call EXCEPT ![p] = [pc |-> "sync", ent |-> e]]
                  /\ tqent_flags' = flags
                  /\ UNCHANGED <<tqent_id, tq_free_list, pool>>
               \/ /\ timer[e] # "pending"
                  /\ IF "PREALLOC" \in flags[e]
                     THEN tqent_flags' = flags /\ UNCHANGED <<tqent_id, tq_free_list, pool>>
                     ELSE task_done(e, flags)
                  /\ UNCHANGED call
    /\ UNCHANGED <<tq_active, tq_next_id, timer, workers>>

\* del_timer in the place of del_timer_sync.
MutCancelNoSync(p) ==
    /\ call[p].pc = "sync"
    /\ tq_lock = Nobody
    /\ timer' = [timer EXCEPT ![call[p].ent] = IF @ = "firing" THEN @ ELSE "off"]
    /\ task_done(call[p].ent, tqent_flags)
    /\ call' = [call EXCEPT ![p] = Idle]
    /\ UNCHANGED <<tq_active, tq_pend_list, tq_prio_list, tq_delay_list, ids, workers,
                   cancelled>>

\* del_timer_sync returns (it waits for a running task_expire), and the entry
\* is disposed of under the lock.
CancelSynced(p) ==
    /\ call[p].pc = "sync"
    /\ tq_lock = Nobody
    /\ timer[call[p].ent] # "firing"
    /\ timer' = [timer EXCEPT ![call[p].ent] = "off"]
    /\ task_done(call[p].ent, tqent_flags)
    /\ call' = [call EXCEPT ![p] = Idle]
    /\ UNCHANGED <<tq_active, tq_pend_list, tq_prio_list, tq_delay_list, ids, workers,
                   cancelled>>

Waiting(on, n) == [pc |-> "wait", on |-> on, id |-> n, asleep |-> FALSE]

\* taskq_cancel_id finds the task running: it waits for it.
CancelBusy(p, n) ==
    /\ MayCall(p, "cancel")
    /\ FindPending(n) = {}
    /\ FindActive(n)
    /\ call' = [call EXCEPT ![p] = Waiting("id", n)]
    /\ UNCHANGED <<tq_active, lists, ids, pool, ents, workers, cancelled>>

-----------------------------------------------------------------------------
(* Waiting on tq_wait_waitq.  wait_event puts the caller on the queue       *)
(* before it evaluates the condition, so no wakeup falls in between.        *)

\* The callers of taskq_wait_id, taskq_wait_outstanding (0 means all the
\* tasks dispatched so far) and taskq_wait, with ids they were given.
taskq_wait(p, on, n) ==
    /\ MayCall(p, on)
    /\ on = "all" => n = 0
    /\ on = "id" => n > 0
    /\ n < tq_next_id
    /\ LET id == IF on = "outstanding" /\ n = 0 THEN tq_next_id - 1 ELSE n
       IN  call' = [call EXCEPT ![p] = Waiting(on, id)]
    /\ UNCHANGED <<tq_active, lists, ids, pool, ents, workers, cancelled>>

\* Off by one: the task that is the lowest outstanding one is not waited for.
MutWaitCheckLe(on, n) ==
    CASE on = "id" -> FindPending(n) = {} /\ ~FindActive(n)
      [] on = "outstanding" -> n <= tq_lowest_id
      [] OTHER -> tq_lowest_id = tq_next_id

\* taskq_wait_id_check, taskq_wait_outstanding_check and taskq_wait_check.
taskq_wait_check(on, n) ==
    CASE on = "id" -> FindPending(n) = {} /\ ~FindActive(n)
      [] on = "outstanding" -> n < tq_lowest_id
      [] OTHER -> tq_lowest_id = tq_next_id

WaitReturns(p) ==
    /\ call[p].pc = "wait" /\ ~call[p].asleep
    /\ tq_lock = Nobody
    /\ taskq_wait_check(call[p].on, call[p].id)
    /\ call' = [call EXCEPT ![p] = IF call[p].on = "destroy" THEN [pc |-> "stop"] ELSE Idle]
    /\ UNCHANGED <<tq_active, lists, ids, pool, ents, workers, cancelled>>

WaitSleeps(p) ==
    /\ call[p].pc = "wait" /\ ~call[p].asleep
    /\ tq_lock = Nobody
    /\ ~taskq_wait_check(call[p].on, call[p].id)
    /\ call' = [call EXCEPT ![p].asleep = TRUE]
    /\ UNCHANGED <<tq_active, lists, ids, pool, ents, workers, cancelled>>

\* The wakeup is forgotten.
MutNoWakeup == UNCHANGED call

\* wake_up_all(&tq->tq_wait_waitq)
WakeWaiters ==
    call' = [p \in Procs |-> IF call[p].pc = "wait" THEN [call[p] EXCEPT !.asleep = FALSE]
                                                    ELSE call[p]]

-----------------------------------------------------------------------------
(* Workers: taskq_thread, with spawning and stopping left to TaskqThreads. *)

\* The priority list is served only when it would be the pending list's turn.
MutNextNoPrio == IF tq_pend_list # <<>> THEN {Head(tq_pend_list)} ELSE {}

\* taskq_next_ent: the priority list goes before the pending list.
taskq_next_ent == IF tq_prio_list # <<>> THEN {Head(tq_prio_list)}
                  ELSE IF tq_pend_list # <<>> THEN {Head(tq_pend_list)} ELSE {}

\* The worker holds the lock at the top of its loop, or is just back from
\* schedule() and looks for a task before it looks whether to stop.
AtTop(t) == tqt[t].pc = "top"
Woken(t) == tqt[t].pc = "idle" /\ tq_lock = Nobody

TakeTask(t) ==
    /\ Woken(t) \/ (AtTop(t) /\ t \notin stopping)
    /\ \E e \in taskq_next_ent :
        /\ tq_prio_list' = list_del(tq_prio_list, e)
        /\ tq_pend_list' = list_del(tq_pend_list, e)
        /\ tqt' = [tqt EXCEPT ![t] = [pc |-> "run", id |-> tqent_id[e],
                      ents |-> IF "PREALLOC" \in tqent_flags[e] THEN {} ELSE {e}]]
        /\ tq_active_list' = InsertById(tq_active_list, t, [tqt_id EXCEPT ![t] = tqent_id[e]])
    /\ tq_nactive' = tq_nactive + 1
    /\ tq_lock' = Nobody
    /\ UNCHANGED <<tq_active, tq_free_list, tq_delay_list, ids, pool, ents, call, stopping,
                   cancelled>>

\* The task function has returned.
FinishTask(t) ==
    /\ tqt[t].pc = "run"
    /\ call[t] = Idle
    /\ tq_lock = Nobody
    /\ tq_nactive' = tq_nactive - 1
    /\ tq_active_list' = list_del(tq_active_list, t)
    /\ IF tqt[t].ents = {} THEN UNCHANGED <<tqent_id, tqent_flags, tq_free_list, pool>>
       ELSE \E e \in tqt[t].ents : task_done(e, tqent_flags)
    /\ tq_lowest_id' = NextLowest(tqt[t].id, tq_pend_list, tq_prio_list, tq_delay_list,
                                  list_del(tq_active_list, t))
    /\ WakeWaiters
    /\ tqt' = [tqt EXCEPT ![t] = [Resting EXCEPT !.pc = "top"]]
    /\ tq_lock' = t
    /\ UNCHANGED <<tq_active, tq_next_id, tq_pend_list, tq_prio_list, tq_delay_list, timer,
                   stopping, cancelled>>

\* Nothing to do: the worker goes to sleep on tq_work_waitq.
Sleep(t) ==
    /\ AtTop(t) /\ t \notin stopping
    /\ taskq_next_ent = {}
    /\ tqt' = [tqt EXCEPT ![t] = Resting]
    /\ tq_lock' = Nobody
    /\ UNCHANGED <<tq_active, lists, ids, pool, ents, call, cancelled, tq_nactive,
                   tq_active_list, stopping>>

\* kthread_should_stop: the worker leaves its loop.
Stop(t) ==
    /\ t \in stopping
    /\ AtTop(t) \/ (Woken(t) /\ taskq_next_ent = {})
    /\ tqt' = [tqt EXCEPT ![t] = [Resting EXCEPT !.pc = "dead"]]
    /\ tq_lock' = Nobody
    /\ UNCHANGED <<tq_active, lists, ids, pool, ents, call, cancelled, tq_nactive,
                   tq_active_list, stopping>>

-----------------------------------------------------------------------------
(* taskq_destroy.                                                          *)

\* Clear TASKQ_ACTIVE and start taskq_wait.  The caller sees to it that no
\* other client is inside the taskq; tasks may still be dispatching.
DestroyBegins(p) ==
    /\ MayCall(p, "destroy")
    /\ p \in Clients
    /\ \A q \in Clients : call[q] = Idle
    /\ tq_active' = FALSE
    /\ call' = [call EXCEPT ![p] = Waiting("destroy", 0)]
    /\ UNCHANGED <<lists, ids, pool, ents, workers, cancelled>>

\* kthread_stop on one worker; the next only when that one is gone.
StopThread(p) ==
    /\ call[p].pc = "stop"
    /\ tq_lock = Nobody
    /\ \A t \in stopping : tqt[t].pc = "dead"
    /\ \E t \in Threads \ stopping : stopping' = stopping \cup {t}
    /\ UNCHANGED <<tq_active, lists, ids, pool, ents, call, cancelled, tq_nactive,
                   tq_active_list, tq_lock, tqt>>

\* Every worker is gone: the free list goes back to the heap, then the taskq.
DestroyEnds(p) ==
    /\ call[p].pc = "stop"
    /\ \A t \in Threads : tqt[t].pc = "dead"
    /\ tq_free_list' = <<>>
    /\ heap' = heap \ Range(tq_free_list)
    /\ tq_nalloc' = tq_nalloc - Len(tq_free_list)
    /\ call' = [call EXCEPT ![p] = [pc |-> "gone"]]
    /\ UNCHANGED <<tq_active, tq_pend_list, tq_prio_list, tq_delay_list, ids, ents, workers,
                   cancelled>>

-----------------------------------------------------------------------------
\* taskq_create: the workers are up, the free list is filled if asked for.
Init ==
    /\ tq_active = TRUE
    /\ tq_next_id = 1 /\ tq_lowest_id = 1
    /\ tq_free_list \in Injection(1 .. (IF Prepopulate THEN MinAlloc ELSE 0), HeapEnts)
    /\ tq_nactive = 0 /\ tq_nalloc = Len(tq_free_list)
    /\ tq_pend_list = <<>> /\ tq_prio_list = <<>> /\ tq_delay_list = <<>>
    /\ tq_active_list = <<>> /\ tq_lock = Nobody
    /\ heap = Range(tq_free_list)
    /\ tqent_id = [e \in Ents |-> INVALID]
    /\ tqent_flags = [e \in Ents |-> {}]
    /\ timer = [e \in Ents |-> "off"]
    /\ tqt = [t \in Threads |-> Resting]
    /\ call = [p \in Procs |-> Idle]
    /\ stopping = {} /\ cancelled = {}

ClientStep(p) ==
    \/ \E kind \in Kinds, how \in Hows : Dispatch(p, kind, how)
    \/ \E e \in PreEnts, kind \in {"pend", "front", "noqueue"} : DispatchEnt(p, e, kind)
    \/ \E n \in 1 .. MaxId : CancelPending(p, n) \/ CancelBusy(p, n)
    \/ \E on \in Waits, n \in 0 .. MaxId : taskq_wait(p, on, n)
    \/ DestroyBegins(p)

\* The rest of a call that has begun.
CallStep(p) ==
    \/ PollAlloc(p) \/ AllocReturns(p) \/ CancelSynced(p)
    \/ WaitReturns(p) \/ WaitSleeps(p)
    \/ StopThread(p) \/ DestroyEnds(p)

WorkerStep(t) == TakeTask(t) \/ FinishTask(t) \/ Sleep(t) \/ Stop(t)

TimerStep(e) == TimerFires(e) \/ task_expire(e)

Next ==
    \/ \E p \in Procs : ClientStep(p) \/ CallStep(p)
    \/ \E t \in Threads : WorkerStep(t)
    \/ \E e \in HeapEnts : TimerStep(e)

Spec == Init /\ [][Next]_vars

\* The kernel runs every runnable thread and every due timer; task functions
\* return; what clients choose to call is theirs.
Fairness ==
    /\ \A p \in Procs : WF_vars(CallStep(p))
    /\ \A t \in Threads : WF_vars(WorkerStep(t))
    /\ \A e \in HeapEnts : WF_vars(TimerStep(e))

FairSpec == Spec /\ Fairness

-----------------------------------------------------------------------------
(* Properties.                                                             *)

PendingIds == {tqent_id[e] : e \in Range(tq_pend_list) \cup Range(tq_prio_list)
                                   \cup Range(tq_delay_list)}
ActiveIds == {tqt[t].id : t \in Range(tq_active_list)}
Outstanding == PendingIds \cup ActiveIds

CallTypes ==
    {Idle, [pc |-> "stop"], [pc |-> "gone"]}
    \cup [pc : {"poll"}, kind : Kinds, how : {"sleep", "nosleep", "noalloc"},
          count : 0 .. MaxPolls]
    \cup [pc : {"alloc"}, kind : Kinds, how : {"sleep", "nosleep", "noalloc"}]
    \cup [pc : {"sync"}, ent : Ents]
    \cup [pc : {"wait"}, on : Waits \cup {"destroy"}, id : Nat, asleep : BOOLEAN]

\* The types of the taskq's fields, of its entries and of the calls in progress.
TypeOK ==
    /\ tq_active \in BOOLEAN
    /\ tq_next_id \in Nat /\ tq_lowest_id \in Nat
    /\ tq_nactive \in Int /\ tq_nalloc \in Int
    /\ tq_free_list \in Seq(Ents) /\ tq_pend_list \in Seq(Ents)
    /\ tq_prio_list \in Seq(Ents) /\ tq_delay_list \in Seq(Ents)
    /\ tq_active_list \in Seq(Threads)
    /\ tq_lock \in Threads \cup {Nobody}
    /\ heap \subseteq HeapEnts
    /\ tqent_id \in [Ents -> Nat]
    /\ tqent_flags \in [Ents -> SUBSET {"PREALLOC", "CANCEL"}]
    /\ timer \in [Ents -> {"off", "pending", "firing"}]
    /\ tqt \in [Threads -> [pc : {"idle", "top", "run", "dead"}, id : Nat, ents : SUBSET Ents]]
    /\ call \in [Procs -> CallTypes]
    /\ stopping \subseteq Threads
    /\ cancelled \subseteq Nat

\* tq_lowest_id is the least id that is pending, delayed or running, or the
\* next id if there is none, although it is recomputed only when the task that
\* carries it ends and then only from the heads of the lists (spl-taskq.c
\* 266-298, 386-412).
LowestIdExact == tq_lowest_id = Min(Outstanding \cup {tq_next_id})

\* The number of places where entry e is kept.
Homes(e) ==
    LET In(L) == Cardinality({i \in DOMAIN L : L[i] = e})
    IN  In(tq_free_list) + In(tq_pend_list) + In(tq_prio_list) + In(tq_delay_list)
        + Cardinality({t \in Threads : e \in tqt[t].ents})
        + Cardinality({p \in Procs : call[p].pc = "sync" /\ call[p].ent = e})

\* Every allocated entry is on one list, or run by one worker, or held by one
\* canceller, and none is reachable once freed; tq_nalloc counts them.  This
\* is what lets task_done free an entry without looking for other users.
EntriesOwned ==
    /\ tq_nalloc = Cardinality(heap)
    /\ \A e \in HeapEnts : Homes(e) = IF e \in heap THEN 1 ELSE 0
    /\ \A e \in PreEnts : Homes(e) <= 1

\* A timer that is pending, or whose function is about to run, belongs to an
\* entry that still waits on the delay list, or to one that a canceller keeps
\* until the timer is gone: task_expire never meets an entry in another state.
TimersOwned ==
    \A e \in Ents : timer[e] # "off" =>
        \/ e \in Range(tq_delay_list) /\ "CANCEL" \notin tqent_flags[e]
        \/ /\ "CANCEL" \in tqent_flags[e]
           /\ \E p \in Procs : call[p].pc = "sync" /\ call[p].ent = e

\* What taskq_destroy asserts when it frees the taskq (1183-1191): no task, no
\* entry and no timer outlives it, whatever the last tasks dispatched.
DestroyedClean ==
    (\E p \in Clients : call[p].pc = "gone") =>
        /\ tq_pend_list = <<>> /\ tq_prio_list = <<>> /\ tq_delay_list = <<>>
        /\ tq_active_list = <<>> /\ tq_nactive = 0
        /\ tq_nalloc = 0 /\ heap = {}
        /\ \A e \in Ents : timer[e] = "off"

\* tq_lowest_id never goes back: a caller that taskq_wait_outstanding once let
\* through is never blocked by an older task again (the assertions at 523, 961).
LowestIdMonotone == [][tq_lowest_id' >= tq_lowest_id]_vars

\* What has become of the task with each id, and what each thread waits for.
status ==
    [n \in 1 .. MaxId |->
        IF n >= tq_next_id THEN "unborn"
        ELSE IF n \in PendingIds THEN "queued"
        ELSE IF n \in ActiveIds THEN "running"
        ELSE IF n \in cancelled THEN "cancelled" ELSE "done"]
WaitOf(c) == IF c.pc = "wait"
             THEN [on |-> IF c.on = "destroy" THEN "all" ELSE c.on, id |-> c.id]
             ELSE [on |-> "none", id |-> 0]
waiting == [p \in Procs |-> WaitOf(call[p])]

\* What the taskq promises its users: see TaskqPromise.
Promise == INSTANCE TaskqPromise

\* The taskq implements its promise: ids in order, each task run at most once
\* and not at all once cancelled, none lost, and no wait that returns early.
KeepsPromise == Promise!Spec

\* Every task that is dispatched is run to its end or cancelled.
TasksComplete == \A n \in 1 .. MaxId : n \in Outstanding ~> n \notin Outstanding

\* Every caller of a wait function, taskq_destroy included, gets to return, and
\* taskq_destroy terminates.
WaitersReturn ==
    /\ \A p \in Procs : call[p].pc = "wait" ~> call[p].pc # "wait"
    /\ Destroying ~> \E p \in Clients : call[p].pc = "gone"

=============================================================================
