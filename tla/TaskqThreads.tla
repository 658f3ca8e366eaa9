---------------------------- MODULE TaskqThreads ----------------------------
(***************************************************************************)
(* The thread side of module/spl/spl-taskq.c for one taskq, dynamic or not: *)
(* how taskq_create starts its workers, how they sleep on tq_work_waitq and *)
(* are woken, how a dynamic taskq spawns workers through dynamic_taskq and  *)
(* lets them go, and how taskq_destroy takes the pool down.                 *)
(*                                                                         *)
(* Tasks are numbers; the order of the lists and the ids are in Taskq.      *)
(* tq_lock is held across steps only by a worker at the top of its loop.    *)
(***************************************************************************)
EXTENDS Integers, Sequences, FiniteSets, SequencesExt

CONSTANTS
    Threads,        \* kernel threads; a thread that exits can be created anew
    Tasks,          \* the tasks dispatched, each once
    Needs,          \* Needs[n]: tasks that must be over before n's function returns
    Kinds,          \* ways of dispatch in use: "queue", "noqueue", "delay"
    Dynamic,        \* TASKQ_DYNAMIC (and spl_taskq_thread_dynamic)
    MaxThreads,     \* tq_maxthreads
    Sequential,     \* spl_taskq_thread_sequential
    CreateMayFail,  \* may spl_kthread_create fail
    MayDestroy,     \* may the taskq be destroyed while it is in use
    SpawnMayFail,   \* may the TQ_NOSLEEP dispatch to dynamic_taskq fail
    Nobody          \* no thread

ASSUME ThreadConstants ==
    /\ IsFiniteSet(Threads) /\ IsFiniteSet(Tasks)
    /\ MaxThreads \in 1 .. Cardinality(Threads) /\ Sequential \in Nat
    /\ Needs \in [Tasks -> SUBSET Tasks]
    /\ Kinds \subseteq {"queue", "noqueue", "delay"}
    /\ {Dynamic, CreateMayFail, SpawnMayFail, MayDestroy} \subseteq BOOLEAN
    /\ Nobody \notin Threads

VARIABLES
    tq_active, tq_nthreads, tq_nspawn, tq_nactive, tq_lock,
    tq_thread_list, tq_work_waitq,
    queued,      \* tasks on the pending and priority lists
    delayed,     \* tasks on the delay list
    waking,      \* expired tasks whose timer has yet to call wake_up
    done,        \* tasks whose function has returned
    spawnq,      \* thread_spawn tasks of this taskq on dynamic_taskq
    lost,        \* history: thread_spawn tasks that dynamic_taskq refused
    th,          \* per thread: "none", "created", "top", "sleep", "woken", "run"
    task,        \* per thread: the tasks it runs
    seq_tasks,   \* per thread: tasks run since it last slept or spawned
    owner,       \* where the thread in taskq_create or taskq_destroy is
    asleep,      \* that thread sleeps on tq_wait_waitq
    target       \* the thread taskq_destroy is about to stop, or stops

work == <<queued, delayed, waking, done>>
counts == <<tq_nthreads, tq_nspawn, tq_nactive>>
threads == <<th, task, seq_tasks, tq_thread_list, tq_work_waitq, tq_lock>>
ownervars == <<owner, asleep, target>>
spawns == <<spawnq, lost>>
vars == <<tq_active, counts, work, spawns, threads, ownervars>>

LockFree == tq_lock = Nobody
Running == UNION {task[t] : t \in Threads}
Outstanding == queued \cup delayed \cup Running
Started(t) == th[t] \notin {"none", "created"}

\* list_del on a list of threads.
Without(s, t) == SelectSeq(s, LAMBDA u : u # t)

\* wake_up(&tq->tq_work_waitq): the first exclusive waiter that still sleeps.
WakeOne(f) ==
    LET sleeping == {i \in DOMAIN tq_work_waitq : f[tq_work_waitq[i]] = "sleep"}
    IN  IF sleeping = {} THEN f ELSE [f EXCEPT ![tq_work_waitq[Min(sleeping)]] = "woken"]

-----------------------------------------------------------------------------
(* Spawning.                                                               *)

\* Off by one: a thread more than tq_maxthreads.
MutCanSpawnLe(nthreads, nspawn) ==
    /\ Dynamic
    /\ nthreads + nspawn <= MaxThreads
    /\ tq_active

\* The condition of taskq_thread_spawn, with the counters of the moment.
CanSpawn(nthreads, nspawn) ==
    /\ Dynamic
    /\ nthreads + nspawn < MaxThreads
    /\ tq_active

\* taskq_thread_spawn when it is wanted: its result (the dispatch to
\* dynamic_taskq may be refused, which nobody looks at).
taskq_thread_spawn(wanted) ==
    IF wanted /\ CanSpawn(tq_nthreads, tq_nspawn)
    THEN /\ tq_nspawn' = tq_nspawn + 1
         /\ \/ spawnq' = spawnq + 1 /\ UNCHANGED lost
            \/ SpawnMayFail /\ lost' = lost + 1 /\ UNCHANGED spawnq
    ELSE UNCHANGED <<tq_nspawn, spawns>>

\* taskq_thread_spawn_task, run by dynamic_taskq: taskq_thread_create, or the
\* count is given back.
taskq_thread_spawn_task ==
    /\ spawnq > 0
    /\ spawnq' = spawnq - 1 /\ UNCHANGED lost
    /\ \/ /\ \E t \in Threads : /\ th[t] = "none"
                                /\ th' = [th EXCEPT ![t] = "created"]
          /\ UNCHANGED tq_nspawn
       \/ /\ CreateMayFail
          /\ LockFree
          /\ tq_nspawn' = tq_nspawn - 1
          /\ UNCHANGED th
    /\ UNCHANGED <<tq_active, tq_nthreads, tq_nactive, work, task, seq_tasks, tq_thread_list,
                   tq_work_waitq, tq_lock, ownervars>>

\* Only a taskq with an idle thread is kicked.
MutKickIdle ==
    /\ LockFree /\ owner = "up" /\ queued # {}
    /\ tq_nactive < tq_nthreads
    /\ CanSpawn(tq_nthreads, tq_nspawn)
    /\ taskq_thread_spawn(TRUE)
    /\ UNCHANGED <<tq_active, tq_nthreads, tq_nactive, work, threads, ownervars>>

\* param_set_taskq_kick finds a task that has waited for long.
Kick ==
    /\ LockFree
    /\ owner = "up"
    /\ queued # {}
    /\ CanSpawn(tq_nthreads, tq_nspawn)
    /\ taskq_thread_spawn(TRUE)
    /\ UNCHANGED <<tq_active, tq_nthreads, tq_nactive, work, threads, ownervars>>

-----------------------------------------------------------------------------
(* Dispatch, by a client or by a task; once the taskq is being destroyed   *)
(* only its own tasks still call it.                                       *)

MayDispatch(n) ==
    /\ LockFree
    /\ n \notin Outstanding \cup done
    /\ owner = "up" \/ (owner \notin {"creating", "gone"} /\ Running # {})

\* taskq_dispatch and taskq_dispatch_ent.
Dispatch(n) ==
    /\ "queue" \in Kinds /\ MayDispatch(n)
    /\ tq_active
    /\ queued' = queued \cup {n}
    /\ th' = WakeOne(th)
    /\ taskq_thread_spawn(tq_nactive = tq_nthreads)
    /\ UNCHANGED <<tq_active, tq_nthreads, tq_nactive, delayed, waking, done, task, seq_tasks,
                   tq_thread_list, tq_work_waitq, tq_lock, ownervars>>

\* taskq_dispatch with TQ_NOQUEUE: refused unless a thread is idle or spawned.
DispatchNoQueue(n) ==
    /\ "noqueue" \in Kinds /\ MayDispatch(n)
    /\ tq_active
    /\ tq_nactive = tq_nthreads => CanSpawn(tq_nthreads, tq_nspawn)
    /\ taskq_thread_spawn(tq_nactive = tq_nthreads)
    /\ queued' = queued \cup {n}
    /\ th' = WakeOne(th)
    /\ UNCHANGED <<tq_active, tq_nthreads, tq_nactive, delayed, waking, done, task, seq_tasks,
                   tq_thread_list, tq_work_waitq, tq_lock, ownervars>>

\* taskq_dispatch_delay: nobody is woken yet.
DispatchDelay(n) ==
    /\ "delay" \in Kinds /\ MayDispatch(n)
    /\ tq_active
    /\ delayed' = delayed \cup {n}
    /\ taskq_thread_spawn(tq_nactive = tq_nthreads)
    /\ UNCHANGED <<tq_active, tq_nthreads, tq_nactive, queued, waking, done, threads, ownervars>>

\* The wakeup before the task is on the list.
MutExpireWakesFirst(n) ==
    /\ n \in delayed
    /\ LockFree
    /\ delayed' = delayed \ {n}
    /\ queued' = queued \cup {n}
    /\ UNCHANGED <<tq_active, counts, waking, done, spawns, threads, ownervars>>

\* task_expire_impl, in and after its critical section.
Expire(n) ==
    /\ n \in delayed
    /\ LockFree
    /\ delayed' = delayed \ {n}
    /\ queued' = queued \cup {n}
    /\ waking' = waking \cup {n}
    /\ UNCHANGED <<tq_active, counts, done, spawns, threads, ownervars>>

ExpireWakes(n) ==
    /\ n \in waking
    /\ waking' = waking \ {n}
    /\ th' = WakeOne(th)
    /\ UNCHANGED <<tq_active, counts, queued, delayed, done, spawns, task, seq_tasks,
                   tq_thread_list, tq_work_waitq, tq_lock, ownervars>>

-----------------------------------------------------------------------------
(* Workers: taskq_thread.                                                  *)

\* taskq_wait is not woken.
MutNoWakeOwner == UNCHANGED asleep

\* wake_up_all(&tq->tq_wait_waitq): the only waiter here is the owner.
WakeOwner == asleep' = FALSE

\* A new worker gets the lock, counts itself in and enters its loop; it leaves
\* at once if there are too many already.
ThreadStart(t) ==
    /\ th[t] = "created"
    /\ LockFree
    /\ tq_nspawn' = IF Dynamic THEN tq_nspawn - 1 ELSE tq_nspawn
    /\ IF tq_nthreads >= MaxThreads
       THEN /\ th' = [th EXCEPT ![t] = "none"]
            /\ UNCHANGED <<tq_nthreads, tq_thread_list, tq_lock, asleep>>
       ELSE /\ th' = [th EXCEPT ![t] = "top"]
            /\ tq_nthreads' = tq_nthreads + 1
            /\ tq_thread_list' = Append(tq_thread_list, t)
            /\ tq_lock' = t
            /\ WakeOwner
    /\ seq_tasks' = [seq_tasks EXCEPT ![t] = 0]
    /\ UNCHANGED <<tq_active, tq_nactive, work, spawns, task, tq_work_waitq, owner, target>>

\* kthread_should_stop.
kthread_should_stop(t) == owner = "joining" /\ target = t

\* The first thread is not exempt.
MutShouldStopFirst(t) ==
    /\ Dynamic
    /\ tq_nspawn = 0 /\ tq_nactive = 0 /\ tq_nthreads > 1
    /\ queued = {}

taskq_thread_should_stop(t) ==
    /\ Dynamic
    /\ Head(tq_thread_list) # t
    /\ tq_nspawn = 0 /\ tq_nactive = 0 /\ tq_nthreads > 1
    /\ queued = {}

\* The end of taskq_thread.
Exit(t) ==
    /\ th' = [th EXCEPT ![t] = "none"]
    /\ tq_nthreads' = tq_nthreads - 1
    /\ tq_thread_list' = Without(tq_thread_list, t)
    /\ tq_lock' = Nobody

AtTop(t) == th[t] = "top"

\* The loop's condition: the thread is told to stop.
ExitStopped(t) ==
    /\ AtTop(t) /\ kthread_should_stop(t)
    /\ Exit(t)
    /\ UNCHANGED <<tq_active, tq_nspawn, tq_nactive, work, spawns, task, seq_tasks,
                   tq_work_waitq, ownervars>>

\* No task: a dynamic taskq may let the thread go.
ExitIdle(t) ==
    /\ AtTop(t) /\ ~kthread_should_stop(t)
    /\ taskq_thread_should_stop(t)
    /\ Exit(t)
    /\ WakeOwner
    /\ UNCHANGED <<tq_active, tq_nspawn, tq_nactive, work, spawns, task, seq_tasks,
                   tq_work_waitq, owner, target>>

\* No task: the thread waits for one.
Sleep(t) ==
    /\ AtTop(t) /\ ~kthread_should_stop(t)
    /\ queued = {}
    /\ ~taskq_thread_should_stop(t)
    /\ th' = [th EXCEPT ![t] = "sleep"]
    /\ tq_work_waitq' = Append(tq_work_waitq, t)
    /\ tq_lock' = Nobody
    /\ UNCHANGED <<tq_active, counts, work, spawns, task, seq_tasks, tq_thread_list, ownervars>>

\* Take a task and run it without the lock.
Take(t) ==
    /\ \E n \in queued :
          /\ queued' = queued \ {n}
          /\ task' = [task EXCEPT ![t] = {n}]
    /\ tq_nactive' = tq_nactive + 1
    /\ th' = [th EXCEPT ![t] = "run"]
    /\ tq_lock' = Nobody
    /\ UNCHANGED <<tq_active, tq_nthreads, tq_nspawn, delayed, waking, done, spawns,
                   tq_thread_list, ownervars>>

TakeAtTop(t) ==
    /\ AtTop(t) /\ ~kthread_should_stop(t)
    /\ Take(t)
    /\ UNCHANGED <<tq_work_waitq, seq_tasks>>

\* The thread is back from schedule(): it leaves the wait queue, and takes a
\* task, exits, or goes round its loop.
WokenTakes(t) ==
    /\ th[t] = "woken" /\ LockFree
    /\ Take(t)
    /\ tq_work_waitq' = Without(tq_work_waitq, t)
    /\ seq_tasks' = [seq_tasks EXCEPT ![t] = 0]

WokenExits(t) ==
    /\ th[t] = "woken" /\ LockFree
    /\ taskq_thread_should_stop(t)
    /\ Exit(t)
    /\ tq_work_waitq' = Without(tq_work_waitq, t)
    /\ UNCHANGED <<tq_active, tq_nspawn, tq_nactive, work, spawns, task, seq_tasks, ownervars>>

WokenLoops(t) ==
    /\ th[t] = "woken" /\ LockFree
    /\ queued = {} /\ ~taskq_thread_should_stop(t)
    /\ th' = [th EXCEPT ![t] = "top"]
    /\ tq_lock' = t
    /\ tq_work_waitq' = Without(tq_work_waitq, t)
    /\ seq_tasks' = [seq_tasks EXCEPT ![t] = 0]
    /\ UNCHANGED <<tq_active, counts, work, spawns, task, tq_thread_list, ownervars>>

\* The task function returns: after a run of tasks another thread is asked for.
Finish(t) ==
    /\ th[t] = "run" /\ LockFree
    /\ \A n \in task[t] : Needs[n] \subseteq done
    /\ tq_nactive' = tq_nactive - 1
    /\ done' = done \cup task[t]
    /\ task' = [task EXCEPT ![t] = {}]
    /\ LET many == seq_tasks[t] + 1 > Sequential
       IN  /\ taskq_thread_spawn(many)
           /\ seq_tasks' = [seq_tasks EXCEPT ![t] =
                 IF many /\ CanSpawn(tq_nthreads, tq_nspawn) THEN 0
                 ELSE IF many THEN Sequential + 1 ELSE @ + 1]
    /\ WakeOwner
    /\ th' = [th EXCEPT ![t] = "top"]
    /\ tq_lock' = t
    /\ UNCHANGED <<tq_active, tq_nthreads, queued, delayed, waking, tq_thread_list,
                   tq_work_waitq, owner, target>>

-----------------------------------------------------------------------------
(* The owner: taskq_create and taskq_destroy.                              *)

OwnerAt(here, to) == owner = here /\ owner' = to
Untouched == UNCHANGED <<tq_active, counts, work, spawns, threads>>

\* A wait_event of the owner: go on, or sleep until the next wakeup.
WaitEvent(here, to, condition) ==
    /\ owner = here /\ ~asleep
    /\ IF condition THEN owner' = to /\ UNCHANGED asleep
                    ELSE asleep' = TRUE /\ UNCHANGED owner

\* taskq_create waits for its threads and resets tq_nspawn; if some could not
\* be created it destroys the taskq.
FirstThreads == IF Dynamic THEN 1 ELSE MaxThreads

CreateReturns ==
    /\ LET count == tq_nthreads + Cardinality({t \in Threads : th[t] = "created"})
       IN  WaitEvent("creating", IF count < FirstThreads THEN "destroy" ELSE "up",
                     tq_nthreads = count)
    /\ tq_nspawn' = IF owner' = "creating" THEN tq_nspawn ELSE 0
    /\ UNCHANGED <<tq_active, tq_nthreads, tq_nactive, work, spawns, threads, target>>

\* taskq_destroy clears TASKQ_ACTIVE ...
DestroyBegins ==
    /\ owner = "destroy" \/ (owner = "up" /\ MayDestroy)
    /\ owner' = "dynwait"
    /\ LockFree
    /\ tq_active' = FALSE
    /\ UNCHANGED <<counts, work, spawns, threads, asleep, target>>

\* ... waits until dynamic_taskq has run the spawn tasks dispatched so far ...
DynamicTaskqDrained ==
    /\ OwnerAt("dynwait", "wait")
    /\ spawnq = 0
    /\ Untouched /\ UNCHANGED <<asleep, target>>

\* ... then taskq_wait ...
TaskqWait ==
    /\ LockFree
    /\ WaitEvent("wait", "nspawn", Outstanding = {})
    /\ Untouched /\ UNCHANGED target

\* Threads on their way are not waited for.
MutNoSpawnWait ==
    /\ OwnerAt("nspawn", "stop")
    /\ LockFree
    /\ Untouched /\ UNCHANGED <<asleep, target>>

\* ... polls until no thread is being spawned ...
SpawnsSettled ==
    /\ OwnerAt("nspawn", "stop")
    /\ LockFree
    /\ tq_nspawn = 0
    /\ Untouched /\ UNCHANGED <<asleep, target>>

\* ... picks the first thread of the list, drops the lock ...
PickThread ==
    /\ OwnerAt("stop", "picked")
    /\ LockFree
    /\ tq_thread_list # <<>>
    /\ target' = Head(tq_thread_list)
    /\ Untouched /\ UNCHANGED asleep

\* ... stops it, which wakes it, and waits for its exit ...
kthread_stop ==
    /\ OwnerAt("picked", "joining")
    /\ th' = [th EXCEPT ![target] = IF @ = "sleep" THEN "woken" ELSE @]
    /\ UNCHANGED <<tq_active, counts, work, spawns, task, seq_tasks, tq_thread_list,
                   tq_work_waitq, tq_lock, asleep, target>>

Joined ==
    /\ OwnerAt("joining", "stop")
    /\ LockFree
    /\ th[target] = "none"
    /\ target' = Nobody
    /\ Untouched /\ UNCHANGED asleep

\* ... and frees the taskq when the list is empty.
DestroyEnds ==
    /\ OwnerAt("stop", "gone")
    /\ LockFree
    /\ tq_thread_list = <<>>
    /\ Untouched /\ UNCHANGED <<asleep, target>>

-----------------------------------------------------------------------------
\* taskq_create has created its threads, or as many as it could.
Init ==
    /\ tq_active = TRUE
    /\ tq_nthreads = 0 /\ tq_nspawn = 0 /\ tq_nactive = 0 /\ tq_lock = Nobody
    /\ tq_thread_list = <<>> /\ tq_work_waitq = <<>>
    /\ queued = {} /\ delayed = {} /\ waking = {} /\ done = {} /\ spawnq = 0 /\ lost = 0
    /\ \E first \in SUBSET Threads :
          /\ Cardinality(first) <= FirstThreads
          /\ CreateMayFail \/ Cardinality(first) = FirstThreads
          /\ th = [t \in Threads |-> IF t \in first THEN "created" ELSE "none"]
    /\ task = [t \in Threads |-> {}]
    /\ seq_tasks = [t \in Threads |-> 0]
    /\ owner = "creating" /\ asleep = FALSE /\ target = Nobody

WorkerStep(t) ==
    \/ ThreadStart(t) \/ ExitStopped(t) \/ ExitIdle(t) \/ Sleep(t) \/ TakeAtTop(t)
    \/ WokenTakes(t) \/ WokenExits(t) \/ WokenLoops(t) \/ Finish(t)

OwnerStep ==
    \/ CreateReturns \/ DynamicTaskqDrained \/ TaskqWait \/ SpawnsSettled
    \/ PickThread \/ kthread_stop \/ Joined \/ DestroyEnds

\* A taskq_create or taskq_destroy that has begun.
OwnerProceeds == OwnerStep \/ (owner = "destroy" /\ DestroyBegins)

TimerStep(n) == Expire(n) \/ ExpireWakes(n)

Next ==
    \/ \E n \in Tasks : Dispatch(n) \/ DispatchNoQueue(n) \/ DispatchDelay(n) \/ TimerStep(n)
    \/ \E t \in Threads : WorkerStep(t)
    \/ taskq_thread_spawn_task \/ Kick
    \/ DestroyBegins \/ OwnerStep

Spec == Init /\ [][Next]_vars

\* Threads and timers run, task functions return once what they wait for is
\* done, dynamic_taskq serves its queue; nobody has to kick or to destroy.
Fairness ==
    /\ \A t \in Threads : WF_vars(WorkerStep(t))
    /\ \A n \in Tasks : WF_vars(TimerStep(n))
    /\ WF_vars(taskq_thread_spawn_task)
    /\ WF_vars(OwnerProceeds)

FairSpec == Spec /\ Fairness

-----------------------------------------------------------------------------
(* Properties.                                                             *)

\* The types of the taskq's counters, lists and threads.
TypeOK ==
    /\ tq_active \in BOOLEAN
    /\ tq_nthreads \in Int /\ tq_nspawn \in Int /\ tq_nactive \in Int
    /\ spawnq \in Nat /\ lost \in Nat
    /\ tq_lock \in Threads \cup {Nobody}
    /\ tq_thread_list \in Seq(Threads) /\ tq_work_waitq \in Seq(Threads)
    /\ queued \subseteq Tasks /\ delayed \subseteq Tasks
    /\ waking \subseteq Tasks /\ done \subseteq Tasks
    /\ th \in [Threads -> {"none", "created", "top", "sleep", "woken", "run"}]
    /\ task \in [Threads -> SUBSET Tasks]
    /\ seq_tasks \in [Threads -> 0 .. Sequential + 1]
    /\ owner \in {"creating", "up", "destroy", "dynwait", "wait", "nspawn", "stop", "picked",
                  "joining", "gone"}
    /\ asleep \in BOOLEAN /\ target \in Threads \cup {Nobody}

\* The counters agree with the threads there are: tq_nthreads with the list,
\* tq_nactive with the running tasks, and tq_nspawn with the spawns that are
\* on dynamic_taskq or whose thread has not started, none forgotten and none
\* counted twice, so that taskq_destroy's wait for tq_nspawn (1149) is sound; a
\* spawn that dynamic_taskq refused stays in the count for good.  Together they
\* never exceed tq_maxthreads, even when creations fail or are refused.
SpawnsAccounted ==
    /\ TypeOK
    /\ tq_nthreads = Len(tq_thread_list)
    /\ Range(tq_thread_list) = {t \in Threads : Started(t)}
    /\ tq_nactive = Cardinality({t \in Threads : th[t] = "run"})
    /\ owner # "creating" =>
          /\ tq_nspawn = spawnq + lost + Cardinality({t \in Threads : th[t] = "created"})
          /\ tq_nthreads + tq_nspawn \in 0 .. MaxThreads

\* The thread that taskq_destroy picked, and stops without the lock, is still
\* there: no idle thread lets itself go while it is the first of the list
\* (1166-1169 against 832-848).
StopTargetAlive == owner = "picked" => Started(target)

\* Work is never left with nobody to run it: while the taskq can be used it has
\* a worker, however idle threads let themselves go, and with a task queued one
\* is awake or will be woken by the timer that queued it.
NoLostWakeup ==
    /\ owner = "up" => tq_thread_list # <<>>
    /\ queued # {} => \/ waking # {}
                      \/ \E t \in Threads : th[t] \in {"woken", "top", "run"}

\* What taskq_destroy asserts before it frees the taskq (1183-1191), and no
\* thread is left that could still use it.
DestroyedClean ==
    owner = "gone" =>
        /\ tq_nthreads = 0 /\ tq_nspawn = 0
        /\ queued = {} /\ delayed = {}
        /\ \A t \in Threads : th[t] = "none"

\* A task that is dispatched is run and returns.
TasksComplete == \A n \in Tasks : n \in Outstanding ~> n \in done

\* Tasks that wait for other tasks of the same taskq get their answer once all
\* are dispatched: the taskq has or spawns a thread for each, or is kicked to do
\* so (spl_taskq_kick), as far as tq_maxthreads allows.
DependentTasksComplete == (Outstanding \cup done = Tasks) ~> (done = Tasks)

\* taskq_destroy terminates once it is called, as does the taskq_create that
\* could not create its threads.
DestroyCompletes == owner \in {"destroy", "dynwait"} ~> owner = "gone"

=============================================================================
