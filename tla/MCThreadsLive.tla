--------------------------- MODULE MCThreadsLive ----------------------------
(* Three small instances of TaskqThreads for liveness; a behaviour runs the  *)
(* one in config.  "free": a dynamic taskq, independent tasks, destroy at    *)
(* any time.  "static": a fixed pool, a task that waits for a later one.     *)
(* "kicked": the same on a dynamic taskq, which is kicked.                   *)
EXTENDS Integers

CONSTANTS Threads, Nobody, t1, t2

VARIABLES
    tq_active, tq_nthreads, tq_nspawn, tq_nactive, tq_lock, tq_thread_list,
    tq_work_waitq, queued, delayed, waking, done, spawnq, lost, th, task, seq_tasks,
    owner, asleep, target,
    config

NTasks == 1 .. 3
FirstWaits == [n \in NTasks |-> IF n = 1 THEN {2} ELSE {}]

Configs == {"free", "static", "kicked"}

T(c) == INSTANCE TaskqThreads WITH
    Tasks <- NTasks,
    Needs <- IF c = "free" THEN [n \in NTasks |-> {}] ELSE FirstWaits,
    Kinds <- IF c = "kicked" THEN {"queue"} ELSE {"queue", "delay"},
    Dynamic <- (c # "static"),
    MaxThreads <- 2, Sequential <- 0,
    CreateMayFail <- (c # "kicked"), SpawnMayFail <- FALSE,
    MayDestroy <- (c = "free")

vars == <<tq_active, tq_nthreads, tq_nspawn, tq_nactive, tq_lock, tq_thread_list,
          tq_work_waitq, queued, delayed, waking, done, spawnq, lost, th, task, seq_tasks,
          owner, asleep, target, config>>

Init == \E c \in Configs : config = c /\ T(c)!Init

In(c) == config = c /\ UNCHANGED config

Next == \E c \in Configs : In(c) /\ T(c)!Next

\* The fairness of TaskqThreads, in each instance.
Fairness ==
    \A c \in Configs :
        /\ \A t \in Threads : WF_vars(In(c) /\ T(c)!WorkerStep(t))
        /\ \A n \in NTasks : WF_vars(In(c) /\ T(c)!TimerStep(n))
        /\ WF_vars(In(c) /\ T(c)!taskq_thread_spawn_task)
        /\ WF_vars(In(c) /\ T(c)!OwnerProceeds)

FairSpec == Init /\ [][Next]_vars /\ Fairness /\ WF_vars(In("kicked") /\ T("kicked")!Kick)

\* A task that waits for no other one is run and returns, though threads are refused,
\* let go and spawned again; and tasks that wait for other tasks of the same taskq get
\* their answer once all are dispatched: a fixed pool has a thread for each, and a
\* dynamic one is kicked until it does (spl_taskq_kick).
TasksComplete ==
    /\ config = "free" => T("free")!TasksComplete
    /\ T("free")!DependentTasksComplete

\* taskq_destroy terminates once it is called, as does the taskq_create that could
\* not create its threads.
DestroyCompletes == T("free")!DestroyCompletes

=============================================================================
