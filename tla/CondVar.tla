------------------------------ MODULE CondVar -------------------------------
(* The condition variables of spl-condvar.c, step by step, used the way the  *)
(* header asks for: consumers wait under a mutex for items, producers add    *)
(* items under it and signal, and an owner shuts down and destroys the       *)
(* condition variable.  Mutex.tla has the mutex itself.                      *)
EXTENDS Naturals, FiniteSets, SequencesExt

CONSTANTS
    Consumers, Producers, Owners,   \* the threads; at most one owner
    Mutexes,        \* the mutexes that are used with the condition variable
    MutexOf,        \* MutexOf[p]: the one thread p uses
    Timed,          \* waits are cv_timedwait or cv_wait_sig: they can end early
    Broadcasters,   \* the producers that call cv_broadcast, not cv_signal
    NoMutex, Nobody \* NULL

Threads == Consumers \cup Producers \cup Owners

VARIABLES
    pc,         \* pc[p]: where thread p is
    owner,      \* owner[m]: the thread that holds mutex m
    items,      \* items[m]: the condition the threads of mutex m wait for
    closing,    \* the owner is shutting down
    refs,       \* cv_refs
    waiters,    \* cv_waiters
    cvmutex,    \* cv_mutex
    event,      \* the wait queue cv_event
    blocked,    \* threads whose task state is not TASK_RUNNING
    freed       \* cv_destroy has returned and the memory is gone

cv == <<refs, waiters, cvmutex, event>>
vars == <<pc, owner, items, closing, cv, blocked, freed>>

\* The steps between atomic_inc(&cv_refs) and atomic_dec(&cv_refs) of a call.
WaitPcs   == {"mutex", "xchg", "prepare", "count", "drop", "sleep", "clear", "finish", "unref"}
SignalPcs == {"wake", "unrefsig"}
Pcs == {"start", "test", "ref", "enter", "put", "signal", "exit", "done",
        "close", "destroy", "waiters", "refs", "free"} \cup WaitPcs \cup SignalPcs

Init ==
    /\ pc = [p \in Threads |-> "start"]
    /\ owner = [m \in Mutexes |-> Nobody]
    /\ items = [m \in Mutexes |-> 0]
    /\ closing = FALSE
    /\ refs = 1
    /\ waiters = 0
    /\ cvmutex = NoMutex
    /\ event = <<>>
    /\ blocked = {}
    /\ freed = FALSE

Goto(p, l) == pc' = [pc EXCEPT ![p] = l]
At(p, l, next) == pc[p] = l /\ Goto(p, next)

\* mutex_enter and mutex_exit.
Lock(p)   == owner[MutexOf[p]] = Nobody /\ owner' = [owner EXCEPT ![MutexOf[p]] = p]
Unlock(p) == owner' = [owner EXCEPT ![MutexOf[p]] = Nobody]

------------------------------------------------------------------------------
(* A consumer: while there is no item, cv_wait; then take one.               *)

Start(p) ==
    /\ pc[p] = "start"
    /\ Lock(p)
    /\ Goto(p, CASE p \in Consumers -> "test" [] p \in Producers -> "put" [] OTHER -> "close")
    /\ UNCHANGED <<items, closing, cv, blocked, freed>>

\* cv_timedwait can come back with nothing to take; the consumer waits again.
Test(p) ==
    /\ pc[p] = "test"
    /\ \/ /\ items[MutexOf[p]] > 0
          /\ items' = [items EXCEPT ![MutexOf[p]] = @ - 1]
          /\ Goto(p, "exit")
       \/ /\ items[MutexOf[p]] = 0 /\ closing
          /\ Goto(p, "exit") /\ UNCHANGED items
       \/ /\ items[MutexOf[p]] = 0 /\ ~closing
          /\ Goto(p, "ref") /\ UNCHANGED items
    /\ UNCHANGED <<owner, closing, cv, blocked, freed>>

Exit(p) ==
    /\ At(p, "exit", "done")
    /\ Unlock(p)
    /\ UNCHANGED <<items, closing, cv, blocked, freed>>

------------------------------------------------------------------------------
(* cv_wait_common; __cv_timedwait_common and __cv_timedwait_hires differ in  *)
(* what ends the sleep.                                                      *)

WaitRef(p) ==
    /\ At(p, "ref", "mutex")
    /\ refs' = refs + 1
    /\ UNCHANGED <<owner, items, closing, waiters, cvmutex, event, blocked, freed>>

\* m = ACCESS_ONCE(cvp->cv_mutex), and the assertion on what was read.
WaitMutex(p) ==
    /\ pc[p] = "mutex"
    /\ Goto(p, IF cvmutex = NoMutex THEN "xchg" ELSE "prepare")
    /\ UNCHANGED <<owner, items, closing, cv, blocked, freed>>

WaitXchg(p) ==
    /\ At(p, "xchg", "prepare")
    /\ cvmutex' = MutexOf[p]
    /\ UNCHANGED <<owner, items, closing, refs, waiters, event, blocked, freed>>

\* A wait that gives up the mutex before the thread is counted.
MutWaitPrepare(p) ==
    /\ At(p, "prepare", "count")
    /\ event' = Append(event, p)
    /\ blocked' = blocked \cup {p}
    /\ Unlock(p)
    /\ UNCHANGED <<items, closing, refs, waiters, cvmutex, freed>>

\* prepare_to_wait_exclusive links the thread at the end of the queue.
WaitPrepare(p) ==
    /\ At(p, "prepare", "count")
    /\ event' = Append(event, p)
    /\ blocked' = blocked \cup {p}
    /\ UNCHANGED <<owner, items, closing, refs, waiters, cvmutex, freed>>

WaitCount(p) ==
    /\ At(p, "count", "drop")
    /\ waiters' = waiters + 1
    /\ UNCHANGED <<owner, items, closing, refs, cvmutex, event, blocked, freed>>

WaitDrop(p) ==
    /\ At(p, "drop", "sleep")
    /\ Unlock(p)
    /\ UNCHANGED <<items, closing, cv, blocked, freed>>

\* A timeout or signal makes the thread run, still linked in the queue.
WaitTimeout(p) ==
    /\ Timed /\ pc[p] = "sleep" /\ p \in blocked
    /\ blocked' = blocked \ {p}
    /\ UNCHANGED <<pc, owner, items, closing, cv, freed>>

\* schedule() returns; atomic_dec_and_test(&cv_waiters).
WaitUncount(p) ==
    /\ pc[p] = "sleep" /\ p \notin blocked
    /\ waiters' = waiters - 1
    /\ Goto(p, IF waiters = 1 THEN "clear" ELSE "finish")
    /\ UNCHANGED <<owner, items, closing, refs, cvmutex, event, blocked, freed>>

\* The last waiter clears cv_mutex; the wake_up of cv_destroy ends a poll that
\* a timeout of one tick ends anyway.
WaitClear(p) ==
    /\ At(p, "clear", "finish")
    /\ cvmutex' = NoMutex
    /\ UNCHANGED <<owner, items, closing, refs, waiters, event, blocked, freed>>

WaitFinish(p) ==
    /\ At(p, "finish", "unref")
    /\ event' = Remove(event, p)
    /\ UNCHANGED <<owner, items, closing, refs, waiters, cvmutex, blocked, freed>>

\* A wait that takes the mutex before it drops its reference.
MutWaitUnref(p) ==
    /\ At(p, "unref", "test")
    /\ Lock(p)
    /\ refs' = refs - 1
    /\ UNCHANGED <<items, closing, waiters, cvmutex, event, blocked, freed>>

WaitUnref(p) ==
    /\ At(p, "unref", "enter")
    /\ refs' = refs - 1
    /\ UNCHANGED <<owner, items, closing, waiters, cvmutex, event, blocked, freed>>

WaitEnter(p) ==
    /\ At(p, "enter", "test")
    /\ Lock(p)
    /\ UNCHANGED <<items, closing, cv, blocked, freed>>

------------------------------------------------------------------------------
(* A producer: add an item under the mutex, cv_signal or cv_broadcast.       *)

Put(p) ==
    /\ At(p, "put", "signal")
    /\ items' = [items EXCEPT ![MutexOf[p]] = @ + 1]
    /\ UNCHANGED <<owner, closing, cv, blocked, freed>>

SignalRef(p) ==
    /\ At(p, "signal", "wake")
    /\ refs' = refs + 1
    /\ UNCHANGED <<owner, items, closing, waiters, cvmutex, event, blocked, freed>>

\* The first thread of the queue that a wake-up finds asleep.
FirstBlocked ==
    {event[i] : i \in {k \in DOMAIN event :
                          event[k] \in blocked /\ \A j \in 1..(k - 1) : event[j] \notin blocked}}

\* wake_up wakes one thread, wake_up_all all of them, if cv_waiters > 0.
ToWake(p) ==
    IF waiters = 0 THEN {}
    ELSE IF p \in Broadcasters \cup Owners THEN ToSet(event) \cap blocked
    ELSE FirstBlocked

\* A woken thread leaves the queue (autoremove_wake_function).
SignalWake(p) ==
    /\ At(p, "wake", "unrefsig")
    /\ event' = SelectSeq(event, LAMBDA t : t \notin ToWake(p))
    /\ blocked' = blocked \ ToWake(p)
    /\ UNCHANGED <<owner, items, closing, refs, waiters, cvmutex, freed>>

SignalUnref(p) ==
    /\ pc[p] = "unrefsig"
    /\ refs' = refs - 1
    /\ Goto(p, IF p \in Owners THEN "destroy" ELSE "exit")
    /\ UNCHANGED <<owner, items, closing, waiters, cvmutex, event, blocked, freed>>

------------------------------------------------------------------------------
(* The owner: once no producer is left it tells the waiters to go, destroys  *)
(* the condition variable, all under the mutex, and frees the memory.        *)

Close(p) ==
    /\ At(p, "close", "signal")
    /\ \A q \in Producers : pc[q] = "done"
    /\ \A q \in Consumers : pc[q] # "start"
    /\ closing' = TRUE
    /\ UNCHANGED <<owner, items, cv, blocked, freed>>

\* __cv_destroy: its reference goes, then it polls cv_destroy_wakeup.
Destroy(p) ==
    /\ At(p, "destroy", "waiters")
    /\ refs' = refs - 1
    /\ UNCHANGED <<owner, items, closing, waiters, cvmutex, event, blocked, freed>>

DestroyWaiters(p) ==
    /\ At(p, "waiters", "refs")
    /\ waiters = 0
    /\ UNCHANGED <<owner, items, closing, cv, blocked, freed>>

DestroyRefs(p) ==
    /\ pc[p] = "refs"
    /\ Goto(p, IF refs = 0 THEN "free" ELSE "waiters")
    /\ UNCHANGED <<owner, items, closing, cv, blocked, freed>>

Free(p) ==
    /\ At(p, "free", "exit")
    /\ freed' = TRUE
    /\ UNCHANGED <<owner, items, closing, cv, blocked>>

Step(p) ==
    \/ Start(p) \/ Test(p) \/ Exit(p)
    \/ WaitRef(p) \/ WaitMutex(p) \/ WaitXchg(p) \/ WaitPrepare(p) \/ WaitCount(p) \/ WaitDrop(p)
    \/ WaitUncount(p) \/ WaitClear(p) \/ WaitFinish(p) \/ WaitUnref(p) \/ WaitEnter(p)
    \/ Put(p) \/ SignalRef(p) \/ SignalWake(p) \/ SignalUnref(p)
    \/ Close(p) \/ Destroy(p) \/ DestroyWaiters(p) \/ DestroyRefs(p) \/ Free(p)

Next == \E p \in Threads : Step(p) \/ WaitTimeout(p)

Spec == Init /\ [][Next]_vars

\* Threads are scheduled, and a mutex that is released again and again is given
\* to a thread that waits for it; a timeout may never come.
FairSpec == Spec /\ \A p \in Threads : SF_vars(Step(p))

------------------------------------------------------------------------------
TypeOK ==
    /\ pc \in [Threads -> Pcs]
    /\ owner \in [Mutexes -> Threads \cup {Nobody}]
    /\ items \in [Mutexes -> Nat]
    /\ closing \in BOOLEAN /\ freed \in BOOLEAN
    /\ refs \in Nat /\ waiters \in Nat
    /\ cvmutex \in Mutexes \cup {NoMutex}
    /\ event \in Seq(Threads)
    /\ blocked \subseteq Threads

\* cv_destroy returns only when nobody will touch the condition variable again,
\* in any of the three ways to wait and the two ways to wake.
FreedUntouched ==
    freed => \A p \in Threads : pc[p] \notin WaitPcs \cup SignalPcs

\* The assertions at the end of __cv_destroy, which also looks at cv_mutex and
\* the wait queue: they hold when the poll has seen no waiter and no reference.
DestroyAsserts ==
    (\E p \in Threads : pc[p] = "free") =>
        cvmutex = NoMutex /\ refs = 0 /\ waiters = 0 /\ event = <<>>

\* Wake-ups are not lost: while a consumer of a mutex is asleep there are no more
\* items than signals still to come and consumers awake and on their way to test
\* the condition.
NoLostSignal ==
    \A m \in Mutexes :
        (\E p \in Consumers : MutexOf[p] = m /\ p \in blocked) =>
            items[m] <= Cardinality({q \in Producers : MutexOf[q] = m /\ pc[q] \in {"signal"} \cup SignalPcs})
                        + Cardinality({q \in Consumers : /\ MutexOf[q] = m /\ q \notin blocked
                              /\ pc[q] \in {"sleep", "clear", "finish", "unref", "enter", "test"}})

\* "Hold mutex after we release the cvp, otherwise we could dead lock with a
\* thread holding the mutex and call cv_destroy": the owner's cv_destroy returns.
DestroyReturns ==
    \A p \in Owners : []<>(pc[p] \notin {"destroy", "waiters", "refs", "free"})

\* A consumer that waits is served or told to go when the owner shuts down.
ConsumersLeave ==
    \A p \in Consumers : []<>(closing => pc[p] = "done")

\* "No more waiters a different mutex could be used" (cv_wait_common): a thread
\* that reads cv_mutex when every other waiter has been counted out does not find
\* a mutex that is not its own.
SameMutex ==
    \A p \in Consumers :
        /\ pc[p] = "mutex"
        /\ \A q \in Threads \ {p} : pc[q] \notin {"mutex", "xchg", "prepare", "count", "drop", "sleep"}
        => cvmutex \in {NoMutex, MutexOf[p]}

=============================================================================
