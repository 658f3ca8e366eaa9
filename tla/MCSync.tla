------------------------------- MODULE MCSync -------------------------------
(* Condition variables, mutexes, reader/writer locks, thread creation and    *)
(* kstats with their readers, each a system of its own that starts in its    *)
(* initial state; a behaviour runs the one that part names and leaves the    *)
(* others there.                                                             *)
EXTENDS Naturals

CONSTANTS
    Consumers, Others, Producers, Owners, Broadcasters, Mutex1, NoMutex,
    MaxFaults, RawMax, Nobody

VARIABLES
    cv_pc, cv_owner, cv_items, closing, cv_refs, waiters, cvmutex, event, blocked, cv_freed,
    mtx_pc, locked, m_lock, m_owner, mtx_refs, last, mtx_freed,
    rw_pc, readers, writer, queue, rw_owner,
    thr_pc, tsk, tp, name, bad, faults,
    ks_pc, modules, made, ksm_name, ksm_list, ks_owner, ks_proc, reader, ks_lock,
    part

\* The users of the mutex, the threads of the lock, the creators and the readers are
\* threads of the first system again, Others some of its consumers, so that the fairness
\* can be stated thread by thread.
Workers == Consumers \cup Producers

CV == INSTANCE CondVar WITH
    Mutexes <- {Mutex1}, Timed <- TRUE,
    MutexOf <- [p \in Consumers \cup Producers \cup Owners |-> Mutex1],
    pc <- cv_pc, owner <- cv_owner, items <- cv_items, refs <- cv_refs, freed <- cv_freed

Mtx == INSTANCE Mutex WITH Users <- Workers, pc <- mtx_pc, refs <- mtx_refs, freed <- mtx_freed

Rw == INSTANCE RwLock WITH Threads <- Workers, pc <- rw_pc

Thr == INSTANCE Thread WITH Creators <- Others \cup Owners,
    Kmem <- TRUE, Errors <- {"ENOMEM", "EINTR", "other"}, pc <- thr_pc

\* Two kstats of one module.
Kstats == {"x", "y"}

K == INSTANCE Kstat WITH
    Readers <- Others, Serial <- FALSE, ModuleOf <- [k \in Kstats |-> "a"],
    NameOf <- [k \in Kstats |-> k], PathOf <- [m \in {"a"} |-> <<m>>], pc <- ks_pc

cv == <<cv_pc, cv_owner, cv_items, closing, cv_refs, waiters, cvmutex, event, blocked, cv_freed>>
mtx == <<mtx_pc, locked, m_lock, m_owner, mtx_refs, last, mtx_freed>>
rw == <<rw_pc, readers, writer, queue, rw_owner>>
thr == <<thr_pc, tsk, tp, name, bad, faults>>
kst == <<ks_pc, modules, made, ksm_name, ksm_list, ks_owner, ks_proc, reader, ks_lock>>
vars == <<cv, mtx, rw, thr, kst, part>>

Init ==
    /\ CV!Init /\ Mtx!Init /\ Rw!Init /\ Thr!Init /\ K!Init
    /\ part \in {"condvar", "mutex", "rwlock", "thread", "kstat"}

InCV  == part = "condvar" /\ UNCHANGED <<mtx, rw, thr, kst, part>>
InMtx == part = "mutex" /\ UNCHANGED <<cv, rw, thr, kst, part>>
InRw  == part = "rwlock" /\ UNCHANGED <<cv, mtx, thr, kst, part>>
InThr == part = "thread" /\ UNCHANGED <<cv, mtx, rw, kst, part>>
InK   == part = "kstat" /\ UNCHANGED <<cv, mtx, rw, thr, part>>

Next ==
    \/ InCV /\ CV!Next
    \/ InMtx /\ Mtx!Next
    \/ InRw /\ Rw!Next
    \/ InThr /\ Thr!Next
    \/ InK /\ K!Next

\* The fairness of each module; of the disjuncts under one operator only those of the
\* current part are ever enabled.
Fairness ==
    /\ \A p \in CV!Threads :
           SF_vars(\/ InCV /\ CV!Step(p)
                   \/ p \in Workers /\ InRw /\ Rw!LeaveReader(p)
                   \/ p \in Others /\ InK /\ K!ReadLock(p))
    /\ \A p \in Workers : WF_vars((InMtx /\ Mtx!Step(p)) \/ (InRw /\ Rw!Leave(p)))
    /\ \A p \in Others \cup Owners :
           /\ WF_vars((InThr /\ Thr!Step(p)) \/ (p \in Others /\ InK /\ K!Reading(p)))
           /\ WF_vars(InThr /\ Thr!Wrapper(p)) /\ WF_vars(InThr /\ Thr!Exit(p))
    /\ \A k \in Kstats : WF_vars(InK /\ K!Delete(k))

FairSpec == Init /\ [][Next]_vars /\ Fairness

------------------------------------------------------------------------------
\* Memory that threads share is freed once, and nobody touches it afterwards: the object
\* that a condition variable is in when cv_destroy has returned, the object that the last
\* user of a mutex frees while others may still be inside mutex_exit, the record handed
\* to a new thread whichever step of its creation fails, and a kstat that is read; and
\* the assertions at the end of __cv_destroy, which also look at cv_mutex and the wait
\* queue, hold when its poll has seen no waiter and no reference.
FreedUntouched ==
    /\ CV!FreedUntouched /\ CV!DestroyAsserts
    /\ Mtx!FreedUntouched /\ Thr!Handover /\ K!ReadersSafe
    /\ CV!TypeOK /\ Mtx!TypeOK /\ Rw!TypeOK /\ Thr!TypeOK /\ K!TypeOK

\* While a consumer is asleep there are no more items than signals still to come and
\* consumers awake and on their way to test the condition, timeouts included.
CvNoLostSignal == CV!NoLostSignal

\* The owner fields tell the truth: MUTEX_HELD is exact for a thread between its
\* mutex_enter and its mutex_exit, a writer of a rwlock, also one that got there by
\* rw_tryupgrade, is alone, and rw_exit finds which of the two locks its caller holds.
LocksExact == Mtx!OwnerExact /\ Rw!Exclusive /\ Rw!ExitBranch

\* cv_destroy returns although its caller holds the mutex the waiters want, and a
\* consumer that waits is served or told to go when the owner shuts down.
CvShutdown == CV!DestroyReturns /\ CV!ConsumersLeave

\* Nobody waits for ever: every user of the mutex gets through, a thread that waits for
\* the rwlock gets it whoever upgrades and downgrades meanwhile, thread_create ends with
\* a thread that runs or a failure that is not retried, and __kstat_delete returns, also
\* when it has to wait for readers that resize.
NobodyStuck ==
    /\ []<>(part = "mutex" => mtx_freed)
    /\ Rw!WaitersServed
    /\ []<>(part = "thread" => Thr!AllRun)
    /\ K!DeleteReturns

=============================================================================
