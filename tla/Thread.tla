------------------------------- MODULE Thread -------------------------------
(***************************************************************************)
(* thread_create (module/spl/spl-thread.c): the creator hands a            *)
(* thread_priv_t to the new thread, which frees it before it calls the     *)
(* function.  kthread_create is external: it returns a task that does not  *)
(* run until it is woken, or fails with -ENOMEM, with -EINTR and a signal  *)
(* pending, or with some other error.                                      *)
(***************************************************************************)
EXTENDS Integers, FiniteSets

CONSTANTS
    Creators,       \* the threads that call thread_create, once each
    Kmem,           \* the build may fail an allocation (DEBUG_KMEM_TRACKING)
    Errors,         \* how kthread_create may fail: subset of {"ENOMEM", "EINTR", "other"}
    MaxFaults       \* bound: failures of kthread_create in all

VARIABLES
    pc,             \* [Creators -> where the creator is]
    tsk,            \* [Creators -> "none", "NULL", "asleep", "awake", "running", "done"]: the new thread
    tp, name,       \* [Creators -> "none", "held", "free"]: its thread_priv_t and the copy of the name
    bad,            \* TRUE once freed memory was used
    faults          \* failures so far

vars == <<pc, tsk, tp, name, bad, faults>>

Pcs == {"alloc", "alloc_name", "create", "check", "wake", "ok", "NULL", "oops"}

TypeOK ==
    /\ pc \in [Creators -> Pcs]
    /\ tsk \in [Creators -> {"none", "NULL", "asleep", "awake", "running", "done"}]
    /\ tp \in [Creators -> {"none", "held", "free"}]
    /\ name \in [Creators -> {"none", "held", "free"}]
    /\ bad \in BOOLEAN /\ faults \in 0 .. MaxFaults

Init ==
    /\ pc = [c \in Creators |-> "alloc"] /\ tsk = [c \in Creators |-> "none"]
    /\ tp = [c \in Creators |-> "none"] /\ name = [c \in Creators |-> "none"]
    /\ bad = FALSE /\ faults = 0

Goto(c, l) == pc' = [pc EXCEPT ![c] = l]
Fault == faults < MaxFaults /\ faults' = faults + 1

AllocPriv(c) ==
    /\ pc[c] = "alloc"
    /\ \/ Goto(c, "alloc_name") /\ tp' = [tp EXCEPT ![c] = "held"] /\ UNCHANGED faults
       \/ Kmem /\ Fault /\ Goto(c, "NULL") /\ UNCHANGED tp
    /\ UNCHANGED <<tsk, name, bad>>

AllocName(c) ==
    /\ pc[c] = "alloc_name"
    /\ \/ /\ Goto(c, "create") /\ name' = [name EXCEPT ![c] = "held"]
          /\ UNCHANGED <<tp, faults>>
       \/ /\ Kmem /\ Fault /\ Goto(c, "NULL")
          /\ tp' = [tp EXCEPT ![c] = "free"] /\ UNCHANGED name
    /\ UNCHANGED <<tsk, bad>>

\* spl_kthread_create formats the name and gets a task.
KthreadCreate(c) ==
    /\ pc[c] = "create"
    /\ Goto(c, "check")
    /\ tsk' = [tsk EXCEPT ![c] = "asleep"]
    /\ bad' = (bad \/ name[c] # "held")
    /\ UNCHANGED <<tp, name, faults>>

\* -ENOMEM, and any error while a signal is pending, are retried.
KthreadRetry(c) ==
    /\ pc[c] = "create" /\ Errors \cap {"ENOMEM", "EINTR"} # {} /\ Fault
    /\ bad' = (bad \/ name[c] # "held")
    /\ UNCHANGED <<pc, tsk, tp, name>>

\* Any other error is returned as NULL.
KthreadFails(c) ==
    /\ pc[c] = "create" /\ "other" \in Errors /\ Fault
    /\ Goto(c, "check") /\ tsk' = [tsk EXCEPT ![c] = "NULL"]
    /\ UNCHANGED <<tp, name, bad>>

\* IS_ERR holds of an error pointer only, so NULL passes.
Check(c) ==
    /\ pc[c] = "check"
    /\ Goto(c, "wake")
    /\ UNCHANGED <<tsk, tp, name, bad, faults>>

\* wake_up_process: a task that is awake already is left alone, a NULL one is the
\* end of the caller.
WakeUp(c) ==
    /\ pc[c] = "wake"
    /\ Goto(c, IF tsk[c] = "NULL" THEN "oops" ELSE "ok")
    /\ tsk' = [tsk EXCEPT ![c] = IF @ = "asleep" THEN "awake" ELSE @]
    /\ UNCHANGED <<tp, name, bad, faults>>

\* thread_generic_wrapper takes what it needs and frees the record and the name.
Wrapper(c) ==
    /\ tsk[c] = "awake"
    /\ tsk' = [tsk EXCEPT ![c] = "running"]
    /\ bad' = (bad \/ tp[c] # "held" \/ name[c] # "held")
    /\ tp' = [tp EXCEPT ![c] = "free"] /\ name' = [name EXCEPT ![c] = "free"]
    /\ UNCHANGED <<pc, faults>>

\* The function returns or calls thread_exit.
Exit(c) ==
    /\ tsk[c] = "running"
    /\ tsk' = [tsk EXCEPT ![c] = "done"]
    /\ UNCHANGED <<pc, tp, name, bad, faults>>

Step(c) == AllocPriv(c) \/ AllocName(c) \/ KthreadCreate(c) \/ KthreadRetry(c)
           \/ KthreadFails(c) \/ Check(c) \/ WakeUp(c)

Next == \E c \in Creators : Step(c) \/ Wrapper(c) \/ Exit(c)

\* A thread that can run does; the failures are bounded, so retries succeed in the end.
Spec ==
    /\ Init /\ [][Next]_vars
    /\ \A c \in Creators : WF_vars(Step(c)) /\ WF_vars(Wrapper(c)) /\ WF_vars(Exit(c))

------------------------------------------------------------------------------
\* thread_create hands its record over exactly once: it is freed by the new thread,
\* or by the creator when no thread comes of it, and no one uses it afterwards.
Handover ==
    /\ ~bad
    /\ \A c \in Creators :
        /\ pc[c] = "NULL" => tp[c] # "held" /\ name[c] # "held"
        /\ tsk[c] = "done" => tp[c] = "free" /\ name[c] = "free"
        /\ tsk[c] \in {"awake", "running", "done"} => pc[c] = "ok"

\* What every call of thread_create comes to: it ends with a thread that runs to its end, through whatever
\* -ENOMEM and signals kthread_create meets, or without one after a failure that is
\* not retried; the new thread is never left asleep.
AllRun == \A c \in Creators : tsk[c] = "done" \/ pc[c] \in {"NULL", "oops"}

\* "thread_create() may block forever if it cannot create a thread or allocate memory.
\* This is preferable to returning a NULL": no caller goes on with a NULL task.
NeverNull == \A c \in Creators : pc[c] \notin {"NULL", "oops"}

=============================================================================
