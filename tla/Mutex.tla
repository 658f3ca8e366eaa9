------------------------------- MODULE Mutex --------------------------------
(* The kmutex_t of mutex.h used to serialise the freeing of an object that   *)
(* contains it: every user enters, drops its reference and exits, and the    *)
(* one that dropped the last reference destroys the mutex and frees the      *)
(* object.  The Linux mutex lets a later owner finish its unlock before an   *)
(* earlier one; m_lock has to make up for that.                              *)
EXTENDS Naturals, FiniteSets

CONSTANTS
    Users,      \* the threads with a reference
    Nobody      \* NULL

VARIABLES
    pc,         \* pc[p]: where user p is
    locked,     \* the thread that holds the Linux mutex m_mutex
    m_lock,     \* the thread that holds the spinlock
    m_owner,    \* the field
    refs,       \* references to the object
    last,       \* the user that dropped the last one
    freed       \* the object is gone

vars == <<pc, locked, m_lock, m_owner, refs, last, freed>>

\* The steps of mutex_enter and mutex_exit that touch the mutex.
EnterPcs == {"enter", "owner"}
ExitPcs  == {"clear", "spin", "unlock", "handoff", "unspin"}

Init ==
    /\ pc = [p \in Users |-> "enter"]
    /\ locked = Nobody
    /\ m_lock = Nobody
    /\ m_owner = Nobody
    /\ refs = Cardinality(Users)
    /\ last = Nobody
    /\ freed = FALSE

At(p, l, next) == pc[p] = l /\ pc' = [pc EXCEPT ![p] = next]

\* mutex_lock, or a mutex_trylock that succeeds.
Enter(p) ==
    /\ At(p, "enter", "owner")
    /\ locked = Nobody /\ locked' = p
    /\ UNCHANGED <<m_lock, m_owner, refs, last, freed>>

SetOwner(p) ==
    /\ At(p, "owner", "drop")
    /\ m_owner' = p
    /\ UNCHANGED <<locked, m_lock, refs, last, freed>>

\* What the object's user does under the mutex.
Drop(p) ==
    /\ At(p, "drop", "clear")
    /\ refs' = refs - 1
    /\ last' = IF refs = 1 THEN p ELSE last
    /\ UNCHANGED <<locked, m_lock, m_owner, freed>>

ClearOwner(p) ==
    /\ At(p, "clear", "spin")
    /\ m_owner' = Nobody
    /\ UNCHANGED <<locked, m_lock, refs, last, freed>>

\* An exit without the spinlock.
MutSpinLock(p) ==
    /\ At(p, "spin", "unlock")
    /\ UNCHANGED <<locked, m_lock, m_owner, refs, last, freed>>

SpinLock(p) ==
    /\ At(p, "spin", "unlock")
    /\ m_lock = Nobody /\ m_lock' = p
    /\ UNCHANGED <<locked, m_owner, refs, last, freed>>

\* mutex_unlock: from here on another thread can take the mutex ...
Unlock(p) ==
    /\ At(p, "unlock", "handoff")
    /\ locked' = Nobody
    /\ UNCHANGED <<m_lock, m_owner, refs, last, freed>>

\* ... while this one still looks for waiters to wake.
Handoff(p) ==
    /\ At(p, "handoff", "unspin")
    /\ UNCHANGED <<locked, m_lock, m_owner, refs, last, freed>>

SpinUnlock(p) ==
    /\ At(p, "unspin", "out")
    /\ m_lock' = Nobody
    /\ UNCHANGED <<locked, m_owner, refs, last, freed>>

\* mutex_destroy and the free, by the user that dropped the last reference.
Free(p) ==
    /\ At(p, "out", "done")
    /\ freed' = (freed \/ last = p)
    /\ UNCHANGED <<locked, m_lock, m_owner, refs, last>>

Step(p) ==
    Enter(p) \/ SetOwner(p) \/ Drop(p) \/ ClearOwner(p) \/ SpinLock(p)
        \/ Unlock(p) \/ Handoff(p) \/ SpinUnlock(p) \/ Free(p)

Next == \E p \in Users : Step(p)

Spec == Init /\ [][Next]_vars

FairSpec == Spec /\ \A p \in Users : WF_vars(Step(p))

------------------------------------------------------------------------------
TypeOK ==
    /\ pc \in [Users -> {"drop", "out", "done"} \cup EnterPcs \cup ExitPcs]
    /\ locked \in Users \cup {Nobody} /\ m_lock \in Users \cup {Nobody}
    /\ m_owner \in Users \cup {Nobody} /\ last \in Users \cup {Nobody}
    /\ refs \in 0..Cardinality(Users)
    /\ freed \in BOOLEAN

\* "The latter acquirer could go on to free the object while the former one is
\* still doing mutex_unlock": it cannot, nobody touches the mutex of a freed
\* object.
FreedUntouched == freed => \A p \in Users : pc[p] \notin EnterPcs \cup ExitPcs

\* MUTEX_HELD is exact where the code asks it: a thread between its mutex_enter
\* and its mutex_exit is the owner, and nobody else is taken for it.
OwnerExact == \A p \in Users : (m_owner = p) <=> (pc[p] \in {"drop", "clear"})

=============================================================================
