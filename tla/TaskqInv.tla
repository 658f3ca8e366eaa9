------------------------------ MODULE TaskqInv ------------------------------
(***************************************************************************)
(* The inductive invariant behind the safety properties of Taskq, for a    *)
(* taskq on which nobody uses TQ_NOQUEUE and no cancel meets a timer that  *)
(* is being run.                                                           *)
(***************************************************************************)
EXTENDS Taskq

Disciplined == "noqueue" \notin Ops \cup TaskOps /\ CancelRacesExpiry = FALSE

Free == Range(tq_free_list)
Pend == Range(tq_pend_list)
Prio == Range(tq_prio_list)
Delay == Range(tq_delay_list)
Queued == Pend \cup Prio \cup Delay
Syncing(p, e) == call[p].pc = "sync" /\ call[p].ent = e

\* No entry is on a list twice, or on two lists, and the active list holds the
\* workers that run a task.
ListsInv ==
    /\ Inj(tq_free_list) /\ Inj(tq_pend_list) /\ Inj(tq_prio_list)
    /\ Inj(tq_delay_list) /\ Inj(tq_active_list)
    /\ Free \cap Queued = {} /\ Pend \cap Prio = {} /\ (Pend \cup Prio) \cap Delay = {}
    /\ Range(tq_active_list) = {t \in Threads : tqt[t].pc = "run"}

\* Entries off the lists are run by one worker, kept by one canceller, or freed.
OwnersInv ==
    /\ Free \cup Delay \subseteq heap
    /\ Pend \cup Prio \subseteq heap \cup PreEnts
    /\ \A t \in Threads : tqt[t].ents \subseteq heap \ (Free \cup Queued)
    /\ \A t, u \in Threads : t # u => tqt[t].ents \cap tqt[u].ents = {}
    /\ \A p \in Procs, e \in Ents : Syncing(p, e) =>
          /\ e \in heap \ (Free \cup Queued)
          /\ \A t \in Threads : e \notin tqt[t].ents
          /\ \A q \in Procs : Syncing(q, e) => p = q

\* What the flags of an entry say about where it is.
FlagsInv ==
    /\ \A e \in HeapEnts : "PREALLOC" \notin tqent_flags[e]
    /\ \A e \in (Pend \cup Prio) \ HeapEnts : "PREALLOC" \in tqent_flags[e]
    /\ \A e \in Free : "CANCEL" \notin tqent_flags[e]

\* Nobody is about to use the head of the priority list.
KindsInv == \A p \in Procs : call[p].pc \in {"poll", "alloc"} => call[p].kind # "noqueue"

\* Every list is in the order of the ids, and tq_lowest_id bounds them all and
\* is one of them.
OrderInv ==
    /\ Sorted(tq_pend_list, tqent_id) /\ Sorted(tq_prio_list, tqent_id)
    /\ Sorted(tq_delay_list, tqent_id) /\ Sorted(tq_active_list, tqt_id)
    /\ tq_lowest_id <= tq_next_id
    /\ \A e \in Queued : tq_lowest_id <= tqent_id[e] /\ tqent_id[e] < tq_next_id
    /\ \A t \in Range(tq_active_list) : tq_lowest_id <= tqt[t].id /\ tqt[t].id < tq_next_id
    /\ \/ tq_lowest_id = tq_next_id
       \/ \E e \in Queued : tqent_id[e] = tq_lowest_id
       \/ \E t \in Range(tq_active_list) : tqt[t].id = tq_lowest_id

\* The inductive invariant: the lists, the owners of the entries off the lists, the
\* flags, the timers and the order that together make tq_lowest_id exact and keep
\* an armed timer's entry from being reused, over every dispatch, expiry,
\* cancellation and worker step.
IInv == TypeOK /\ ListsInv /\ OwnersInv /\ FlagsInv /\ KindsInv /\ TimersOwned /\ OrderInv

\* An id has one task, which is on one list, being run, cancelled or over.
UniqInv ==
    /\ \A d, e \in Queued : tqent_id[d] = tqent_id[e] => d = e
    /\ \A t, u \in Range(tq_active_list) : tqt[t].id = tqt[u].id => t = u
    /\ PendingIds \cap ActiveIds = {}
    /\ cancelled \cap Outstanding = {}
    /\ \A n \in cancelled : n < tq_next_id

=============================================================================
