----------------------------- MODULE TaskqList ------------------------------
(***************************************************************************)
(* tq_list, the list of all taskqs of module/spl/spl-taskq.c, and those    *)
(* that walk it: the readers of /proc/spl/taskq of spl-proc.c, a seq_file  *)
(* that stops when its buffer is full and starts again where it was, and   *)
(* the kick of all taskqs.  Walkers hold tq_list_sem for reading.  A       *)
(* taskq's threads and tasks are the matter of TaskqThreads and Taskq.     *)
(***************************************************************************)
EXTENDS Integers, Sequences, SequencesExt

CONSTANTS
    Taskqs,         \* memory of taskq_t
    Names,
    system_taskq,   \* of spl_taskq_init, there as long as /proc/spl is
    Walkers,
    ListHead,       \* &tq_list, the head of the list
    MaxInstance     \* bound of the instance numbers

VARIABLES
    tq_list,
    state,          \* state[q]: "free", "new", "listed" or "leaving"
    tq_name, tq_instance,
    readers,        \* the walkers that hold tq_list_sem
    walk            \* walk[w]: [pc, pos, p]

taskqs == <<state, tq_name, tq_instance>>
vars == <<tq_list, taskqs, readers, walk>>

Idle == [pc |-> "idle", pos |-> 0, p |-> ListHead]

Init ==
    /\ tq_list = <<system_taskq>>
    /\ state = [q \in Taskqs |-> IF q = system_taskq THEN "listed" ELSE "free"]
    /\ \E name \in Names : tq_name = [q \in Taskqs |-> name]
    /\ tq_instance = [q \in Taskqs |-> 0]
    /\ readers = {}
    /\ walk = [w \in Walkers |-> Idle]

\* The n-th entry after the head; the list is a ring through the head.
At(n) == IF n \in 1 .. Len(tq_list) THEN tq_list[n] ELSE ListHead

Place(q) == CHOOSE n \in 1 .. Len(tq_list) : tq_list[n] = q

------------------------------------------------------------------------------
(* taskq_create and taskq_destroy.                                           *)

Create(q, name) ==
    /\ state[q] = "free"
    /\ state' = [state EXCEPT ![q] = "new"]
    /\ tq_name' = [tq_name EXCEPT ![q] = name]
    /\ UNCHANGED <<tq_list, tq_instance, readers, walk>>

\* The instance of the last taskq on the list that has the name.
taskq_find_by_name(name) ==
    LET named == SelectSeq(tq_list, LAMBDA q : tq_name[q] = name)
    IN  IF named = <<>> THEN -1 ELSE tq_instance[Last(named)]

\* Under tq_list_sem for writing.
Register(q) ==
    /\ state[q] = "new" /\ readers = {}
    /\ taskq_find_by_name(tq_name[q]) < MaxInstance
    /\ state' = [state EXCEPT ![q] = "listed"]
    /\ tq_instance' = [tq_instance EXCEPT ![q] = taskq_find_by_name(tq_name[q]) + 1]
    /\ tq_list' = Append(tq_list, q)
    /\ UNCHANGED <<tq_name, readers, walk>>

\* taskq_destroy, also of a taskq that never came on the list, since not all of its
\* threads could be created.
Unlist(q) ==
    /\ state[q] \in {"new", "listed"} /\ q # system_taskq
    /\ readers = {}
    /\ state' = [state EXCEPT ![q] = "leaving"]
    /\ tq_list' = SelectSeq(tq_list, LAMBDA r : r # q)
    /\ UNCHANGED <<tq_name, tq_instance, readers, walk>>

\* What is left in the memory is not looked at.
Free(q) ==
    /\ state[q] = "leaving"
    /\ state' = [state EXCEPT ![q] = "free"]
    /\ tq_instance' = [tq_instance EXCEPT ![q] = 0]
    /\ tq_name' = [tq_name EXCEPT ![q] = tq_name[system_taskq]]
    /\ UNCHANGED <<tq_list, readers, walk>>

------------------------------------------------------------------------------
(* The readers of /proc/spl/taskq, through seq_read.                         *)

\* Goes round the ring.
Mut_taskq_seq_start(w) ==
    /\ walk[w].pc = "idle"
    /\ readers' = readers \cup {w}
    /\ walk' = [walk EXCEPT ![w].pc = "show", ![w].p = At(1 + walk[w].pos)]
    /\ UNCHANGED <<tq_list, taskqs>>

\* Steps *pos entries on from the first; NULL when it comes back to the head.  The
\* first itself is not compared with the head.
taskq_seq_start(w) ==
    /\ walk[w].pc = "idle"
    /\ readers' = readers \cup {w}
    /\ walk' = [walk EXCEPT
          ![w].pc = IF walk[w].pos = 0 \/ walk[w].pos < Len(tq_list) THEN "show" ELSE "end",
          ![w].p = At(1 + walk[w].pos)]
    /\ UNCHANGED <<tq_list, taskqs>>

\* taskq_seq_show_impl looks at the taskq under its tq_lock.
taskq_seq_show(w) ==
    /\ walk[w].pc = "show"
    /\ walk' = [walk EXCEPT ![w].pc = "next"]
    /\ UNCHANGED <<tq_list, taskqs, readers>>

taskq_seq_next(w) ==
    /\ walk[w].pc = "next"
    /\ LET after == At(Place(walk[w].p) + 1)
       IN  walk' = [walk EXCEPT ![w].pc = IF after = ListHead THEN "end" ELSE "show",
                                ![w].p = after, ![w].pos = @ + 1]
    /\ UNCHANGED <<tq_list, taskqs, readers>>

\* The buffer is full, before an entry or with one that is to be shown again, or the
\* list is at its end and the file is read from its start the next time.
taskq_seq_stop(w) ==
    /\ walk[w].pc \in {"show", "next", "end"} /\ w \in readers
    /\ readers' = readers \ {w}
    /\ walk' = [walk EXCEPT ![w] = [Idle EXCEPT !.pos = IF walk[w].pc = "end" THEN 0 ELSE walk[w].pos]]
    /\ UNCHANGED <<tq_list, taskqs>>

------------------------------------------------------------------------------
(* param_set_taskq_kick, from the head of the list to its end.               *)

KickStart(w) ==
    /\ walk[w].pc = "idle" /\ walk[w].pos = 0
    /\ readers' = readers \cup {w}
    /\ walk' = [walk EXCEPT ![w].pc = "kick", ![w].p = At(1)]
    /\ UNCHANGED <<tq_list, taskqs>>

\* The taskq is looked at under its tq_lock and may get another thread.
KickNext(w) ==
    /\ walk[w].pc = "kick" /\ walk[w].p # ListHead
    /\ walk' = [walk EXCEPT ![w].p = At(Place(walk[w].p) + 1)]
    /\ UNCHANGED <<tq_list, taskqs, readers>>

KickEnd(w) ==
    /\ walk[w].pc = "kick" /\ walk[w].p = ListHead
    /\ readers' = readers \ {w}
    /\ walk' = [walk EXCEPT ![w] = Idle]
    /\ UNCHANGED <<tq_list, taskqs>>

Next ==
    \/ \E q \in Taskqs :
          \/ \E name \in Names : Create(q, name)
          \/ Register(q) \/ Unlist(q) \/ Free(q)
    \/ \E w \in Walkers :
          \/ taskq_seq_start(w) \/ taskq_seq_show(w) \/ taskq_seq_next(w) \/ taskq_seq_stop(w)
          \/ KickStart(w) \/ KickNext(w) \/ KickEnd(w)

Spec == Init /\ [][Next]_vars

------------------------------------------------------------------------------
\* "the largest instance number of a named taskq" is that of the last one on the
\* list whatever is destroyed in between, so that no two taskqs that are listed at
\* the same time have the same name in /proc.
InstancesUnique ==
    \A m, n \in 1 .. Len(tq_list) :
        m < n /\ tq_name[tq_list[m]] = tq_name[tq_list[n]]
            => tq_instance[tq_list[m]] < tq_instance[tq_list[n]]

\* What a walker looks at is a taskq that is on the list, and not memory of one that
\* is freed meanwhile, nor the head of the list; this also where the list got shorter
\* between two reads of /proc.
WalksAlive ==
    \A w \in Walkers :
        walk[w].pc \in {"show", "next"} \/ (walk[w].pc = "kick" /\ walk[w].p # ListHead)
            => walk[w].p \in Range(tq_list) /\ state[walk[w].p] = "listed"

=============================================================================
