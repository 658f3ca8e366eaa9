--------------------------- MODULE KmemLifecycle ----------------------------
(* The life of kmem caches: creation, the global list and its semaphore, the *)
(* shrinker that walks the list, the delayed ageing task, growing on the     *)
(* cache's taskq, the reference count, and spl_kmem_cache_destroy, which     *)
(* waits for all of them.  What they do to the objects is in KmemCache.      *)
EXTENDS Naturals, FiniteSets, SequencesExt

CONSTANTS
    Caches,     \* the caches
    Shrinkers,  \* threads that reclaim memory: __spl_kmem_cache_generic_shrinker
    Expire,     \* KMC_EXPIRE_AGE is set in spl_kmem_cache_expire
    Grows,      \* caches grow by their taskq
    MaxTask     \* bound: ids of ageing tasks of a cache

VARIABLES
    life,       \* life[k]: "none", "made", "live", "unlinked", "flagged", "cancel",
                \* "wait", "asleep", "freed"; from "unlinked" on in _destroy
    list,       \* spl_kmem_cache_list
    destroying, \* caches whose DESTROY bit is set
    ref,        \* ref[k]: skc_ref
    taskqid,    \* taskqid[k]: skc_taskqid
    cancels,    \* cancels[k]: the id that _destroy read from it
    task,       \* task[k][i]: ageing task i: "none", "pending", "running", "over"
    age,        \* age[k]: the running spl_cache_age: its place and the id it has
    growing,    \* caches whose GROWING bit is set
    work,       \* work[k]: spl_cache_grow_work: "idle", "queued", "unref", "unflag"
    shrink      \* shrink[h]: the caches shrinker h has still to reap, the one it
                \* is reaping, and whether it holds spl_kmem_cache_sem

vars == <<life, list, destroying, ref, taskqid, cancels, task, age, growing, work, shrink>>

Tasks == 1..MaxTask

AgeIdle == [pc |-> "idle", mine |-> 0, next |-> 0]
ShrinkIdle == [sem |-> FALSE, todo |-> <<>>, reaping |-> FALSE]

Init ==
    /\ life = [k \in Caches |-> "none"]
    /\ list = <<>>
    /\ destroying = {}
    /\ ref = [k \in Caches |-> 0]
    /\ taskqid = [k \in Caches |-> 0]
    /\ cancels = [k \in Caches |-> 0]
    /\ task = [k \in Caches |-> [i \in Tasks |-> "none"]]
    /\ age = [k \in Caches |-> AgeIdle]
    /\ growing = {}
    /\ work = [k \in Caches |-> "idle"]
    /\ shrink = [h \in Shrinkers |-> ShrinkIdle]

NobodyReads == \A h \in Shrinkers : ~shrink[h].sem

Fresh(k) == {i \in Tasks : task[k][i] = "none" /\ \A j \in Tasks : j < i => task[k][j] # "none"}

------------------------------------------------------------------------------
(* spl_kmem_cache_create.                                                    *)

\* Everything up to the dispatch of the first ageing task.
Create(k) ==
    /\ life[k] = "none"
    /\ life' = [life EXCEPT ![k] = "made"]
    /\ IF Expire THEN /\ task' = [task EXCEPT ![k][1] = "pending"]
                      /\ taskqid' = [taskqid EXCEPT ![k] = 1]
                 ELSE UNCHANGED <<task, taskqid>>
    /\ UNCHANGED <<list, destroying, ref, cancels, age, growing, work, shrink>>

\* The cache is linked under the semaphore.
Link(k) ==
    /\ life[k] = "made" /\ NobodyReads
    /\ life' = [life EXCEPT ![k] = "live"]
    /\ list' = Append(list, k)
    /\ UNCHANGED <<destroying, ref, taskqid, cancels, task, age, growing, work, shrink>>

------------------------------------------------------------------------------
(* __spl_kmem_cache_generic_shrinker with spl_kmem_cache_reap_now.           *)

ShrinkStart(h) ==
    /\ ~shrink[h].sem
    /\ shrink' = [shrink EXCEPT ![h] = [sem |-> TRUE, todo |-> list, reaping |-> FALSE]]
    /\ UNCHANGED <<life, list, destroying, ref, taskqid, cancels, task, age, growing, work>>

\* reap_now takes its reference on the next cache of the list.
ReapStart(h) ==
    /\ shrink[h].todo # <<>> /\ ~shrink[h].reaping
    /\ ref' = [ref EXCEPT ![Head(shrink[h].todo)] = @ + 1]
    /\ shrink' = [shrink EXCEPT ![h].reaping = TRUE]
    /\ UNCHANGED <<life, list, destroying, taskqid, cancels, task, age, growing, work>>

\* An early return from reap_now that skips its label out.
MutReapEnd(h) ==
    /\ shrink[h].reaping
    /\ shrink' = [shrink EXCEPT ![h].reaping = FALSE, ![h].todo = Tail(@)]
    /\ UNCHANGED <<life, list, destroying, ref, taskqid, cancels, task, age, growing, work>>

ReapEnd(h) ==
    /\ shrink[h].reaping
    /\ ref' = [ref EXCEPT ![Head(shrink[h].todo)] = @ - 1]
    /\ shrink' = [shrink EXCEPT ![h].reaping = FALSE, ![h].todo = Tail(@)]
    /\ UNCHANGED <<life, list, destroying, taskqid, cancels, task, age, growing, work>>

ShrinkEnd(h) ==
    /\ shrink[h].sem /\ shrink[h].todo = <<>>
    /\ shrink' = [shrink EXCEPT ![h] = ShrinkIdle]
    /\ UNCHANGED <<life, list, destroying, ref, taskqid, cancels, task, age, growing, work>>

------------------------------------------------------------------------------
(* spl_cache_grow and spl_cache_grow_work, as far as the references go.      *)

\* An allocation dispatches the work; the caller of _destroy has none left.
Grow(k) ==
    /\ Grows /\ life[k] = "live" /\ k \notin growing
    /\ growing' = growing \cup {k}
    /\ ref' = [ref EXCEPT ![k] = @ + 1]
    /\ work' = [work EXCEPT ![k] = "queued"]
    /\ UNCHANGED <<life, list, destroying, taskqid, cancels, task, age, shrink>>

\* __spl_cache_grow is over.
GrowWork(k) ==
    /\ work[k] = "queued"
    /\ work' = [work EXCEPT ![k] = "unref"]
    /\ UNCHANGED <<life, list, destroying, ref, taskqid, cancels, task, age, growing, shrink>>

GrowUnref(k) ==
    /\ work[k] = "unref"
    /\ ref' = [ref EXCEPT ![k] = @ - 1]
    /\ work' = [work EXCEPT ![k] = "unflag"]
    /\ UNCHANGED <<life, list, destroying, taskqid, cancels, task, age, growing, shrink>>

GrowUnflag(k) ==
    /\ work[k] = "unflag"
    /\ growing' = growing \ {k}
    /\ work' = [work EXCEPT ![k] = "idle"]
    /\ UNCHANGED <<life, list, destroying, ref, taskqid, cancels, task, age, shrink>>

------------------------------------------------------------------------------
(* spl_cache_age on the cache's taskq.                                       *)

AgeStart(k, i) ==
    /\ task[k][i] = "pending" /\ age[k].pc = "idle"
    /\ task' = [task EXCEPT ![k][i] = "running"]
    /\ age' = [age EXCEPT ![k] = [pc |-> "work", mine |-> i, next |-> 0]]
    /\ ref' = [ref EXCEPT ![k] = @ + 1]
    /\ UNCHANGED <<life, list, destroying, taskqid, cancels, growing, work, shrink>>

\* spl_kmem_cache_expire was changed since the task was dispatched.
AgeDisabled(k, i) ==
    /\ task[k][i] = "pending" /\ age[k].pc = "idle"
    /\ task' = [task EXCEPT ![k][i] = "over"]
    /\ UNCHANGED <<life, list, destroying, ref, taskqid, cancels, age, growing, work, shrink>>

\* A loop that does not stop when it has an id.
MutAgeDispatch(k) ==
    /\ age[k].pc = "work"
    /\ \/ /\ k \in destroying
          /\ age' = [age EXCEPT ![k].pc = "store"]
          /\ UNCHANGED task
       \/ /\ k \notin destroying
          /\ \E i \in Fresh(k) : /\ task' = [task EXCEPT ![k][i] = "pending"]
                                 /\ age' = [age EXCEPT ![k].next = i]
    /\ UNCHANGED <<life, list, destroying, ref, taskqid, cancels, growing, work, shrink>>

\* Magazines and slabs are done; the loop tests DESTROY and dispatches the next
\* run of the task.
AgeDispatch(k) ==
    /\ age[k].pc = "work"
    /\ \/ /\ k \in destroying
          /\ age' = [age EXCEPT ![k].pc = "store"]
          /\ UNCHANGED task
       \/ /\ k \notin destroying
          /\ \E i \in Fresh(k) : /\ task' = [task EXCEPT ![k][i] = "pending"]
                                 /\ age' = [age EXCEPT ![k].pc = "recheck", ![k].next = i]
    /\ UNCHANGED <<life, list, destroying, ref, taskqid, cancels, growing, work, shrink>>

\* "Destroy issued after dispatch immediately cancel it".
AgeRecheck(k) ==
    /\ age[k].pc = "recheck"
    /\ age' = [age EXCEPT ![k].pc = "store"]
    /\ task' = IF k \in destroying /\ task[k][age[k].next] = "pending"
               THEN [task EXCEPT ![k][age[k].next] = "over"] ELSE task
    /\ UNCHANGED <<life, list, destroying, ref, taskqid, cancels, growing, work, shrink>>

AgeStore(k) ==
    /\ age[k].pc = "store"
    /\ taskqid' = [taskqid EXCEPT ![k] = age[k].next]
    /\ age' = [age EXCEPT ![k].pc = "unref"]
    /\ UNCHANGED <<life, list, destroying, ref, cancels, task, growing, work, shrink>>

\* The reference is dropped, and the task returns.
AgeUnref(k) ==
    /\ age[k].pc = "unref"
    /\ ref' = [ref EXCEPT ![k] = @ - 1]
    /\ task' = [task EXCEPT ![k][age[k].mine] = "over"]
    /\ age' = [age EXCEPT ![k] = AgeIdle]
    /\ UNCHANGED <<life, list, destroying, taskqid, cancels, growing, work, shrink>>

------------------------------------------------------------------------------
(* spl_kmem_cache_destroy.                                                   *)

\* A destroy that does not take the semaphore.
MutUnlink(k) ==
    /\ life[k] = "live"
    /\ list' = SelectSeq(list, LAMBDA x : x # k)
    /\ life' = [life EXCEPT ![k] = "unlinked"]
    /\ UNCHANGED <<destroying, ref, taskqid, cancels, task, age, growing, work, shrink>>

Unlink(k) ==
    /\ life[k] = "live" /\ NobodyReads
    /\ list' = SelectSeq(list, LAMBDA x : x # k)
    /\ life' = [life EXCEPT ![k] = "unlinked"]
    /\ UNCHANGED <<destroying, ref, taskqid, cancels, task, age, growing, work, shrink>>

Flag(k) ==
    /\ life[k] = "unlinked"
    /\ destroying' = destroying \cup {k}
    /\ life' = [life EXCEPT ![k] = "flagged"]
    /\ UNCHANGED <<list, ref, taskqid, cancels, task, age, growing, work, shrink>>

ReadId(k) ==
    /\ life[k] = "flagged"
    /\ cancels' = [cancels EXCEPT ![k] = taskqid[k]]
    /\ life' = [life EXCEPT ![k] = "cancel"]
    /\ UNCHANGED <<list, destroying, ref, taskqid, task, age, growing, work, shrink>>

\* taskq_cancel_id: a pending task is removed, a running one is waited for, and
\* an id that is not known is left alone.
Cancel(k) ==
    /\ life[k] = "cancel"
    /\ LET i == cancels[k]
       IN  /\ i \in Tasks => task[k][i] # "running"
           /\ task' = IF i \in Tasks THEN [task EXCEPT ![k][i] = "over"] ELSE task
    /\ life' = [life EXCEPT ![k] = "wait"]
    /\ UNCHANGED <<list, destroying, ref, taskqid, cancels, age, growing, work, shrink>>

\* wait_event on a wait queue of the function's own: the condition is tested
\* once, and nothing wakes the thread when it was false.
Wait(k) ==
    /\ life[k] = "wait" /\ ref[k] # 0
    /\ life' = [life EXCEPT ![k] = "asleep"]
    /\ UNCHANGED <<list, destroying, ref, taskqid, cancels, task, age, growing, work, shrink>>

FreeCache(k) ==
    /\ life[k] = "wait" /\ ref[k] = 0
    /\ life' = [life EXCEPT ![k] = "freed"]
    /\ UNCHANGED <<list, destroying, ref, taskqid, cancels, task, age, growing, work, shrink>>

Shrink(h) == ShrinkStart(h) \/ ReapStart(h) \/ ReapEnd(h) \/ ShrinkEnd(h)
Work(k)   == GrowWork(k) \/ GrowUnref(k) \/ GrowUnflag(k)
AgeStep(k) == AgeDispatch(k) \/ AgeRecheck(k) \/ AgeStore(k) \/ AgeUnref(k)
\* A shrinker under way.
ShrinkProceeds(h) == ReapStart(h) \/ ReapEnd(h) \/ ShrinkEnd(h)

Aging(k)  == AgeStep(k) \/ \E i \in Tasks : AgeStart(k, i) \/ AgeDisabled(k, i)
Ending(k) == Flag(k) \/ ReadId(k) \/ Cancel(k) \/ Wait(k) \/ FreeCache(k)

Next ==
    \/ \E h \in Shrinkers : Shrink(h)
    \/ \E k \in Caches : Create(k) \/ Link(k) \/ Grow(k) \/ Work(k) \/ Aging(k) \/ Unlink(k) \/ Ending(k)

Spec == Init /\ [][Next]_vars

\* Threads that can run do, and a pending task is started when its time comes.
\* The semaphore is fair to writers: it is handed to a destroy that waits.
Fairness ==
    /\ \A k \in Caches : /\ WF_vars(Work(k)) /\ WF_vars(Aging(k)) /\ WF_vars(Ending(k))
                         /\ SF_vars(Unlink(k))
    /\ \A h \in Shrinkers : WF_vars(ShrinkProceeds(h))

FairSpec == Spec /\ Fairness

------------------------------------------------------------------------------
TypeOK ==
    /\ life \in [Caches -> {"none", "made", "live", "unlinked", "flagged", "cancel",
                            "wait", "asleep", "freed"}]
    /\ list \in Seq(Caches)
    /\ destroying \subseteq Caches /\ growing \subseteq Caches
    /\ ref \in [Caches -> Nat]
    /\ taskqid \in [Caches -> 0..MaxTask] /\ cancels \in [Caches -> 0..MaxTask]
    /\ task \in [Caches -> [Tasks -> {"none", "pending", "running", "over"}]]
    /\ age \in [Caches -> [pc : {"idle", "work", "recheck", "store", "unref"},
                           mine : 0..MaxTask, next : 0..MaxTask]]
    /\ work \in [Caches -> {"idle", "queued", "unref", "unflag"}]
    /\ shrink \in [Shrinkers -> [sem : BOOLEAN, todo : Seq(Caches), reaping : BOOLEAN]]

\* Nothing that will still touch the cache is left when its memory is freed: no
\* shrinker on its way to it, no ageing task pending or running, no growth work.
NoUseAfterFree ==
    \A k \in Caches : life[k] = "freed" =>
        /\ \A h \in Shrinkers : k \notin ToSet(shrink[h].todo)
        /\ \A i \in Tasks : task[k][i] \notin {"pending", "running"}
        /\ work[k] = "idle"

\* The assertion of spl_kmem_cache_reap_now: a cache that a shrinker is reaping,
\* or has still to reap, does not have DESTROY set.
ReapedAlive ==
    \A h \in Shrinkers : ToSet(shrink[h].todo) \cap destroying = {}

\* spl_cache_age has at most one successor: a cache never has two runs of the
\* task pending, nor a second one running.
OneAgeTask ==
    \A k \in Caches : \A s \in {"pending", "running"} :
        Cardinality({i \in Tasks : task[k][i] = s}) <= 1

\* spl_kmem_cache_destroy returns.
DestroyReturns ==
    \A k \in Caches : life[k] = "unlinked" ~> life[k] = "freed"

=============================================================================
