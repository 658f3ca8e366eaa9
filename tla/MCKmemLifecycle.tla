-------------------------- MODULE MCKmemLifecycle ---------------------------
(* Small instances of KmemLifecycle for TLC; a behaviour runs the one in     *)
(* config.  "shrink": caches without background work and two shrinkers.      *)
(* "all": caches that age and grow by the taskq, and one shrinker.           *)
EXTENDS Naturals

CONSTANTS Caches, MaxTask, h1, h2

VARIABLES life, list, destroying, ref, taskqid, cancels, task, age, growing, work, shrink,
          config

Configs == {"shrink", "all"}

Reclaimers(c) == IF c = "shrink" THEN {h1, h2} ELSE {h1}

L(c) == INSTANCE KmemLifecycle WITH
    Shrinkers <- Reclaimers(c), Expire <- (c = "all"), Grows <- (c = "all")

vars == <<life, list, destroying, ref, taskqid, cancels, task, age, growing, work, shrink,
          config>>

Init == \E c \in Configs : config = c /\ L(c)!Init

In(c) == config = c /\ UNCHANGED config

Next == \E c \in Configs : In(c) /\ L(c)!Next

\* The fairness of KmemLifecycle for the caches without background work, whose
\* destroy is shown to return.
FairSpec ==
    /\ Init /\ [][Next]_vars
    /\ \A k \in Caches : /\ WF_vars(In("shrink") /\ L("shrink")!Ending(k))
                         /\ SF_vars(In("shrink") /\ L("shrink")!Unlink(k))
    /\ \A h \in Reclaimers("shrink") : WF_vars(In("shrink") /\ L("shrink")!ShrinkProceeds(h))

\* Nothing that will still touch a cache is left when its memory is freed: no shrinker
\* on its way to it.  And a cache that a shrinker is reaping, or has still to reap, does
\* not have DESTROY set, as spl_kmem_cache_reap_now asserts.
NoUseAfterFree ==
    /\ config = "shrink" => L("shrink")!NoUseAfterFree
    /\ \A c \in Configs : config = c => L(c)!TypeOK /\ L(c)!ReapedAlive

\* spl_cache_age has at most one successor: a cache never has two runs of the task
\* pending, nor a second one running.
OneAgeTask == L("all")!OneAgeTask

\* spl_kmem_cache_destroy returns, when no work of the cache's own is under way.
DestroyReturns == config = "shrink" => L("shrink")!DestroyReturns

\* "Wait until all current callers complete" (spl_kmem_cache_destroy): the work of the
\* cache's own, ageing and growing, does not touch a cache that is freed either.
WorkersDone == config = "all" => L("all")!NoUseAfterFree

=============================================================================
