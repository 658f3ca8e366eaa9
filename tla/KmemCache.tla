----------------------------- MODULE KmemCache ------------------------------
(* A KMC_KMEM or KMC_VMEM cache of spl-kmem-cache.c at work: allocation and  *)
(* free through the per-cpu magazines, growing the cache in place or by the  *)
(* cache's taskq, emergency objects, reaping and ageing.  KmemLifecycle has  *)
(* the reference count and the destroy protocol.                             *)
(*                                                                           *)
(* A thread runs with interrupts off while it works on a magazine, so a      *)
(* magazine operation, together with the section under skc_lock inside it,   *)
(* is one step.  The thread can be moved to another cpu, and other threads   *)
(* can use its magazine, only while spl_cache_grow runs.                     *)
EXTENDS KmemSlab

CONSTANTS
    Threads,    \* the callers of the cache
    Cpus,       \* one magazine each
    MagSize,    \* skm_size
    Emergency,  \* the memory emergency objects can live in
    Vmem,       \* KMC_VMEM: slabs are only allocated by the taskq
    Expire,     \* spl_kmem_cache_expire: a subset of {"age", "mem"}
    Waits,      \* the flags callers use: a subset of {"sleep", "nosleep"}
    MaxHeld,    \* bound: objects a thread holds
    Reaps       \* whether spl_kmem_cache_reap_now is called

ASSUME MagSizeAssumption == MagSize \in Nat \ {0, 1}

\* skm_refill, the objects moved between a magazine and the slabs at a time.
MagRefill == (MagSize + 1) \div 2

VARIABLES
    slab,       \* what skc_lock protects: see KmemSlab
    tree,       \* skc_emergency_tree
    mag,        \* mag[c]: skm_objs of cpu c, the last one freed at the end
    held,       \* held[p]: the objects thread p has allocated
    flags,      \* the KMC_BIT_* set in skc_flags
    work,       \* spl_cache_grow_work: "idle", "queued", "linked"
    age,        \* spl_cache_age: whether it runs, and the cpus left to visit
    call,       \* call[p]: where thread p is
    destroyed   \* spl_kmem_cache_destroy has returned

vars == <<slab, tree, mag, held, flags, work, age, call, destroyed>>

AllObjs == Objs \cup Emergency

\* pc     where the thread is
\* cpu    the cpu whose magazine it refills
\* n      the refill still to do; in a reap, the objects of the last round
\* sleep  KM_SLEEP
\* back   where spl_kmem_cache_free returns to: the caller or a reclaim callback
Idle == [pc |-> "idle", cpu |-> CHOOSE c \in Cpus : TRUE, n |-> 0,
         sleep |-> FALSE, back |-> "idle"]

AgeIdle == [on |-> FALSE, left |-> {}]

GrowPcs  == {"grow", "reaping", "async", "nomem", "asynced", "emergency",
             "check", "wait", "timeout", "grown"}
AllocPcs == {"alloc"} \cup GrowPcs
ReapPcs  == {"reap", "callback", "flush", "release", "reaped"}

Goto(p, pc) == call' = [call EXCEPT ![p].pc = pc]

\* wake_up_all(&skc->skc_waitq): the sleepers of wait_event_timeout look at
\* their condition again.
WakeAll(c) == [p \in Threads |-> IF c[p].pc = "wait" THEN [c[p] EXCEPT !.pc = "check"] ELSE c[p]]

Init ==
    /\ slab = NoSlabs
    /\ tree = {}
    /\ mag = [c \in Cpus |-> <<>>]
    /\ held = [p \in Threads |-> {}]
    /\ flags = {}
    /\ work = "idle"
    /\ age = AgeIdle
    /\ call = [p \in Threads |-> Idle]
    /\ destroyed = FALSE

------------------------------------------------------------------------------
(* Allocation.                                                               *)

\* The caller gets object o.
Return(p, o) ==
    /\ held' = [held EXCEPT ![p] = @ \cup {o}]
    /\ call' = [call EXCEPT ![p] = Idle]

\* spl_cache_refill returned NULL: a KM_SLEEP caller starts over, another one
\* gets NULL.
NullOrRestart(p) ==
    /\ call' = [call EXCEPT ![p] = IF call[p].sleep THEN [@ EXCEPT !.pc = "alloc"]
                                   ELSE [Idle EXCEPT !.cpu = call[p].cpu]]
    /\ UNCHANGED held

\* spl_kmem_cache_alloc is called.
Alloc(p, how) ==
    /\ call[p].pc = "idle" /\ ~destroyed
    /\ Cardinality(held[p]) < MaxHeld
    /\ call' = [call EXCEPT ![p] = [Idle EXCEPT !.pc = "alloc", !.sleep = (how = "sleep")]]
    /\ UNCHANGED <<slab, tree, mag, held, flags, work, age, destroyed>>

\* The magazine of the cpu p runs on has an object.
AllocHit(p, c) ==
    /\ call[p].pc = "alloc"
    /\ mag[c] # <<>>
    /\ Return(p, Last(mag[c]))
    /\ mag' = [mag EXCEPT ![c] = Front(@)]
    /\ UNCHANGED <<slab, tree, flags, work, age, destroyed>>

\* The objects a refill of n may still add to the magazine of cpu c.
RefillSize(c, n) == Min({n, MagSize - Len(mag[c])})

\* The locked loop of spl_cache_refill for n objects.  When the slabs run out it
\* goes on to spl_cache_grow; otherwise it returns NULL, and a KM_SLEEP caller
\* finds its object in the magazine before interrupts are enabled again.
RefillMagazine(p, c, n) ==
    LET got  == Refill(slab, n)
        full == mag[c] \o got.objs
    IN  /\ slab' = got.slab
        /\ \/ /\ Len(got.objs) < n
              /\ mag' = [mag EXCEPT ![c] = full]
              /\ call' = [call EXCEPT ![p].pc = "grow", ![p].cpu = c,
                                      ![p].n = n - Len(got.objs)]
              /\ UNCHANGED held
           \/ /\ Len(got.objs) = n /\ call[p].sleep
              /\ mag' = [mag EXCEPT ![c] = Front(full)]
              /\ Return(p, Last(full))
           \/ /\ Len(got.objs) = n /\ ~call[p].sleep
              /\ mag' = [mag EXCEPT ![c] = full]
              /\ call' = [call EXCEPT ![p] = [Idle EXCEPT !.cpu = c]]
              /\ UNCHANGED held

\* The magazine is empty.
AllocMiss(p, c) ==
    /\ call[p].pc = "alloc"
    /\ mag[c] = <<>>
    /\ RefillMagazine(p, c, RefillSize(c, MagRefill))
    /\ UNCHANGED <<tree, flags, work, age, destroyed>>

------------------------------------------------------------------------------
(* spl_cache_grow: interrupts are on, the thread may sleep and move.         *)

\* A reaper is at work: wait for it, then look at the magazine again.
GrowReaping(p) ==
    /\ call[p].pc = "grow" /\ "REAPING" \in flags
    /\ Goto(p, "reaping")
    /\ UNCHANGED <<slab, tree, mag, held, flags, work, age, destroyed>>

ReapingOver(p) ==
    /\ call[p].pc = "reaping" /\ "REAPING" \notin flags
    /\ NullOrRestart(p)
    /\ UNCHANGED <<slab, tree, mag, flags, work, age, destroyed>>

\* A slab in memory that no slab of the cache uses is linked.
GrowSlab ==
    /\ \E s \in Slabs \ OnLists(slab) : slab' = LinkSlab(slab, s)
    /\ flags' = flags \ {"DEADLOCKED"}

\* __spl_cache_grow in the caller's context, with KM_NOSLEEP.
GrowDirect(p) ==
    /\ call[p].pc = "grow" /\ "REAPING" \notin flags /\ ~Vmem
    /\ GrowSlab
    /\ call' = WakeAll([call EXCEPT ![p].pc = "grown"])
    /\ UNCHANGED <<tree, mag, held, work, age, destroyed>>

\* That allocation failed, or is not tried: hand it to the taskq.
GrowDirectFails(p) ==
    /\ call[p].pc = "grow" /\ "REAPING" \notin flags
    /\ Goto(p, "async")
    /\ UNCHANGED <<slab, tree, mag, held, flags, work, age, destroyed>>

\* Only the thread that sets GROWING dispatches spl_cache_grow_work, if it can
\* allocate the request, which a KM_SLEEP caller always can.
GrowAsync(p) ==
    /\ call[p].pc = "async"
    /\ flags' = flags \cup {"GROWING"}
    /\ \/ "GROWING" \in flags /\ Goto(p, "asynced") /\ UNCHANGED work
       \/ "GROWING" \notin flags /\ Goto(p, "asynced") /\ work' = "queued"
       \/ "GROWING" \notin flags /\ ~call[p].sleep /\ Goto(p, "nomem") /\ UNCHANGED work
    /\ UNCHANGED <<slab, tree, mag, held, age, destroyed>>

\* The request could not be allocated.
GrowNoMem(p) ==
    /\ call[p].pc = "nomem"
    /\ flags' = flags \ {"GROWING"}
    /\ call' = WakeAll([call EXCEPT ![p] = [Idle EXCEPT !.cpu = call[p].cpu]])
    /\ UNCHANGED <<slab, tree, mag, held, work, age, destroyed>>

\* The test of DEADLOCKED; in the emergency case, then the test of the partial
\* list, which may have a slab now.
GrowAsynced(p) ==
    /\ call[p].pc = "asynced"
    /\ \/ "DEADLOCKED" \notin flags /\ Goto(p, "check") /\ UNCHANGED held
       \/ "DEADLOCKED" \in flags /\ slab.partial = <<>> /\ Goto(p, "emergency") /\ UNCHANGED held
       \/ "DEADLOCKED" \in flags /\ slab.partial # <<>> /\ NullOrRestart(p)
    /\ UNCHANGED <<slab, tree, mag, flags, work, age, destroyed>>

\* spl_emergency_alloc gets its memory, and the caller the object.
EmergencyAlloc(p) ==
    /\ call[p].pc = "emergency"
    /\ \E o \in Emergency \ tree :
           /\ tree' = tree \cup {o}
           /\ slab' = [slab EXCEPT !.obj_total = @ + 1, !.obj_emergency = @ + 1]
           /\ Return(p, o)
    /\ UNCHANGED <<mag, flags, work, age, destroyed>>

EmergencyFails(p) ==
    /\ call[p].pc = "emergency"
    /\ NullOrRestart(p)
    /\ UNCHANGED <<slab, tree, mag, flags, work, age, destroyed>>

\* wait_event_timeout evaluates spl_cache_grow_wait, before it sleeps and when it
\* is woken.
GrowWait(p) ==
    /\ call[p].pc = "check"
    /\ \/ "GROWING" \notin flags /\ NullOrRestart(p)
       \/ "GROWING" \in flags /\ Goto(p, "wait") /\ UNCHANGED held
    /\ UNCHANGED <<slab, tree, mag, flags, work, age, destroyed>>

\* HZ / 10 have passed; the condition counts even then.
GrowTimeout(p) ==
    /\ call[p].pc = "wait"
    /\ \/ "GROWING" \notin flags /\ NullOrRestart(p)
       \/ "GROWING" \in flags /\ Goto(p, "timeout") /\ UNCHANGED held
    /\ UNCHANGED <<slab, tree, mag, flags, work, age, destroyed>>

\* A timeout that is not recorded.
MutGrowDeadlocked(p) ==
    /\ call[p].pc = "timeout"
    /\ NullOrRestart(p)
    /\ UNCHANGED <<slab, tree, mag, flags, work, age, destroyed>>

\* After the timeout, under skc_lock.
GrowDeadlocked(p) ==
    /\ call[p].pc = "timeout"
    /\ flags' = IF "GROWING" \in flags THEN flags \cup {"DEADLOCKED"} ELSE flags
    /\ NullOrRestart(p)
    /\ UNCHANGED <<slab, tree, mag, work, age, destroyed>>

\* A refill that goes on after spl_cache_grow without looking at its cpu or its
\* magazine again.
MutGrown(p, c) ==
    /\ call[p].pc = "grown" /\ c = call[p].cpu
    /\ RefillMagazine(p, c, call[p].n)
    /\ UNCHANGED <<tree, flags, work, age, destroyed>>

\* spl_cache_grow returned 0: on another cpu the refill is given up, on the same
\* one it goes on for what still fits.
Grown(p, c) ==
    /\ call[p].pc = "grown"
    /\ \/ /\ c # call[p].cpu
          /\ NullOrRestart(p)
          /\ UNCHANGED <<slab, mag>>
       \/ /\ c = call[p].cpu
          /\ RefillMagazine(p, c, RefillSize(c, call[p].n))
    /\ UNCHANGED <<tree, flags, work, age, destroyed>>

\* spl_cache_grow_work on the taskq: __spl_cache_grow, which may fail, and then
\* GROWING is cleared.
GrowWork ==
    /\ work = "queued"
    /\ GrowSlab
    /\ call' = WakeAll(call)
    /\ work' = "linked"
    /\ UNCHANGED <<tree, mag, held, age, destroyed>>

GrowWorkFails ==
    /\ work = "queued"
    /\ work' = "linked"
    /\ UNCHANGED <<slab, tree, mag, held, flags, age, call, destroyed>>

GrowWorkDone ==
    /\ work = "linked"
    /\ flags' = flags \ {"GROWING"}
    /\ work' = "idle"
    /\ UNCHANGED <<slab, tree, mag, held, age, call, destroyed>>

------------------------------------------------------------------------------
(* Free.                                                                     *)

\* A flush that forgets to move the remaining objects down.
MutFreeMagazine(p, c, o) ==
    /\ \/ /\ Len(mag[c]) < MagSize
          /\ mag' = [mag EXCEPT ![c] = Append(@, o)]
          /\ UNCHANGED <<slab, call>>
       \/ /\ Len(mag[c]) >= MagSize
          /\ slab' = Flush(slab, SubSeq(mag[c], 1, MagRefill))
          /\ mag' = [mag EXCEPT ![c] = Append(SubSeq(@, 1, Len(@) - MagRefill), o)]
          /\ call' = [call EXCEPT ![p].pc = "reclaim", ![p].back = call[p].pc]
    /\ UNCHANGED tree

\* The object goes to the magazine of the cpu; a full magazine is flushed first
\* and empty slabs are reclaimed once interrupts are on again.
FreeMagazine(p, c, o) ==
    /\ \/ /\ Len(mag[c]) < MagSize
          /\ mag' = [mag EXCEPT ![c] = Append(@, o)]
          /\ UNCHANGED <<slab, call>>
       \/ /\ Len(mag[c]) >= MagSize
          /\ slab' = Flush(slab, SubSeq(mag[c], 1, MagRefill))
          /\ mag' = [mag EXCEPT ![c] = Append(SubSeq(@, MagRefill + 1, Len(@)), o)]
          /\ call' = [call EXCEPT ![p].pc = "reclaim", ![p].back = call[p].pc]
    /\ UNCHANGED tree

\* spl_emergency_free.
FreeEmergency(o) ==
    /\ tree' = tree \ {o}
    /\ slab' = [slab EXCEPT !.obj_total = @ - 1, !.obj_emergency = @ - 1]
    /\ UNCHANGED <<mag, call>>

\* spl_kmem_cache_free, called by a client or by its reclaim callback.
Free(p, c, o) ==
    /\ call[p].pc \in {"idle", "callback"} /\ ~destroyed
    /\ o \in held[p]
    /\ held' = [held EXCEPT ![p] = @ \ {o}]
    /\ IF slab.obj_emergency > 0 /\ o \in tree THEN FreeEmergency(o) ELSE FreeMagazine(p, c, o)
    /\ UNCHANGED <<flags, work, age, destroyed>>

FreeReclaim(p) ==
    /\ call[p].pc = "reclaim"
    /\ slab' = spl_slab_reclaim(slab)
    /\ Goto(p, call[p].back)
    /\ UNCHANGED <<tree, mag, held, flags, work, age, destroyed>>

------------------------------------------------------------------------------
(* spl_kmem_cache_reap_now.                                                  *)

\* More objects than there are: UINT64_MAX in the code.
Unlimited == Cardinality(AllObjs) + 1

Reap(p) ==
    /\ Reaps /\ call[p].pc = "idle" /\ ~destroyed
    /\ "REAPING" \notin flags
    /\ flags' = flags \cup {"REAPING"}
    /\ call' = [call EXCEPT ![p] = [Idle EXCEPT !.pc = "reap", !.n = Unlimited]]
    /\ UNCHANGED <<slab, tree, mag, held, work, age, destroyed>>

\* A loop that goes on without progress.
MutReapRound(p) ==
    /\ call[p].pc = "reap"
    /\ call' = [call EXCEPT
          ![p].n  = slab.obj_alloc,
          ![p].pc = IF /\ slab.slab_total > 0
                       /\ slab.slab_total = slab.slab_alloc
                       /\ slab.obj_alloc <= call[p].n
                    THEN "callback" ELSE "flush"]
    /\ UNCHANGED <<slab, tree, mag, held, flags, work, age, destroyed>>

\* One round of the loop: the callback runs while there is no empty slab and the
\* last round made progress.
ReapRound(p) ==
    /\ call[p].pc = "reap"
    /\ call' = [call EXCEPT
          ![p].n  = slab.obj_alloc,
          ![p].pc = IF /\ slab.slab_total > 0
                       /\ slab.slab_total = slab.slab_alloc
                       /\ slab.obj_alloc < call[p].n
                    THEN "callback" ELSE "flush"]
    /\ UNCHANGED <<slab, tree, mag, held, flags, work, age, destroyed>>

\* The callback has freed what it wanted to.
CallbackReturns(p) ==
    /\ call[p].pc = "callback"
    /\ Goto(p, "reap")
    /\ UNCHANGED <<slab, tree, mag, held, flags, work, age, destroyed>>

\* With KMC_EXPIRE_MEM the magazine of the cpu p runs on goes back whole.
ReapFlush(p, c) ==
    /\ call[p].pc = "flush"
    /\ IF "mem" \in Expire THEN /\ slab' = Flush(slab, mag[c])
                                /\ mag' = [mag EXCEPT ![c] = <<>>]
                           ELSE UNCHANGED <<slab, mag>>
    /\ Goto(p, "release")
    /\ UNCHANGED <<tree, held, flags, work, age, destroyed>>

ReapRelease(p) ==
    /\ call[p].pc = "release"
    /\ slab' = spl_slab_reclaim(slab)
    /\ Goto(p, "reaped")
    /\ UNCHANGED <<tree, mag, held, flags, work, age, destroyed>>

Reaped(p) ==
    /\ call[p].pc = "reaped"
    /\ flags' = flags \ {"REAPING"}
    /\ call' = [call EXCEPT ![p] = Idle]
    /\ UNCHANGED <<slab, tree, mag, held, work, age, destroyed>>

------------------------------------------------------------------------------
(* spl_cache_age, one run of the delayed task.                               *)

Age ==
    /\ "age" \in Expire /\ ~age.on /\ ~destroyed
    /\ age' = [on |-> TRUE, left |-> Cpus]
    /\ UNCHANGED <<slab, tree, mag, held, flags, work, call, destroyed>>

\* spl_magazine_age on cpu c: part of the magazine goes back, unless its objects
\* are too young or skc_lock is taken.
MagazineAge(c) ==
    /\ c \in age.left
    /\ age' = [age EXCEPT !.left = @ \ {c}]
    /\ \/ LET count == Min({MagRefill, Len(mag[c])})
          IN  /\ slab' = Flush(slab, SubSeq(mag[c], 1, count))
              /\ mag' = [mag EXCEPT ![c] = SubSeq(@, count + 1, Len(@))]
       \/ UNCHANGED <<slab, mag>>
    /\ UNCHANGED <<tree, held, flags, work, call, destroyed>>

AgeReclaim ==
    /\ age.on /\ age.left = {}
    /\ slab' = spl_slab_reclaim(slab)
    /\ age' = AgeIdle
    /\ UNCHANGED <<tree, mag, held, flags, work, call, destroyed>>

------------------------------------------------------------------------------
(* spl_kmem_cache_destroy, once nothing else uses the cache (KmemLifecycle   *)
(* says how it waits for that): spl_magazine_destroy flushes every magazine. *)

Destroy ==
    /\ ~destroyed /\ work = "idle" /\ ~age.on
    /\ \A p \in Threads : call[p].pc = "idle" /\ held[p] = {}
    /\ slab' = spl_slab_reclaim(FoldSet(LAMBDA c, S : Flush(S, mag[c]), slab, Cpus))
    /\ mag' = [c \in Cpus |-> <<>>]
    /\ destroyed' = TRUE
    /\ UNCHANGED <<tree, held, flags, work, age, call>>

\* What a client decides to do, itself or in its reclaim callback.
Client(p) ==
    \/ \E how \in Waits : Alloc(p, how)
    \/ \E c \in Cpus, o \in held[p] : Free(p, c, o)
    \/ Reap(p)

\* The steps of a call that has begun.
Step(p) ==
    \/ \E c \in Cpus : AllocHit(p, c) \/ AllocMiss(p, c) \/ Grown(p, c) \/ ReapFlush(p, c)
    \/ GrowReaping(p) \/ ReapingOver(p) \/ GrowDirect(p) \/ GrowDirectFails(p)
    \/ GrowAsync(p) \/ GrowNoMem(p) \/ GrowAsynced(p)
    \/ EmergencyAlloc(p) \/ EmergencyFails(p)
    \/ GrowWait(p) \/ GrowTimeout(p) \/ GrowDeadlocked(p)
    \/ FreeReclaim(p)
    \/ ReapRound(p) \/ CallbackReturns(p) \/ ReapRelease(p) \/ Reaped(p)

Work == GrowWork \/ GrowWorkFails \/ GrowWorkDone

Next ==
    \/ \E p \in Threads : Client(p) \/ Step(p)
    \/ Work
    \/ Age \/ AgeReclaim \/ \E c \in Cpus : MagazineAge(c)
    \/ Destroy

Spec == Init /\ [][Next]_vars

\* Threads are scheduled, timeouts expire, and an allocation does not fail again
\* and again without ever succeeding.  The slab allocation on the taskq may hang
\* for ever: a request in the queue is not assumed to be served.
Fairness ==
    /\ \A p \in Threads : WF_vars(Step(p))
    /\ \A p \in Threads : SF_vars(EmergencyAlloc(p))
    /\ []<><<GrowWorkFails>>_vars => []<><<GrowWork>>_vars

FairSpec == Spec /\ Fairness

------------------------------------------------------------------------------
TypeOK ==
    /\ slab.partial \in Seq(Slabs) /\ slab.complete \subseteq Slabs
    /\ slab.free \in [Slabs -> Seq(Objs)]
    /\ slab.ref \in [Slabs -> 0..SlabObjs]
    /\ tree \subseteq Emergency
    /\ mag \in [Cpus -> Seq(AllObjs)]
    /\ held \in [Threads -> SUBSET AllObjs]
    /\ flags \subseteq {"GROWING", "DEADLOCKED", "REAPING"}
    /\ work \in {"idle", "queued", "linked"}
    /\ age \in [on : BOOLEAN, left : SUBSET Cpus]
    /\ destroyed \in BOOLEAN
    /\ call \in [Threads -> [pc : {"idle", "reclaim"} \cup AllocPcs \cup ReapPcs, cpu : Cpus,
                             n : 0..Unlimited, sleep : BOOLEAN, back : {"idle", "callback"}]]

\* How often object o occurs in the sequence list.
Times(o, list) == Cardinality({i \in DOMAIN list : list[i] = o})

\* The number of places that object o is in.
Places(o) ==
    MapThenSumSet(LAMBDA s : Times(o, slab.free[s]), Slabs)
    + MapThenSumSet(LAMBDA c : Times(o, mag[c]), Cpus)
    + Cardinality({p \in Threads : o \in held[p]})

\* No object is lost or handed out twice: an object of a slab of the cache is on
\* its slab's free list, in one magazine or with one caller; an emergency object
\* is in the tree exactly while one caller has it; and nothing is left anywhere
\* of a slab whose memory spl_slab_reclaim has returned.
ObjectsOwned ==
    /\ \A o \in Objs : Places(o) = IF o[1] \in OnLists(slab) THEN 1 ELSE 0
    /\ \A o \in Emergency : Places(o) = IF o \in tree THEN 1 ELSE 0

\* "All empty slabs are at the end of skc->skc_partial_list" (spl_slab_reclaim):
\* stopping at the first slab in use misses none.  Slabs on the complete list,
\* which refill never looks at, have nothing to give.
EmptySlabsLast ==
    /\ \A i, j \in DOMAIN slab.partial :
           i < j /\ slab.ref[slab.partial[i]] = 0 => slab.ref[slab.partial[j]] = 0
    /\ \A s \in OnLists(slab) : s \in slab.complete <=> slab.ref[s] = SlabObjs

\* The counters that reaping, the shrinker and the assertions of
\* spl_kmem_cache_destroy rely on agree with the lists.
CountersExact ==
    /\ slab.slab_total = Len(slab.partial) + Cardinality(slab.complete)
    /\ slab.slab_alloc = Cardinality({s \in OnLists(slab) : slab.ref[s] > 0})
    /\ slab.obj_alloc = MapThenSumSet(LAMBDA s : slab.ref[s], OnLists(slab))
    /\ slab.obj_emergency = Cardinality(tree)
    /\ slab.obj_total = SlabObjs * slab.slab_total + slab.obj_emergency
    /\ \A s \in OnLists(slab) : slab.ref[s] + Len(slab.free[s]) = SlabObjs

\* The assertions at the end of spl_kmem_cache_destroy.
DestroyedEmpty ==
    destroyed => /\ OnLists(slab) = {} /\ tree = {}
                 /\ slab.slab_alloc = 0 /\ slab.obj_alloc = 0
                 /\ slab.slab_total = 0 /\ slab.obj_total = 0 /\ slab.obj_emergency = 0

\* The lists of slabs and the counters over them are what the reclaim of slabs and
\* the assertions of spl_kmem_cache_destroy take them to be.
SlabsExact == TypeOK /\ EmptySlabsLast /\ CountersExact /\ DestroyedEmpty

\* A magazine never holds more than skm_size objects, although other threads
\* use it while a refill sleeps in spl_cache_grow.
MagazineBounded == \A c \in Cpus : Len(mag[c]) <= MagSize

\* "Fall back to a smaller synchronous allocations to ensure forward progress is
\* always maintained" (spl_cache_grow): a KM_SLEEP allocation does not go round
\* for ever, even if the taskq never gets a slab, once the other threads are out
\* of the cache.
AllocProgress ==
    \A p \in Threads :
        ~<>[](/\ call[p].pc \in AllocPcs /\ call[p].sleep
              /\ \A q \in Threads \ {p} : call[q].pc = "idle")

\* spl_kmem_cache_reap_now comes to an end, however often its callback frees
\* objects and whatever the other threads allocate meanwhile; with it ends the
\* wait of the allocations that REAPING holds up.
ReapEnds ==
    \A p \in Threads : call[p].pc \in ReapPcs ~> call[p].pc = "idle"

\* "Allocate an object from the per-cpu magazine, or if the magazine is empty
\* directly allocate from a slab and repopulate the magazine": NULL is returned
\* only if there is still no object in the magazine.
NullOnlyWhenEmpty ==
    [][\A p \in Threads :
          call[p].pc \in AllocPcs /\ call'[p].pc = "idle" /\ held'[p] = held[p]
              => mag'[call'[p].cpu] = <<>>]_vars

\* "From this point only new emergency objects will be allocated until the
\* asynchronous allocation completes and clears the deadlocked flag": the flag
\* is not set once the allocation is over.
DeadlockedWhileGrowing == "DEADLOCKED" \in flags => "GROWING" \in flags

\* __spl_cache_grow is "responsible for allocating a new slab, linking it in to
\* the list of partial slabs, and then waking any waiters": nobody sleeps on
\* when the slab is there and no work is left that would wake them.
GrowWaitersWoken ==
    slab.partial # <<>> /\ "GROWING" \notin flags /\ work = "idle"
        => \A p \in Threads : call[p].pc # "wait"

=============================================================================
