--------------------------- MODULE TaskqCallProofs ---------------------------
(***************************************************************************)
(* Dispatch, cancellation and the taking of a task keep the inductive      *)
(* invariant of Taskq.                                                     *)
(***************************************************************************)
EXTENDS TaskqStepProofs

\* An entry that is not queued and that no canceller keeps has no timer.
LEMMA TimerOff ==
  ASSUME IInv, NEW e \in Ents, e \notin Queued, \A q \in Procs : ~Syncing(q, e)
  PROVE  timer[e] = "off"
BY Zenon DEF IInv, TimersOwned, Syncing, Queued, Delay

\* task_alloc finds an entry on the free list, or goes to the heap for one.
LEMMA AllocKeeps ==
  ASSUME IInv, TypeOK', NEW p \in Procs, NEW kind \in Kinds, kind # "noqueue",
         NEW how, NEW count, call[p].pc # "sync", task_alloc(p, kind, how, count)
  PROVE  IInv' /\ tq_lowest_id <= tq_lowest_id'
<1>0. tq_lowest_id \in Nat /\ tq_lowest_id <= tq_lowest_id /\ call \in [Procs -> CallTypes]
  BY DEF IInv, TypeOK
<1>1. CASE tq_free_list # <<>>
  <2> DEFINE e == Head(tq_free_list)
  <2>1. /\ tq_free_list' = Tail(tq_free_list) /\ Enqueue(e, kind)
        /\ call' = [call EXCEPT ![p] = Idle]
        /\ UNCHANGED <<tq_active, tq_lowest_id, heap, tqent_flags, workers, cancelled>>
    BY Zenon, <1>1 DEF task_alloc, pool
  <2>2. tq_free_list \in Seq(Ents) /\ Inj(tq_free_list)
    BY Zenon DEF IInv, TypeOK, ListsInv
  <2>3. e \in Ents /\ e \in Free /\ Inj(tq_free_list') /\ Free' = Free \ {e}
    BY Zenon, <1>1, <2>1, <2>2, TailFacts DEF Free
  <2> HIDE DEF e
  <2>4. /\ e \notin Queued /\ e \in heap /\ e \in HeapEnts
        /\ \A t \in Threads : e \notin tqt[t].ents
        /\ \A q \in Procs : ~Syncing(q, e)
    BY Zenon, <2>3 DEF IInv, TypeOK, ListsInv, OwnersInv
  <2>5. timer[e] = "off"
    BY Zenon, <2>3, <2>4, TimerOff
  <2>6. "PREALLOC" \notin tqent_flags[e] /\ "CANCEL" \notin tqent_flags[e]
    BY Zenon, <2>3, <2>4 DEF IInv, FlagsInv
  <2>7. \A q \in Procs : call'[q] = call[q] \/ (call'[q] = Idle /\ call[q].pc # "sync")
    BY Zenon, <1>0, <2>1
  <2>8. DispatchStep(e, kind)
    BY Zenon, <2>1, <2>3, <2>4, <2>5, <2>6, <2>7 DEF DispatchStep
  <2>9. kind \in {"pend", "front", "delay"}
    BY Zenon DEF Kinds
  <2>10. IInv'
    BY Zenon, <2>3, <2>8, <2>9, EnqueueStep
  <2> QED BY Zenon, <1>0, <2>1, <2>10
<1>2. CASE tq_free_list = <<>>
  <2> DEFINE c == IF tq_nalloc >= MaxAlloc
                  THEN [pc |-> "poll", kind |-> kind, how |-> how, count |-> count]
                  ELSE [pc |-> "alloc", kind |-> kind, how |-> how]
  <2>1. /\ call' = [call EXCEPT ![p] = c]
        /\ UNCHANGED <<lists, ids, pool, ents, workers>>
    BY Zenon, <1>2 DEF task_alloc
  <2>2. c.pc # "sync" /\ c.kind # "noqueue"
    BY Zenon
  <2> HIDE DEF c
  <2> QED BY ZenonT(60), <2>1, <2>2, CallKeeps
<1> QED BY Zenon, <1>1, <1>2

\* taskq_dispatch and taskq_dispatch_delay.
LEMMA InvDispatch ==
  ASSUME IInv, TypeOK', Disciplined, NEW p \in Procs, NEW kind \in Kinds, NEW how,
         Dispatch(p, kind, how)
  PROVE  IInv' /\ tq_lowest_id <= tq_lowest_id'
<1>1. kind \in OpsOf(p) /\ call[p] = Idle /\ task_alloc(p, kind, how, 0)
  BY Zenon DEF Dispatch, MayCall
<1>2. kind # "noqueue"
  BY Zenon, <1>1 DEF OpsOf, Disciplined
<1>3. call[p].pc # "sync"
  BY <1>1 DEF Idle
<1> QED BY Zenon, <1>1, <1>2, <1>3, AllocKeeps

\* task_alloc wakes up at tq_maxalloc.
LEMMA InvPoll ==
  ASSUME IInv, TypeOK', NEW p \in Procs, PollAlloc(p)
  PROVE  IInv' /\ tq_lowest_id <= tq_lowest_id'
<1>1. call[p].pc = "poll" /\ call[p].pc # "sync"
  BY Zenon DEF PollAlloc
<1>2. call[p].kind # "noqueue" /\ call[p] \in CallTypes
  BY Zenon, <1>1 DEF IInv, KindsInv, TypeOK
<1>3. call[p].kind \in Kinds
  BY Zenon, <1>1, <1>2, CallShape
<1>4. CASE task_alloc(p, call[p].kind, call[p].how, call[p].count + 1)
  BY Zenon, <1>1, <1>2, <1>3, <1>4, AllocKeeps
<1>5. CASE /\ call' = [call EXCEPT ![p] = [pc |-> "alloc", kind |-> call[p].kind,
                                           how |-> call[p].how]]
           /\ UNCHANGED <<lists, ids, pool, ents, workers>>
  <2> DEFINE c == [pc |-> "alloc", kind |-> call[p].kind, how |-> call[p].how]
  <2>1. c.pc # "sync" /\ c.kind # "noqueue" /\ call' = [call EXCEPT ![p] = c]
    BY Zenon, <1>2, <1>5
  <2> HIDE DEF c
  <2> QED BY Zenon, <1>1, <1>5, <2>1, CallKeeps
<1> QED BY Zenon, <1>4, <1>5 DEF PollAlloc

\* kmem_alloc is back, with an entry that was nowhere or without one.
LEMMA InvAllocReturns ==
  ASSUME IInv, TypeOK', NEW p \in Procs, AllocReturns(p)
  PROVE  IInv' /\ tq_lowest_id <= tq_lowest_id'
<1>0. /\ tq_lowest_id \in Nat /\ tq_lowest_id <= tq_lowest_id /\ call \in [Procs -> CallTypes]
      /\ tqent_flags \in FlagSets /\ heap \subseteq HeapEnts
  <2>1. TypeOK
    BY Zenon DEF IInv
  <2>2. tqent_flags \in FlagSets
    BY Zenon, <2>1 DEF TypeOK, FlagSets
  <2>3. tq_lowest_id \in Nat /\ heap \subseteq HeapEnts
    BY Zenon, <2>1 DEF TypeOK
  <2>4. call \in [Procs -> CallTypes]
    BY Zenon, <2>1 DEF TypeOK
  <2> QED BY <2>2, <2>3, <2>4
<1>1. call[p].pc = "alloc" /\ call[p].pc # "sync" /\ call' = [call EXCEPT ![p] = Idle]
  BY Zenon DEF AllocReturns
<1>2. call[p].kind # "noqueue" /\ call[p] \in CallTypes
  BY Zenon, <1>1 DEF IInv, KindsInv, TypeOK
<1>3. call[p].kind \in {"pend", "front", "delay"}
  BY Zenon, <1>1, <1>2, CallShape DEF Kinds
<1>4. ASSUME NEW e \in HeapEnts \ heap, heap' = heap \cup {e},
             tqent_flags' = [tqent_flags EXCEPT ![e] = {}],
             Enqueue(e, call[p].kind),
             UNCHANGED <<tq_active, tq_lowest_id, tq_free_list, workers, cancelled>>
      PROVE  IInv' /\ tq_lowest_id <= tq_lowest_id'
  <2>1. e \in Ents /\ e \notin PreEnts
    BY Zenon, SetConstants DEF Ents
  <2>2. /\ e \notin Queued /\ e \notin Free
        /\ \A t \in Threads : e \notin tqt[t].ents
        /\ \A q \in Procs : ~Syncing(q, e)
    BY Zenon, <2>1 DEF IInv, OwnersInv, Queued
  <2>3. timer[e] = "off"
    BY Zenon, <2>1, <2>2, TimerOff
  <2>4. Inj(tq_free_list') /\ Free' = Free
    BY Zenon, <1>4 DEF IInv, ListsInv, Free
  <2>5. tqent_flags'[e] = {} /\ \A d \in Ents \ {e} : tqent_flags'[d] = tqent_flags[d]
    BY Zenon, <1>0, <1>4, <2>1 DEF FlagSets
  <2>6. \A q \in Procs : call'[q] = call[q] \/ (call'[q] = Idle /\ call[q].pc # "sync")
    BY Zenon, <1>0, <1>1
  <2>7. DispatchStep(e, call[p].kind)
    BY Zenon, <1>4, <2>1, <2>2, <2>3, <2>4, <2>5, <2>6 DEF DispatchStep
  <2>8. IInv'
    BY Zenon, <1>3, <2>1, <2>7, EnqueueStep
  <2> QED BY Zenon, <1>0, <1>4, <2>8
<1>5. CASE UNCHANGED <<tq_active, lists, ids, pool, ents, workers, cancelled>>
  <2>1. Idle.pc # "sync" /\ Idle.pc \notin {"poll", "alloc"}
    BY Zenon DEF Idle
  <2>2. UNCHANGED <<lists, ids, pool, ents, workers>>
    BY Zenon, <1>5
  <2> QED BY Zenon, <1>1, <2>1, <2>2, CallKeeps
<1> QED BY Zenon, <1>4, <1>5 DEF AllocReturns

\* taskq_dispatch_ent with an entry its caller owns.
LEMMA InvDispatchEnt ==
  ASSUME IInv, TypeOK', NEW p \in Procs, NEW e \in PreEnts,
         NEW kind \in {"pend", "front", "noqueue"}, DispatchEnt(p, e, kind)
  PROVE  IInv' /\ tq_lowest_id <= tq_lowest_id'
<1>0. /\ tq_lowest_id \in Nat /\ tq_lowest_id <= tq_lowest_id
      /\ tqent_flags \in FlagSets /\ tqent_id \in [Ents -> Nat] /\ heap \subseteq HeapEnts
  <2>1. TypeOK
    BY Zenon DEF IInv
  <2>2. tqent_flags \in FlagSets
    BY Zenon, <2>1 DEF TypeOK, FlagSets
  <2>3. tq_lowest_id \in Nat /\ tqent_id \in [Ents -> Nat] /\ heap \subseteq HeapEnts
    BY Zenon, <2>1 DEF TypeOK
  <2> QED BY <2>2, <2>3
<1>1. e \in Ents /\ e \notin HeapEnts /\ e \notin Queued
  BY Zenon, SetConstants DEF Ents, DispatchEnt, taskq_empty_ent, Queued, Pend, Prio, Delay
<1>2. /\ e \notin Free /\ e \notin heap
      /\ \A t \in Threads : e \notin tqt[t].ents
      /\ \A q \in Procs : ~Syncing(q, e)
  BY Zenon, <1>0, <1>1 DEF IInv, OwnersInv
<1>3. timer[e] = "off"
  BY Zenon, <1>1, <1>2, TimerOff
<1>4. CASE tq_active
  <2> DEFINE k == IF kind = "noqueue" THEN "pend" ELSE kind
  <2>1. /\ tqent_flags' = [tqent_flags EXCEPT ![e] = @ \cup {"PREALLOC"}]
        /\ Enqueue(e, k)
        /\ UNCHANGED <<tq_active, tq_lowest_id, tq_free_list, heap, workers, call, cancelled>>
    BY Zenon, <1>4 DEF DispatchEnt, pool
  <2>2. k \in {"pend", "front", "delay"} /\ k # "delay"
    BY Zenon
  <2> HIDE DEF k
  <2>3. Inj(tq_free_list') /\ Free' = Free
    BY Zenon, <2>1 DEF IInv, ListsInv, Free
  <2>4. /\ "PREALLOC" \in tqent_flags'[e]
        /\ \A d \in Ents \ {e} : tqent_flags'[d] = tqent_flags[d]
    BY Zenon, <1>0, <1>1, <2>1 DEF FlagSets
  <2>5. DispatchStep(e, k)
    BY Zenon, <1>1, <1>2, <1>3, <2>1, <2>2, <2>3, <2>4 DEF DispatchStep
  <2>6. IInv'
    BY Zenon, <1>1, <2>2, <2>5, EnqueueStep
  <2> QED BY Zenon, <1>0, <2>1, <2>6
<1>5. CASE ~tq_active
  <2>1. /\ tqent_id' = [tqent_id EXCEPT ![e] = INVALID]
        /\ UNCHANGED <<tq_free_list, tq_pend_list, tq_prio_list, tq_delay_list, tq_next_id,
                       tq_lowest_id, heap, tqent_flags, timer, tqt, tq_active_list, call>>
        /\ UNCHANGED Free
    BY Zenon, <1>5 DEF DispatchEnt, lists, ids, pool, workers, Free
  <2>2. Inj(tq_free_list) /\ Free \subseteq heap
    BY Zenon DEF IInv, ListsInv, OwnersInv
  <2>3. \A d \in Ents \ {e} : tqent_id'[d] = tqent_id[d]
    BY Zenon, <1>0, <1>1, <2>1
  <2>4. \A q \in Procs, d \in Ents : Syncing(q, d)' <=> (Syncing(q, d) /\ d \notin {e})
    BY Zenon, <1>2, <2>1 DEF Syncing
  <2>5. ReleaseStep({e})
    BY Zenon, <1>1, <1>2, <1>3, <2>1, <2>2, <2>3, <2>4 DEF ReleaseStep
  <2> QED BY Zenon, <2>1, <2>5, QuietKeeps
<1> QED BY Zenon, <1>4, <1>5

\* taskq_cancel_id finds the task on a list.  That it meets no timer which is
\* being run is what makes the entry its own.
LEMMA InvCancelPending ==
  ASSUME IInv, TypeOK', Disciplined, NEW p \in Procs, NEW n, CancelPending(p, n)
  PROVE  IInv' /\ tq_lowest_id <= tq_lowest_id'
<1>0. /\ tqent_flags \in FlagSets /\ heap \subseteq HeapEnts /\ call \in [Procs -> CallTypes]
      /\ timer \in [Ents -> {"off", "pending", "firing"}]
  <2>1. TypeOK
    BY Zenon DEF IInv
  <2>2. tqent_flags \in FlagSets
    BY Zenon, <2>1 DEF TypeOK, FlagSets
  <2>3. heap \subseteq HeapEnts /\ call \in [Procs -> CallTypes]
    BY Zenon, <2>1 DEF TypeOK
  <2>4. timer \in [Ents -> {"off", "pending", "firing"}]
    BY Zenon, <2>1 DEF TypeOK
  <2> QED BY Zenon, <2>2, <2>3, <2>4
<1>1. call[p] = Idle /\ UNCHANGED <<tq_next_id, timer, workers>>
  BY Zenon DEF CancelPending, MayCall
<1>2. PICK e \in FindPending(n) :
        LET pend == list_del(tq_pend_list, e)
            prio == list_del(tq_prio_list, e)
            delay == list_del(tq_delay_list, e)
            flags == [tqent_flags EXCEPT ![e] = @ \cup {"CANCEL"}]
        IN  /\ timer[e] = "firing" => CancelRacesExpiry
            /\ tq_pend_list' = pend /\ tq_prio_list' = prio /\ tq_delay_list' = delay
            /\ tq_lowest_id' = NextLowest(n, pend, prio, delay, tq_active_list)
            /\ \/ /\ timer[e] = "pending"
                  /\ call' = [call EXCEPT ![p] = [pc |-> "sync", ent |-> e]]
                  /\ tqent_flags' = flags
                  /\ UNCHANGED <<tqent_id, tq_free_list, pool>>
               \/ /\ timer[e] # "pending"
                  /\ IF "PREALLOC" \in flags[e]
                     THEN tqent_flags' = flags /\ UNCHANGED <<tqent_id, tq_free_list, pool>>
                     ELSE task_done(e, flags)
                  /\ UNCHANGED call
  BY Zenon DEF CancelPending
<1>3. e \in Queued /\ tqent_id[e] = n
  BY Zenon, FindFacts
<1>4. e \in Ents /\ e \notin Free /\ \A q \in Procs : ~Syncing(q, e)
  <2>1. Queued \subseteq Ents
    BY Zenon, ListedEnts DEF IInv
  <2> QED BY Zenon, <1>3, <2>1 DEF IInv, ListsInv, OwnersInv
<1>5. /\ tq_pend_list' = list_del(tq_pend_list, e)
      /\ tq_prio_list' = list_del(tq_prio_list, e)
      /\ tq_delay_list' = list_del(tq_delay_list, e)
      /\ tq_lowest_id' = NextLowest(tqent_id[e], tq_pend_list', tq_prio_list', tq_delay_list',
                                    tq_active_list)
  BY Zenon, <1>2, <1>3
<1> DEFINE flags == [tqent_flags EXCEPT ![e] = @ \cup {"CANCEL"}]
<1>6. /\ flags \in FlagSets /\ "CANCEL" \in flags[e]
      /\ \A d \in Ents \ {e} : flags[d] = tqent_flags[d]
      /\ "PREALLOC" \in flags[e] <=> "PREALLOC" \in tqent_flags[e]
      /\ e \in HeapEnts => "PREALLOC" \notin flags[e]
  <2>1. e \in HeapEnts => "PREALLOC" \notin tqent_flags[e]
    BY Zenon DEF IInv, FlagsInv
  <2> QED BY Zenon, <1>0, <1>4, <2>1 DEF FlagSets
<1>7. /\ Inj(tq_free_list) /\ Free \subseteq heap
      /\ timer[e] # "off" => e \in heap
      /\ "PREALLOC" \notin tqent_flags[e] => e \in heap
  <2>1. /\ Inj(tq_free_list) /\ Free \subseteq heap /\ Delay \subseteq heap
        /\ Pend \cup Prio \subseteq heap \cup PreEnts
    BY Zenon DEF IInv, ListsInv, OwnersInv
  <2>2. timer[e] # "off" => e \in Delay
    BY Zenon, <1>4 DEF IInv, TimersOwned, Syncing, Delay
  <2>3. "PREALLOC" \notin tqent_flags[e] => e \in HeapEnts \/ e \in Delay
    BY Zenon, <1>3 DEF IInv, FlagsInv, Queued
  <2> QED BY Zenon, <1>3, <2>1, <2>2, <2>3, SetConstants DEF Queued
<1>8. ~Syncing(p, e)
  BY Zenon, <1>4
<1>9. CASE timer[e] = "pending"
  <2>1. /\ call' = [call EXCEPT ![p] = [pc |-> "sync", ent |-> e]]
        /\ tqent_flags' = flags
        /\ UNCHANGED <<tqent_id, tq_free_list, heap, Free>>
    BY Zenon, <1>2, <1>9 DEF pool, Free
  <2> HIDE DEF flags
  <2>2. /\ Syncing(p, e)'
        /\ \A q \in Procs :
             \/ call'[q] = call[q]
             \/ q = p /\ call[q] = Idle /\ call'[q] = [pc |-> "sync", ent |-> e]
    BY Zenon, <1>0, <1>1, <2>1 DEF Syncing
  <2>3. e \in heap' \ Free'
    BY Zenon, <1>4, <1>7, <1>9, <2>1
  <2>4. CancelStep(p, e)
    BY ZenonT(60), <1>1, <1>3, <1>5, <1>6, <1>7, <1>4, <2>1, <2>2, <2>3 DEF CancelStep
  <2> QED BY Zenon, <1>4, <2>4, CancelKeeps
<1>10. CASE timer[e] # "pending"
  <2>1. timer[e] = "off"
    BY Zenon, <1>0, <1>2, <1>4, <1>10 DEF Disciplined
  <2>2. UNCHANGED call /\ ~Syncing(p, e)'
    BY Zenon, <1>2, <1>8, <1>10 DEF Syncing
  <2>3. CASE "PREALLOC" \in flags[e]
    <3>1. tqent_flags' = flags /\ UNCHANGED <<tqent_id, tq_free_list, heap, Free>>
      BY Zenon, <1>2, <1>10, <2>3 DEF pool, Free
    <3> HIDE DEF flags
    <3>2. CancelStep(p, e)
      BY ZenonT(60), <1>1, <1>3, <1>5, <1>6, <1>7, <1>4, <2>1, <2>2, <3>1 DEF CancelStep
    <3> QED BY Zenon, <1>4, <3>2, CancelKeeps
  <2>4. CASE "PREALLOC" \notin flags[e]
    <3>1. task_done(e, flags)
      BY Zenon, <1>2, <1>10, <2>4
    <3> HIDE DEF flags
    <3>2. e \in heap \ Free
      BY Zenon, <1>4, <1>6, <1>7, <2>4
    <3>3. /\ Inj(tq_free_list') /\ Free' \subseteq (Free \cup {e}) \cap heap'
          /\ heap \ {e} \subseteq heap' /\ heap' \subseteq heap
          /\ \A d \in Ents \ {e} : tqent_id'[d] = tqent_id[d] /\ tqent_flags'[d] = flags[d]
          /\ tqent_flags'[e] = flags[e] \/ tqent_flags'[e] = {}
          /\ e \in Free' => tqent_flags'[e] = {}
      BY ZenonT(60), <1>6, <3>1, <3>2, DoneFacts
    <3>4. CancelStep(p, e)
      BY Zenon, <1>1, <1>3, <1>5, <1>6, <2>1, <2>2, <3>3 DEF CancelStep
    <3> QED BY Zenon, <1>4, <3>4, CancelKeeps
  <2> QED BY Zenon, <2>3, <2>4
<1> QED BY Zenon, <1>9, <1>10

\* del_timer_sync is back, and the canceller disposes of the entry it kept.
LEMMA InvCancelSynced ==
  ASSUME IInv, TypeOK', NEW p \in Procs, CancelSynced(p)
  PROVE  IInv' /\ tq_lowest_id <= tq_lowest_id'
<1> DEFINE e == call[p].ent
<1>0. /\ TypeOK /\ tqent_flags \in FlagSets
  <2>1. TypeOK
    BY Zenon DEF IInv
  <2> QED BY ZenonT(60), <2>1 DEF TypeOK, FlagSets
<1>1. /\ call[p].pc = "sync" /\ timer' = [timer EXCEPT ![e] = "off"]
      /\ task_done(e, tqent_flags) /\ call' = [call EXCEPT ![p] = Idle]
      /\ UNCHANGED <<tq_pend_list, tq_prio_list, tq_delay_list, tq_next_id, tq_lowest_id,
                     tqt, tq_active_list>>
  BY Zenon DEF CancelSynced, ids, workers
<1>2. e \in Ents /\ Syncing(p, e)
  BY Zenon, <1>0, <1>1, CallShape DEF TypeOK, Syncing
<1> HIDE DEF e
<1>3. /\ e \in heap \ (Free \cup Queued)
      /\ \A t \in Threads : e \notin tqt[t].ents
      /\ \A q \in Procs : Syncing(q, e) => p = q
  BY Zenon, <1>2 DEF IInv, OwnersInv
<1>4. /\ Inj(tq_free_list') /\ Free' \subseteq (Free \cup {e}) \cap heap'
      /\ heap \ {e} \subseteq heap' /\ heap' \subseteq heap
      /\ \A d \in Ents \ {e} : /\ tqent_id'[d] = tqent_id[d]
                               /\ tqent_flags'[d] = tqent_flags[d]
      /\ tqent_flags'[e] = tqent_flags[e] \/ tqent_flags'[e] = {}
      /\ e \in Free' => tqent_flags'[e] = {}
  BY Zenon, <1>0, <1>1, <1>3, DoneFacts
<1>5. timer'[e] = "off" /\ \A d \in Ents \ {e} : timer'[d] = timer[d]
  BY Zenon, <1>0, <1>1, <1>2 DEF TypeOK
<1>6. e \in HeapEnts => "PREALLOC" \notin tqent_flags'[e]
  BY Zenon, <1>4 DEF IInv, FlagsInv
<1>7. /\ \A q \in Procs, d \in Ents : Syncing(q, d)' <=> (Syncing(q, d) /\ d \notin {e})
      /\ \A q \in Procs : call'[q].pc \in {"poll", "alloc"} => call'[q] = call[q]
  <2>1. \A q \in Procs : call'[q] = IF q = p THEN Idle ELSE call[q]
    BY Zenon, <1>0, <1>1 DEF TypeOK
  <2>2. Idle.pc = "idle" /\ Idle.pc \notin {"poll", "alloc"}
    BY Zenon DEF Idle
  <2>3. \A d : Syncing(p, d) => d = e
    BY Zenon, <1>2 DEF Syncing
  <2>4. \A q \in Procs, d \in Ents : Syncing(q, d)' <=> (Syncing(q, d) /\ q # p)
    BY Zenon, <2>1, <2>2 DEF Syncing
  <2> QED BY Zenon, <1>3, <2>1, <2>2, <2>3, <2>4
<1>8. ReleaseStep({e})
  BY ZenonT(60), <1>1, <1>2, <1>3, <1>4, <1>5, <1>6, <1>7 DEF ReleaseStep
<1> QED BY Zenon, <1>1, <1>8, QuietKeeps

\* A worker takes the next entry: its id moves from a queue to the active list.
LEMMA InvTakeTask ==
  ASSUME IInv, TypeOK', NEW t \in Threads, TakeTask(t)
  PROVE  IInv' /\ tq_lowest_id <= tq_lowest_id'
<1>0. /\ TypeOK /\ ListsInv /\ OwnersInv /\ FlagsInv /\ KindsInv /\ TimersOwned /\ OrderInv
  BY Zenon DEF IInv
<1>1. /\ tqt[t].pc # "run"
      /\ UNCHANGED <<tq_free_list, tq_delay_list, tq_next_id, tq_lowest_id, heap, tqent_id,
                     tqent_flags, timer, call>>
  BY ZenonT(60) DEF TakeTask, Woken, AtTop, ids, pool, ents
<1>2. PICK e \in taskq_next_ent :
        /\ tq_prio_list' = list_del(tq_prio_list, e)
        /\ tq_pend_list' = list_del(tq_pend_list, e)
        /\ tqt' = [tqt EXCEPT ![t] = [pc |-> "run", id |-> tqent_id[e],
                      ents |-> IF "PREALLOC" \in tqent_flags[e] THEN {} ELSE {e}]]
        /\ tq_active_list' = InsertById(tq_active_list, t, [tqt_id EXCEPT ![t] = tqent_id[e]])
  BY Zenon DEF TakeTask
<1> DEFINE E == IF "PREALLOC" \in tqent_flags[e] THEN {} ELSE {e}
           f == [tqt_id EXCEPT ![t] = tqent_id[e]]
<1>3. e \in Pend \cup Prio
  <2>1. \A L \in Seq(Ents) : Inj(L) /\ L # <<>> => Head(L) \in Range(L)
    BY Zenon, TailFacts
  <2>2. /\ tq_prio_list \in Seq(Ents) /\ tq_pend_list \in Seq(Ents)
        /\ Inj(tq_prio_list) /\ Inj(tq_pend_list)
    BY Zenon, <1>0 DEF TypeOK, ListsInv
  <2> QED BY Zenon, <2>1, <2>2 DEF taskq_next_ent, Pend, Prio
<1>4. e \in Ents /\ e \in Queued /\ e \notin Delay /\ e \notin Free
  <2>1. e \in Queued
    BY Zenon, <1>3 DEF Queued
  <2>2. Queued \subseteq Ents
    BY Zenon, <1>0, ListedEnts
  <2> QED BY Zenon, <1>0, <1>3, <2>1, <2>2 DEF ListsInv
<1>5. /\ Inj(tq_pend_list') /\ Inj(tq_prio_list')
      /\ Sorted(tq_pend_list', tqent_id) /\ Sorted(tq_prio_list', tqent_id)
      /\ Pend' = Pend \ {e} /\ Prio' = Prio \ {e}
  BY ZenonT(60), <1>2, QueuesWithout DEF Pend, Prio
<1>6. Delay' = Delay /\ Free' = Free
  BY Zenon, <1>1 DEF Delay, Free
<1>7. Queued' = Queued \ {e}
  BY Zenon, <1>4, <1>5, <1>6 DEF Queued
<1>8. /\ tqt'[t] = [pc |-> "run", id |-> tqent_id[e], ents |-> E]
      /\ \A u \in Threads \ {t} : tqt'[u] = tqt[u]
  BY Zenon, <1>0, <1>2 DEF TypeOK
<1>9. tqt'[t].pc = "run" /\ tqt'[t].id = tqent_id[e] /\ tqt'[t].ents = E
  BY SMTT(60), <1>8
<1>10. E \subseteq {e} /\ (e \in E => e \in heap)
  <2>1. "PREALLOC" \notin tqent_flags[e] => e \in HeapEnts
    BY Zenon, <1>0, <1>3 DEF FlagsInv
  <2>2. e \in heap \cup PreEnts
    BY Zenon, <1>0, <1>3 DEF OwnersInv
  <2> QED BY Zenon, <2>1, <2>2, SetConstants
<1> HIDE DEF E
<1>11. t \notin Range(tq_active_list) /\ Range(tq_active_list) \subseteq Threads
  BY Zenon, <1>0, <1>1 DEF ListsInv
<1>12. f \in [Threads -> Nat] /\ tqt_id' = f /\ Sorted(tq_active_list, f)
  <2>1. /\ tqt_id \in [Threads -> Nat] /\ tqent_id[e] \in Nat /\ tqent_id \in [Ents -> Nat]
        /\ tq_active_list \in Seq(Threads) /\ Sorted(tq_active_list, tqt_id)
    BY Zenon, <1>0, <1>4 DEF TypeOK, OrderInv, tqt_id
  <2>2. f \in [Threads -> Nat] /\ \A u \in Threads : f[u] = IF u = t THEN tqent_id[e] ELSE tqt_id[u]
    BY Zenon, <2>1
  <2>3. tqt_id' = f
    <3>1. tqt_id' = [u \in Threads |-> tqt'[u].id]
      BY Zenon DEF tqt_id
    <3>2. \A u \in Threads : tqt_id[u] = tqt[u].id
      BY Zenon DEF tqt_id
    <3> QED BY Zenon, <1>8, <1>9, <2>2, <3>1, <3>2
  <2> HIDE DEF f
  <2>4. \A u \in Range(tq_active_list) : tqt_id[u] = f[u]
    BY Zenon, <1>11, <2>2
  <2> QED BY Zenon, <2>1, <2>2, <2>3, <2>4, SortedLocal
<1>13. /\ Inj(tq_active_list') /\ Range(tq_active_list') = Range(tq_active_list) \cup {t}
       /\ Sorted(tq_active_list', tqt_id')
  <2>1. tq_active_list \in Seq(Threads) /\ Inj(tq_active_list)
    BY Zenon, <1>0 DEF TypeOK, ListsInv
  <2>2. tq_active_list' = InsertById(tq_active_list, t, f)
    BY ZenonT(60), <1>2
  <2> HIDE DEF f
  <2> QED BY SMTT(60), <1>11, <1>12, <2>1, <2>2, InsertFacts
<1>14. ListsInv'
  <2>1. Range(tq_active_list)' = {u \in Threads : tqt'[u].pc = "run"}
    <3>1. Range(tq_active_list) = {u \in Threads : tqt[u].pc = "run"}
      BY Zenon, <1>0 DEF ListsInv
    <3> QED BY Zenon, <1>8, <1>9, <1>13, <3>1
  <2>2. Inj(tq_free_list') /\ Inj(tq_delay_list')
    BY Zenon, <1>0, <1>1 DEF ListsInv
  <2>3. Free' \cap Queued' = {} /\ Pend' \cap Prio' = {} /\ (Pend' \cup Prio') \cap Delay' = {}
    BY Zenon, <1>0, <1>5, <1>6, <1>7 DEF ListsInv
  <2> QED BY Zenon, <1>5, <1>13, <2>1, <2>2, <2>3 DEF ListsInv
<1>15. /\ \A u \in Threads : e \notin tqt[u].ents
       /\ \A q \in Procs : ~Syncing(q, e)
       /\ \A q \in Procs : \A d : Syncing(q, d)' <=> Syncing(q, d)
  BY Zenon, <1>0, <1>1, <1>4 DEF OwnersInv, Syncing
<1>16. OwnersInv'
  <2>1. Free' \cup Delay' \subseteq heap' /\ Pend' \cup Prio' \subseteq heap' \cup PreEnts
    BY Zenon, <1>0, <1>1, <1>5, <1>6 DEF OwnersInv
  <2>2. \A u \in Threads : tqt'[u].ents \subseteq heap' \ (Free' \cup Queued')
    BY SMTT(60), <1>0, <1>1, <1>4, <1>6, <1>7, <1>8, <1>9, <1>10 DEF OwnersInv
  <2>3. \A u, v \in Threads : u # v => tqt'[u].ents \cap tqt'[v].ents = {}
    BY SMTT(60), <1>0, <1>8, <1>9, <1>10, <1>15 DEF OwnersInv
  <2>4. ASSUME NEW q \in Procs, NEW d \in Ents, Syncing(q, d)'
        PROVE  /\ d \in heap' \ (Free' \cup Queued')
               /\ \A u \in Threads : d \notin tqt'[u].ents
               /\ \A r \in Procs : Syncing(r, d)' => q = r
    <3>1. Syncing(q, d) /\ d # e
      BY Zenon, <1>15, <2>4
    <3>2. /\ d \in heap \ (Free \cup Queued)
          /\ \A u \in Threads : d \notin tqt[u].ents
          /\ \A r \in Procs : Syncing(r, d) => q = r
      BY Zenon, <1>0, <3>1 DEF OwnersInv
    <3> QED BY ZenonT(60), <1>1, <1>6, <1>7, <1>8, <1>9, <1>10, <1>15, <3>1, <3>2
  <2> QED BY Zenon, <2>1, <2>2, <2>3, <2>4 DEF OwnersInv
<1>17. FlagsInv' /\ KindsInv'
  BY ZenonT(60), <1>0, <1>1, <1>5, <1>6 DEF FlagsInv, KindsInv
<1>18. TimersOwned'
  <2>1. timer[e] = "off" \/ e \in Delay
    BY Zenon, <1>0, <1>4, <1>15 DEF TimersOwned, Syncing, Delay
  <2> QED BY ZenonT(60), <1>0, <1>1, <1>4, <2>1 DEF TimersOwned
<1>19. OrderInv'
  <2>1. /\ tq_lowest_id <= tq_next_id
        /\ \A d \in Queued : tq_lowest_id <= tqent_id[d] /\ tqent_id[d] < tq_next_id
        /\ \A u \in Range(tq_active_list) : tq_lowest_id <= tqt[u].id /\ tqt[u].id < tq_next_id
        /\ \/ tq_lowest_id = tq_next_id
           \/ \E d \in Queued : tqent_id[d] = tq_lowest_id
           \/ \E u \in Range(tq_active_list) : tqt[u].id = tq_lowest_id
        /\ Sorted(tq_delay_list, tqent_id)
    BY Zenon, <1>0 DEF OrderInv
  <2>2. \A u \in Range(tq_active_list) : tqt'[u].id = tqt[u].id
    BY Zenon, <1>8, <1>11
  <2>3. \A u \in Range(tq_active_list)' : tq_lowest_id <= tqt'[u].id /\ tqt'[u].id < tq_next_id
    BY Zenon, <1>4, <1>9, <1>13, <2>1, <2>2
  <2>4. \/ tq_lowest_id = tq_next_id
        \/ \E d \in Queued' : tqent_id[d] = tq_lowest_id
        \/ \E u \in Range(tq_active_list)' : tqt'[u].id = tq_lowest_id
    BY Zenon, <1>7, <1>9, <1>13, <2>1, <2>2
  <2>5. \A d \in Queued' : tq_lowest_id <= tqent_id[d] /\ tqent_id[d] < tq_next_id
    BY Zenon, <1>7, <2>1
  <2> QED BY ZenonT(60), <1>1, <1>5, <1>13, <2>1, <2>3, <2>4, <2>5 DEF OrderInv
<1>20. tq_lowest_id <= tq_lowest_id'
  BY <1>0, <1>1 DEF TypeOK
<1> QED BY Zenon, <1>14, <1>16, <1>17, <1>18, <1>19, <1>20 DEF IInv

=============================================================================
