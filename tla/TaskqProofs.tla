----------------------------- MODULE TaskqProofs -----------------------------
(***************************************************************************)
(* Every action of Taskq keeps the inductive invariant, and the safety     *)
(* properties that the invariant implies.                                  *)
(***************************************************************************)
EXTENDS TaskqCallProofs

\* A worker has finished a task: its entry is disposed of, its id leaves the
\* active list and tq_lowest_id is brought up to date.
LEMMA InvFinishTask ==
  ASSUME IInv, TypeOK', NEW t \in Threads, FinishTask(t)
  PROVE  IInv' /\ tq_lowest_id <= tq_lowest_id'
<1> DEFINE E == tqt[t].ents
<1>0. /\ TypeOK /\ ListsInv /\ OwnersInv /\ FlagsInv /\ KindsInv /\ TimersOwned /\ OrderInv
  BY Zenon DEF IInv
<1>F. tqent_flags \in FlagSets
  BY Zenon, <1>0 DEF TypeOK, FlagSets
<1>1. /\ tqt[t].pc = "run" /\ WakeWaiters
      /\ tq_active_list' = list_del(tq_active_list, t)
      /\ tq_lowest_id' = NextLowest(tqt[t].id, tq_pend_list, tq_prio_list, tq_delay_list,
                                    list_del(tq_active_list, t))
      /\ tqt' = [tqt EXCEPT ![t] = [Resting EXCEPT !.pc = "top"]]
      /\ UNCHANGED <<tq_next_id, tq_pend_list, tq_prio_list, tq_delay_list, timer>>
  BY Zenon DEF FinishTask
<1>2. /\ E \subseteq Ents /\ E \cap Queued = {} /\ E \subseteq heap \ Free
      /\ \A u \in Threads \ {t} : tqt[u].ents \cap E = {}
      /\ \A q \in Procs, d \in E : ~Syncing(q, d)
      /\ \A d \in E : timer[d] = "off"
  <2>1. E \subseteq heap \ (Free \cup Queued) /\ heap \subseteq Ents
    BY Zenon, <1>0 DEF OwnersInv, TypeOK, Ents
  <2>2. \A u \in Threads \ {t} : tqt[u].ents \cap E = {}
    BY Zenon, <1>0 DEF OwnersInv
  <2>3. \A q \in Procs, d \in E : ~Syncing(q, d)
    BY Zenon, <1>0, <2>1 DEF OwnersInv
  <2>4. \A d \in E : d \in Ents /\ d \notin Queued
    BY Zenon, <2>1
  <2> HIDE DEF E
  <2>5. \A d \in E : timer[d] = "off"
    BY Zenon, <2>3, <2>4, TimerOff
  <2> QED BY Zenon, <2>1, <2>2, <2>3, <2>5
<1>3. \/ E = {} /\ UNCHANGED <<tqent_id, tqent_flags, tq_free_list, heap>>
      \/ \E e \in E : task_done(e, tqent_flags)
  BY Zenon DEF FinishTask, pool
<1> HIDE DEF E
<1>4. /\ Inj(tq_free_list') /\ Free' \subseteq (Free \cup E) \cap heap'
      /\ heap \ E \subseteq heap' /\ heap' \subseteq heap
      /\ \A d \in Ents \ E : tqent_id'[d] = tqent_id[d] /\ tqent_flags'[d] = tqent_flags[d]
      /\ \A e \in E : /\ e \in HeapEnts => "PREALLOC" \notin tqent_flags'[e]
                      /\ e \in Free' => "CANCEL" \notin tqent_flags'[e]
  <2>1. CASE E = {} /\ UNCHANGED <<tqent_id, tqent_flags, tq_free_list, heap>>
    <3>1. Free' = Free /\ Inj(tq_free_list) /\ Free \subseteq heap
      BY Zenon, <1>0, <2>1 DEF Free, ListsInv, OwnersInv
    <3> QED BY Zenon, <2>1, <3>1
  <2>2. ASSUME NEW e \in E, task_done(e, tqent_flags)
        PROVE  /\ Inj(tq_free_list') /\ Free' \subseteq (Free \cup {e}) \cap heap'
               /\ heap \ {e} \subseteq heap' /\ heap' \subseteq heap
               /\ \A d \in Ents \ {e} : /\ tqent_id'[d] = tqent_id[d]
                                        /\ tqent_flags'[d] = tqent_flags[d]
               /\ tqent_flags'[e] = tqent_flags[e] \/ tqent_flags'[e] = {}
               /\ e \in Free' => tqent_flags'[e] = {}
    <3>1. e \in heap \ Free
      BY Zenon, <1>2
    <3> QED BY Zenon, <1>F, <2>2, <3>1, DoneFacts
  <2>3. ASSUME NEW e \in E, task_done(e, tqent_flags)
        PROVE  \A d \in E : /\ d \in HeapEnts => "PREALLOC" \notin tqent_flags'[d]
                            /\ d \in Free' => "CANCEL" \notin tqent_flags'[d]
    <3>1. /\ Free' \subseteq Free \cup {e}
          /\ \A d \in Ents \ {e} : tqent_flags'[d] = tqent_flags[d]
          /\ tqent_flags'[e] = tqent_flags[e] \/ tqent_flags'[e] = {}
          /\ e \in Free' => tqent_flags'[e] = {}
      BY Zenon, <2>2, <2>3
    <3>2. \A d \in HeapEnts : "PREALLOC" \notin tqent_flags[d]
      BY Zenon, <1>0 DEF FlagsInv
    <3> QED BY Zenon, <1>2, <3>1, <3>2
  <2> QED BY Zenon, <1>3, <2>1, <2>2, <2>3
<1>5. /\ tqt'[t].pc = "top" /\ tqt'[t].ents = {}
      /\ \A u \in Threads \ {t} : tqt'[u] = tqt[u]
  <2>1. [Resting EXCEPT !.pc = "top"].pc = "top" /\ [Resting EXCEPT !.pc = "top"].ents = {}
    BY Zenon DEF Resting
  <2> QED BY Zenon, <1>0, <1>1, <2>1 DEF TypeOK
<1>6. \A u \in Threads : tqt'[u].ents \subseteq tqt[u].ents \ E
  BY Zenon, <1>2, <1>5
<1>7. /\ \A q \in Procs, d \in Ents : Syncing(q, d)' <=> (Syncing(q, d) /\ d \notin E)
      /\ \A q \in Procs : call'[q].pc \in {"poll", "alloc"} => call'[q] = call[q]
  <2>1. \A q \in Procs : call'[q] = IF call[q].pc = "wait"
                                    THEN [call[q] EXCEPT !.asleep = FALSE] ELSE call[q]
    BY Zenon, <1>1 DEF WakeWaiters
  <2>2. \A q \in Procs : call[q].pc = "wait" => [call[q] EXCEPT !.asleep = FALSE].pc = "wait"
    BY Zenon, <1>0, CallShape DEF TypeOK
  <2>3. \A q \in Procs : call'[q] = call[q] \/ (call[q].pc = "wait" /\ call'[q].pc = "wait")
    BY ZenonT(60), <2>1, <2>2
  <2>4. \A q \in Procs, d \in Ents : Syncing(q, d)' <=> Syncing(q, d)
    BY Zenon, <2>3 DEF Syncing
  <2> QED BY Zenon, <1>2, <2>3, <2>4
<1>8. ReleaseStep(E)
  BY Zenon, <1>1, <1>2, <1>4, <1>6, <1>7 DEF ReleaseStep
<1>9. /\ Free' \cap Queued' = {} /\ Queued' = Queued
      /\ OwnersInv' /\ FlagsInv' /\ KindsInv' /\ TimersOwned'
      /\ Sorted(tq_pend_list', tqent_id') /\ Sorted(tq_prio_list', tqent_id')
      /\ Sorted(tq_delay_list', tqent_id')
      /\ \A d \in Queued : tqent_id'[d] = tqent_id[d]
  BY Zenon, <1>8, ReleaseKeeps
<1>10. /\ tq_active_list' \in Seq(Threads) /\ Inj(tq_active_list')
       /\ Range(tq_active_list') = Range(tq_active_list) \ {t}
       /\ Sorted(tq_active_list', tqt_id)
  <2>1. tq_active_list \in Seq(Threads) /\ Inj(tq_active_list) /\ Sorted(tq_active_list, tqt_id)
    BY Zenon, <1>0 DEF TypeOK, ListsInv, OrderInv
  <2> QED BY Zenon, <1>1, <2>1, DelFacts
<1>11. Range(tq_active_list) = {u \in Threads : tqt[u].pc = "run"}
  BY Zenon, <1>0 DEF ListsInv
<1>12. \A u \in Range(tq_active_list') : u \in Threads /\ tqt'[u] = tqt[u]
  BY Zenon, <1>5, <1>10, <1>11
<1>13. ListsInv'
  <2>1. Range(tq_active_list') = {u \in Threads : tqt'[u].pc = "run"}
    BY Zenon, <1>5, <1>10, <1>11
  <2>2. /\ Inj(tq_pend_list) /\ Inj(tq_prio_list) /\ Inj(tq_delay_list)
        /\ Pend \cap Prio = {} /\ (Pend \cup Prio) \cap Delay = {}
    BY Zenon, <1>0 DEF ListsInv
  <2>3. UNCHANGED <<Pend, Prio, Delay>>
    BY Zenon, <1>1 DEF Pend, Prio, Delay
  <2> QED BY Zenon, <1>1, <1>4, <1>9, <1>10, <2>1, <2>2, <2>3 DEF ListsInv
<1>14. Sorted(tq_active_list', tqt_id')
  <2>1. \A u \in Range(tq_active_list') : tqt_id[u] = tqt_id'[u]
    BY Zenon, <1>12 DEF tqt_id
  <2> QED BY Zenon, <1>10, <2>1, SortedLocal
<1>15. OrderInv' /\ tq_lowest_id <= tq_lowest_id'
  <2> DEFINE Q == QueuedOn(tq_pend_list, tq_prio_list, tq_delay_list)
             A == Range(tq_active_list')
  <2>1. /\ tq_lowest_id <= tq_next_id
        /\ \A d \in Queued : tq_lowest_id <= tqent_id[d] /\ tqent_id[d] < tq_next_id
        /\ \A u \in Range(tq_active_list) : tq_lowest_id <= tqt[u].id /\ tqt[u].id < tq_next_id
        /\ \/ tq_lowest_id = tq_next_id
           \/ \E d \in Queued : tqent_id[d] = tq_lowest_id
           \/ \E u \in Range(tq_active_list) : tqt[u].id = tq_lowest_id
    BY Zenon, <1>0 DEF OrderInv
  <2>2. Q = Queued
    BY Zenon DEF QueuedOn, Queued, Pend, Prio, Delay
  <2>3. IdLists(tq_pend_list, tq_prio_list, tq_delay_list, tq_active_list')
    BY Zenon, <1>0, <1>10 DEF TypeOK, ListsInv, OrderInv, IdLists
  <2> HIDE DEF Q
  <2>4. Bounds(tq_lowest_id, Q, A)
    BY Zenon, <1>10, <2>1, <2>2 DEF Bounds
  <2>5. tq_lowest_id = tqt[t].id \/ Attained(tq_lowest_id, Q, A)
    BY Zenon, <1>10, <2>1, <2>2 DEF Attained
  <2>6. tq_lowest_id' = NextLowest(tqt[t].id, tq_pend_list, tq_prio_list, tq_delay_list,
                                   tq_active_list')
    BY Zenon, <1>1
  <2>7. /\ tq_lowest_id <= tq_lowest_id'
        /\ Bounds(tq_lowest_id', Q, A) /\ Attained(tq_lowest_id', Q, A)
    BY Zenon, <1>0, <2>3, <2>4, <2>5, <2>6, NextLowestFacts DEF Q
  <2>8. /\ tq_lowest_id <= tq_lowest_id' /\ tq_lowest_id' <= tq_next_id
        /\ \A d \in Queued : tq_lowest_id' <= tqent_id[d]
        /\ \A u \in Range(tq_active_list') : tq_lowest_id' <= tqt[u].id
        /\ \/ tq_lowest_id' = tq_next_id
           \/ \E d \in Queued : tqent_id[d] = tq_lowest_id'
           \/ \E u \in Range(tq_active_list') : tqt[u].id = tq_lowest_id'
    BY Zenon, <2>2, <2>7 DEF Bounds, Attained
  <2> HIDE DEF A
  <2>9. /\ \A u \in Range(tq_active_list') : tqt'[u].id = tqt[u].id /\ tqt[u].id < tq_next_id
        /\ tq_next_id' = tq_next_id
    BY Zenon, <1>1, <1>10, <1>12, <2>1
  <2> QED BY Zenon, <1>9, <1>14, <2>1, <2>8, <2>9 DEF OrderInv
<1> QED BY Zenon, <1>9, <1>13, <1>15 DEF IInv

\* A timer is due: the kernel detaches it.
LEMMA InvTimerFires ==
  ASSUME IInv, TypeOK', NEW e \in Ents, TimerFires(e)
  PROVE  IInv' /\ tq_lowest_id <= tq_lowest_id'
<1>1. /\ timer[e] = "pending" /\ timer' = [timer EXCEPT ![e] = "firing"]
      /\ UNCHANGED <<tq_free_list, tq_pend_list, tq_prio_list, tq_delay_list, tq_next_id,
                     tq_lowest_id, heap, tqent_id, tqent_flags, tqt, tq_active_list, call, Free>>
  BY Zenon DEF TimerFires, lists, ids, pool, workers, Free
<1>2. Inj(tq_free_list) /\ Free \subseteq heap
  BY Zenon DEF IInv, ListsInv, OwnersInv
<1>3. \A d \in Ents : timer'[d] # "off" => timer[d] # "off"
  BY Zenon, <1>1 DEF IInv, TypeOK
<1>4. \A q \in Procs, d \in Ents : Syncing(q, d)' <=> Syncing(q, d)
  BY Zenon, <1>1 DEF Syncing
<1>5. ReleaseStep({})
  BY Zenon, <1>1, <1>2, <1>3, <1>4 DEF ReleaseStep
<1> QED BY Zenon, <1>1, <1>5, QuietKeeps

\* task_expire moves its entry to the priority list, unless it was cancelled.
LEMMA InvExpire ==
  ASSUME IInv, TypeOK', NEW e \in Ents, task_expire(e)
  PROVE  IInv' /\ tq_lowest_id <= tq_lowest_id'
<1>0. /\ TypeOK /\ ListsInv /\ OwnersInv /\ FlagsInv /\ KindsInv /\ TimersOwned /\ OrderInv
  BY Zenon DEF IInv
<1>1. /\ timer[e] = "firing" /\ timer' = [timer EXCEPT ![e] = "off"]
      /\ UNCHANGED <<tq_next_id, tq_lowest_id, heap, tqent_id, tqent_flags, tqt, tqt_id,
                     tq_active_list, call>>
  BY Zenon DEF task_expire, ids, pool, workers, tqt_id
<1>2. timer'[e] = "off" /\ \A d \in Ents : timer'[d] # "off" => timer[d] # "off"
  BY Zenon, <1>0, <1>1 DEF TypeOK
<1>3. \A q \in Procs, d \in Ents : Syncing(q, d)' <=> Syncing(q, d)
  BY Zenon, <1>1 DEF Syncing
<1>4. CASE "CANCEL" \in tqent_flags[e]
  <2>1. UNCHANGED <<tq_free_list, tq_pend_list, tq_prio_list, tq_delay_list, Free>>
    BY Zenon, <1>4 DEF task_expire, lists, Free
  <2>2. Inj(tq_free_list) /\ Free \subseteq heap
    BY Zenon, <1>0 DEF ListsInv, OwnersInv
  <2>3. ReleaseStep({})
    BY Zenon, <1>1, <1>2, <1>3, <2>1, <2>2 DEF ReleaseStep
  <2> QED BY Zenon, <1>1, <2>1, <2>3, QuietKeeps
<1>5. CASE "CANCEL" \notin tqent_flags[e]
  <2>1. /\ tq_delay_list' = list_del(tq_delay_list, e)
        /\ tq_pend_list' = list_del(tq_pend_list, e)
        /\ tq_free_list' = list_del(tq_free_list, e)
        /\ tq_prio_list' = InsertById(list_del(tq_prio_list, e), e, tqent_id)
    BY Zenon, <1>5 DEF task_expire
  <2>2. e \in Delay
    BY Zenon, <1>0, <1>1, <1>5 DEF TimersOwned, Delay
  <2>3. e \in Queued /\ e \notin Pend \cup Prio \cup Free /\ e \in heap
    BY Zenon, <1>0, <2>2 DEF ListsInv, OwnersInv, Queued
  <2> DEFINE prio == list_del(tq_prio_list, e)
  <2>4. /\ Inj(tq_pend_list') /\ Inj(tq_delay_list')
        /\ Sorted(tq_pend_list', tqent_id) /\ Sorted(tq_delay_list', tqent_id)
        /\ Pend' = Pend \ {e} /\ Delay' = Delay \ {e}
        /\ prio \in Seq(Ents) /\ Inj(prio) /\ Sorted(prio, tqent_id) /\ Range(prio) = Prio \ {e}
    BY Zenon, <2>1, QueuesWithout DEF Pend, Delay
  <2>5. tq_prio_list' = InsertById(prio, e, tqent_id)
    BY Zenon, <2>1
  <2> HIDE DEF prio
  <2>6. Inj(tq_prio_list') /\ Prio' = Prio \cup {e} /\ Sorted(tq_prio_list', tqent_id)
    <3>1. e \notin Range(prio) /\ tqent_id \in [Ents -> Nat]
      BY Zenon, <1>0, <2>4 DEF TypeOK
    <3>2. /\ Inj(tq_prio_list') /\ Range(tq_prio_list') = Range(prio) \cup {e}
          /\ Sorted(tq_prio_list', tqent_id)
      BY SMTT(60), <2>4, <2>5, <3>1, InsertFacts
    <3> QED BY Zenon, <2>4, <3>2 DEF Prio
  <2>7. Inj(tq_free_list') /\ Free' = Free
    <3>1. tq_free_list \in Seq(Ents) /\ Inj(tq_free_list)
      BY Zenon, <1>0 DEF TypeOK, ListsInv
    <3>2. Inj(tq_free_list') /\ Range(tq_free_list') = Range(tq_free_list) \ {e}
      BY Zenon, <2>1, <3>1, DelFacts
    <3> QED BY Zenon, <2>3, <3>2 DEF Free
  <2>8. Pend' = Pend /\ Queued' = Queued
    BY Zenon, <2>2, <2>3, <2>4, <2>6 DEF Queued
  <2>9. ListsInv'
    <3>1. /\ Inj(tq_active_list') /\ Range(tq_active_list') = {u \in Threads : tqt'[u].pc = "run"}
      BY Zenon, <1>0, <1>1 DEF ListsInv
    <3>2. Free' \cap Queued' = {} /\ Pend' \cap Prio' = {} /\ (Pend' \cup Prio') \cap Delay' = {}
      BY Zenon, <1>0, <2>3, <2>4, <2>6, <2>7, <2>8 DEF ListsInv
    <3> QED BY Zenon, <2>4, <2>6, <2>7, <3>1, <3>2 DEF ListsInv
  <2>10. OwnersInv'
    <3>1. Free' \cup Delay' \subseteq heap' /\ Pend' \cup Prio' \subseteq heap' \cup PreEnts
      BY Zenon, <1>0, <1>1, <2>3, <2>4, <2>6, <2>7 DEF OwnersInv
    <3> QED BY Zenon, <1>0, <1>1, <1>3, <2>7, <2>8, <3>1 DEF OwnersInv
  <2>11. FlagsInv' /\ KindsInv'
    <3>1. e \in HeapEnts
      BY Zenon, <1>0, <2>3 DEF TypeOK
    <3> QED BY Zenon, <1>0, <1>1, <2>4, <2>6, <2>7, <3>1 DEF FlagsInv, KindsInv
  <2>12. TimersOwned'
    <3> SUFFICES ASSUME NEW d \in Ents, timer'[d] # "off"
                 PROVE  \/ d \in Delay' /\ "CANCEL" \notin tqent_flags'[d]
                        \/ "CANCEL" \in tqent_flags'[d] /\ \E q \in Procs : Syncing(q, d)'
      BY Zenon DEF TimersOwned, Delay, Syncing
    <3>1. timer[d] # "off" /\ d # e
      BY Zenon, <1>2
    <3>2. \/ d \in Delay /\ "CANCEL" \notin tqent_flags[d]
          \/ "CANCEL" \in tqent_flags[d] /\ \E q \in Procs : Syncing(q, d)
      BY Zenon, <1>0, <3>1 DEF TimersOwned, Delay, Syncing
    <3> QED BY Zenon, <1>1, <1>3, <2>4, <3>1, <3>2
  <2>13. OrderInv'
    BY Zenon, <1>0, <1>1, <2>4, <2>6, <2>8 DEF OrderInv
  <2>14. tq_lowest_id <= tq_lowest_id'
    BY SMTT(60), <1>0, <1>1 DEF TypeOK
  <2> QED BY Zenon, <2>9, <2>10, <2>11, <2>12, <2>13, <2>14 DEF IInv
<1> QED BY Zenon, <1>4, <1>5

\* The steps in which a call goes on and no entry changes hands: taskq_wait_id
\* and its relatives, a cancel that waits, the beginning of taskq_destroy.
LEMMA InvCall ==
  ASSUME IInv, TypeOK', NEW p \in Procs,
         \/ \E n : CancelBusy(p, n)
         \/ \E on, n : taskq_wait(p, on, n)
         \/ WaitReturns(p) \/ WaitSleeps(p) \/ DestroyBegins(p)
  PROVE  IInv' /\ tq_lowest_id <= tq_lowest_id'
<1>1. \A on, n : Waiting(on, n).pc = "wait"
  BY Zenon DEF Waiting
<1>2. Idle.pc = "idle" /\ [pc |-> "stop"].pc = "stop"
  BY Zenon DEF Idle
<1>3. call[p] \in CallTypes
  BY Zenon DEF IInv, TypeOK
<1>4. \E c : /\ call' = [call EXCEPT ![p] = c] /\ c.pc \in {"wait", "idle", "stop"}
             /\ call[p].pc # "sync" /\ UNCHANGED <<lists, ids, pool, ents, workers>>
  <2>1. ASSUME NEW n, CancelBusy(p, n)
        PROVE  /\ call' = [call EXCEPT ![p] = Waiting("id", n)] /\ call[p] = Idle
               /\ UNCHANGED <<lists, ids, pool, ents, workers>>
    BY Zenon, <2>1 DEF CancelBusy, MayCall
  <2>2. ASSUME NEW on, NEW n, taskq_wait(p, on, n)
        PROVE  \E m : /\ call' = [call EXCEPT ![p] = Waiting(on, m)] /\ call[p] = Idle
                      /\ UNCHANGED <<lists, ids, pool, ents, workers>>
    BY Zenon, <2>2 DEF taskq_wait, MayCall
  <2>3. CASE WaitReturns(p)
    BY Zenon, <1>2, <2>3 DEF WaitReturns
  <2>4. CASE WaitSleeps(p)
    <3>1. /\ call' = [call EXCEPT ![p].asleep = TRUE] /\ call[p].pc = "wait"
          /\ UNCHANGED <<lists, ids, pool, ents, workers>>
      BY Zenon, <2>4 DEF WaitSleeps
    <3>2. call' = [call EXCEPT ![p] = [call[p] EXCEPT !.asleep = TRUE]]
      BY Zenon, <3>1
    <3>3. [call[p] EXCEPT !.asleep = TRUE].pc = "wait"
      BY Zenon, <1>3, <3>1, CallShape
    <3> QED BY ZenonT(60), <3>1, <3>2, <3>3
  <2>5. CASE DestroyBegins(p)
    <3>1. /\ call' = [call EXCEPT ![p] = Waiting("destroy", 0)] /\ call[p] = Idle
          /\ UNCHANGED <<lists, ids, pool, ents, workers>>
      BY Zenon, <2>5 DEF DestroyBegins, MayCall
    <3> QED BY ZenonT(60), <1>1, <1>2, <3>1
  <2> QED BY SMTT(60), <1>1, <1>2, <2>1, <2>2, <2>3, <2>4, <2>5
<1> QED BY ZenonT(60), <1>4, CallKeeps

\* A worker with nothing to do sleeps or stops, or is told to stop.
LEMMA InvRest ==
  ASSUME IInv, TypeOK',
         \/ \E t \in Threads : Sleep(t) \/ Stop(t)
         \/ \E p \in Procs : StopThread(p)
  PROVE  IInv' /\ tq_lowest_id <= tq_lowest_id'
<1>1. UNCHANGED <<tq_free_list, tq_pend_list, tq_prio_list, tq_delay_list, tq_next_id,
                  tq_lowest_id, heap, tqent_id, tqent_flags, timer, tq_active_list, call, Free>>
  BY Zenon DEF Sleep, Stop, StopThread, lists, ids, pool, ents, Free
<1>2. Inj(tq_free_list) /\ Free \subseteq heap /\ tqt \in [Threads -> TqtTypes]
  BY Zenon DEF IInv, ListsInv, OwnersInv, TypeOK, TqtTypes
<1>3. \A u \in Threads :
        \/ tqt'[u] = tqt[u]
        \/ tqt'[u].ents = {} /\ tqt'[u].pc # "run" /\ tqt[u].pc # "run"
  <2>1. /\ Resting.ents = {} /\ Resting.pc # "run"
        /\ [Resting EXCEPT !.pc = "dead"].ents = {} /\ [Resting EXCEPT !.pc = "dead"].pc # "run"
    BY Zenon DEF Resting
  <2>2. ASSUME NEW t \in Threads, NEW r, tqt' = [tqt EXCEPT ![t] = r], r.ents = {},
               r.pc # "run", tqt[t].pc # "run"
        PROVE  \A u \in Threads :
                 \/ tqt'[u] = tqt[u]
                 \/ tqt'[u].ents = {} /\ tqt'[u].pc # "run" /\ tqt[u].pc # "run"
    BY Zenon, <1>2, <2>2
  <2>3. ASSUME NEW t \in Threads, Sleep(t)
        PROVE  tqt' = [tqt EXCEPT ![t] = Resting] /\ tqt[t].pc # "run"
    BY Zenon, <2>3 DEF Sleep, AtTop
  <2>4. ASSUME NEW t \in Threads, Stop(t)
        PROVE  /\ tqt' = [tqt EXCEPT ![t] = [Resting EXCEPT !.pc = "dead"]]
               /\ tqt[t].pc # "run"
    BY Zenon, <2>4 DEF Stop, AtTop, Woken
  <2>5. ASSUME NEW p \in Procs, StopThread(p) PROVE tqt' = tqt
    BY ZenonT(60), <2>5 DEF StopThread
  <2> QED BY ZenonT(60), <2>1, <2>2, <2>3, <2>4, <2>5
<1>4. \A q \in Procs, d \in Ents : Syncing(q, d)' <=> Syncing(q, d)
  BY Zenon, <1>1 DEF Syncing
<1>5. \A u \in Threads : tqt'[u].ents \subseteq tqt[u].ents
  BY Zenon, <1>3
<1>6. ReleaseStep({})
  BY Zenon, <1>1, <1>2, <1>4, <1>5 DEF ReleaseStep
<1>7. \A u \in Threads : /\ tqt'[u].pc = "run" <=> tqt[u].pc = "run"
                         /\ tqt[u].pc = "run" => tqt'[u].id = tqt[u].id
  BY Zenon, <1>3
<1> QED BY Zenon, <1>1, <1>6, <1>7, QuietKeeps

\* The last step of taskq_destroy empties the free list.
LEMMA InvDestroyEnds ==
  ASSUME IInv, TypeOK', NEW p \in Procs, DestroyEnds(p)
  PROVE  IInv' /\ tq_lowest_id <= tq_lowest_id'
<1>1. /\ call[p].pc = "stop" /\ tq_free_list' = <<>> /\ heap' = heap \ Free
      /\ call' = [call EXCEPT ![p] = [pc |-> "gone"]]
      /\ UNCHANGED <<tq_pend_list, tq_prio_list, tq_delay_list, tq_next_id, tq_lowest_id,
                     tqent_id, tqent_flags, timer, tqt, tq_active_list>>
  BY Zenon DEF DestroyEnds, ids, ents, workers, Free
<1>2. Inj(tq_free_list') /\ Free' = {}
  <2>1. tq_free_list' = <<>>
    BY Zenon, <1>1
  <2> QED BY <2>1 DEF Inj, Free, Range
<1>3. Free \subseteq Ents /\ Free \cap Queued = {} /\ \A q \in Procs, d \in Free : ~Syncing(q, d)
  BY Zenon, ListedEnts DEF IInv, ListsInv, OwnersInv
<1>4. \A d \in Free : timer[d] = "off" /\ (d \in HeapEnts => "PREALLOC" \notin tqent_flags[d])
  <2>1. \A d \in Free : timer[d] = "off"
    BY Zenon, <1>3, TimerOff
  <2> QED BY Zenon, <2>1 DEF IInv, FlagsInv
<1>5. \A u \in Threads : tqt[u].ents \subseteq tqt[u].ents \ Free
  BY Zenon DEF IInv, OwnersInv
<1>6. \A q \in Procs : call'[q] = IF q = p THEN [pc |-> "gone"] ELSE call[q]
  BY Zenon, <1>1 DEF IInv, TypeOK
<1>7. /\ \A q \in Procs, d \in Ents : Syncing(q, d)' <=> (Syncing(q, d) /\ d \notin Free)
      /\ \A q \in Procs : call'[q].pc \in {"poll", "alloc"} => call'[q] = call[q]
  <2>1. [pc |-> "gone"].pc = "gone"
    BY Zenon
  <2>2. \A q \in Procs, d \in Ents : Syncing(q, d)' <=> Syncing(q, d)
    BY Zenon, <1>1, <1>6, <2>1 DEF Syncing
  <2> QED BY Zenon, <1>3, <1>6, <2>1, <2>2
<1>8. ReleaseStep(Free)
  BY ZenonT(60), <1>1, <1>2, <1>3, <1>4, <1>5, <1>7 DEF ReleaseStep
<1> QED BY Zenon, <1>1, <1>8, QuietKeeps

\* taskq_create leaves a taskq whose only entries are on the free list.
LEMMA InvInit == Init => IInv
<1> SUFFICES ASSUME Init PROVE IInv
  BY Zenon
<1>0. TypeOK
  BY Zenon, TypeInit
<1>1. /\ tq_pend_list = <<>> /\ tq_prio_list = <<>> /\ tq_delay_list = <<>>
      /\ tq_active_list = <<>> /\ tq_next_id = 1 /\ tq_lowest_id = 1
      /\ heap = Free /\ tqent_flags = [e \in Ents |-> {}] /\ timer = [e \in Ents |-> "off"]
      /\ tqt = [t \in Threads |-> Resting] /\ call = [p \in Procs |-> Idle]
  BY Zenon DEF Init, Free
<1>2. Inj(tq_free_list)
  <2>1. PICK n : tq_free_list \in Injection(1 .. n, HeapEnts)
    BY Zenon DEF Init
  <2>2. IsInjective(tq_free_list)
    BY Zenon, <2>1 DEF Injection
  <2> QED BY Zenon, <2>2 DEF IsInjective, Inj
<1>3. Pend = {} /\ Prio = {} /\ Delay = {} /\ Queued = {} /\ Range(tq_active_list) = {}
  BY <1>1 DEF Pend, Prio, Delay, Queued, Range
<1>4. /\ \A t \in Threads : tqt[t].pc = "idle" /\ tqt[t].ents = {}
      /\ \A p \in Procs : call[p].pc = "idle"
  BY Zenon, <1>1 DEF Resting, Idle
<1>5. \A p \in Procs, e \in Ents : ~Syncing(p, e)
  BY Zenon, <1>4 DEF Syncing
<1>6. ListsInv
  <2>1. \A L : L = <<>> => Inj(L)
    BY SMTT(60) DEF Inj
  <2> QED BY Zenon, <1>1, <1>2, <1>3, <1>4, <2>1 DEF ListsInv
<1>7. OwnersInv
  BY Zenon, <1>1, <1>3, <1>4, <1>5 DEF OwnersInv
<1>8. FlagsInv /\ KindsInv
  <2>1. \A e \in HeapEnts \cup Free : e \in Ents
    BY Zenon, <1>0, ListedEnts DEF Ents
  <2> QED BY Zenon, <1>1, <1>3, <1>4, <2>1 DEF FlagsInv, KindsInv
<1>9. TimersOwned
  BY Zenon, <1>1 DEF TimersOwned
<1>10. OrderInv
  <2>1. \A L, id : L = <<>> => Sorted(L, id)
    BY DEF Sorted
  <2> QED BY <1>1, <1>3, <2>1 DEF OrderInv
<1> QED BY Zenon, <1>0, <1>6, <1>7, <1>8, <1>9, <1>10 DEF IInv

\* Every step keeps the invariant and does not lower tq_lowest_id.
LEMMA InvNext ==
  ASSUME Disciplined, IInv, [Next]_vars
  PROVE  IInv' /\ tq_lowest_id <= tq_lowest_id'
<1>0. TypeOK
  BY Zenon DEF IInv
<1>1. CASE UNCHANGED vars
  <2>1. UNCHANGED <<tq_free_list, tq_pend_list, tq_prio_list, tq_delay_list, tq_active_list,
                    heap, tqt, call, tqent_flags, timer, tqent_id, tq_next_id, tq_lowest_id>>
    BY Zenon, <1>1 DEF vars, lists, ids, pool, ents, workers
  <2>2. TypeOK'
    BY Zenon, <1>0, <1>1 DEF TypeOK, vars, lists, ids, pool, ents, workers
  <2>3. UNCHANGED <<Free, Pend, Prio, Delay, Queued, tqt_id>>
    BY Zenon, <2>1 DEF Free, Pend, Prio, Delay, Queued, tqt_id
  <2>4. \A p, e : Syncing(p, e)' <=> Syncing(p, e)
    BY Zenon, <2>1 DEF Syncing
  <2>5. ListsInv' /\ FlagsInv' /\ KindsInv'
    BY Zenon, <2>1, <2>3 DEF IInv, ListsInv, FlagsInv, KindsInv
  <2>6. OwnersInv'
    BY ZenonT(60), <2>1, <2>3, <2>4 DEF IInv, OwnersInv
  <2>7. TimersOwned' /\ OrderInv'
    BY Zenon, <2>1, <2>3 DEF IInv, TimersOwned, OrderInv
  <2>8. tq_lowest_id <= tq_lowest_id'
    BY SMTT(60), <1>0, <2>1 DEF TypeOK
  <2> QED BY Zenon, <2>2, <2>5, <2>6, <2>7, <2>8 DEF IInv
<1>2. ASSUME NEW p \in Procs, ClientStep(p) PROVE IInv' /\ tq_lowest_id <= tq_lowest_id'
  <2>1. TypeOK'
    BY Zenon, <1>0, <1>2, TypeClient
  <2> QED BY Zenon, <1>2, <2>1, InvDispatch, InvDispatchEnt, InvCancelPending, InvCall
             DEF ClientStep
<1>3. ASSUME NEW p \in Procs, CallStep(p) PROVE IInv' /\ tq_lowest_id <= tq_lowest_id'
  <2>1. TypeOK'
    BY Zenon, <1>0, <1>3, TypeCall
  <2> QED BY Zenon, <1>3, <2>1, InvPoll, InvAllocReturns, InvCancelSynced, InvCall, InvRest,
             InvDestroyEnds DEF CallStep
<1>4. ASSUME NEW t \in Threads, WorkerStep(t) PROVE IInv' /\ tq_lowest_id <= tq_lowest_id'
  <2>1. TypeOK'
    BY Zenon, <1>0, <1>4, TypeWorker
  <2> QED BY Zenon, <1>4, <2>1, InvTakeTask, InvFinishTask, InvRest DEF WorkerStep
<1>5. ASSUME NEW e \in HeapEnts, TimerStep(e) PROVE IInv' /\ tq_lowest_id <= tq_lowest_id'
  <2>1. TypeOK' /\ e \in Ents
    BY Zenon, <1>0, <1>5, TypeTimer DEF Ents
  <2> QED BY Zenon, <1>5, <2>1, InvTimerFires, InvExpire DEF TimerStep
<1> QED BY Zenon, <1>1, <1>2, <1>3, <1>4, <1>5 DEF Next

-----------------------------------------------------------------------------
(* The theorems.  They hold for a taskq that nobody dispatches to with     *)
(* TQ_NOQUEUE and on which no cancel meets a timer that is being run: the  *)
(* two uses for which model checking finds a violation.                    *)

\* The invariant of the lists, the owners of the entries, the flags and the
\* order of the ids holds in every reachable state (spl-taskq.c, all of it).
THEOREM Inductive ==
  ASSUME Disciplined PROVE Spec => []IInv
<1>1. IInv /\ [Next]_vars => IInv'
  BY Zenon, InvNext
<1> QED BY <1>1, InvInit, PTL DEF Spec

\* tq_lowest_id is the least id in use at all times: what the comment at
\* spl-taskq.c 386-412 argues, for any number of threads, entries and tasks.
THEOREM LowestId ==
  ASSUME Disciplined PROVE Spec => []LowestIdExact
<1>1. IInv => LowestIdExact
  <2> SUFFICES ASSUME IInv PROVE LowestIdExact
    BY Zenon
  <2> DEFINE S == Outstanding \cup {tq_next_id}
  <2>1. tq_lowest_id \in Nat /\ tq_next_id \in Nat /\ S \subseteq Nat
    <3>1. TypeOK
      BY Zenon DEF IInv
    <3>2. Queued \subseteq Ents /\ Range(tq_active_list) \subseteq Threads
      BY Zenon, <3>1, ListedEnts
    <3>3. /\ tqent_id \in [Ents -> Nat] /\ tqt \in [Threads -> TqtTypes]
          /\ tq_lowest_id \in Nat /\ tq_next_id \in Nat
      BY Zenon, <3>1 DEF TypeOK, TqtTypes
    <3>4. \A t \in Threads : tqt[t].id \in Nat
      BY Zenon, <3>3 DEF TqtTypes
    <3> QED BY Zenon, <3>2, <3>3, <3>4 DEF Outstanding, PendingIds, ActiveIds, Queued, Pend, Prio, Delay
  <2>2. /\ tq_lowest_id <= tq_next_id
        /\ \A e \in Queued : tq_lowest_id <= tqent_id[e]
        /\ \A t \in Range(tq_active_list) : tq_lowest_id <= tqt[t].id
        /\ \/ tq_lowest_id = tq_next_id
           \/ \E e \in Queued : tqent_id[e] = tq_lowest_id
           \/ \E t \in Range(tq_active_list) : tqt[t].id = tq_lowest_id
    BY Zenon DEF IInv, OrderInv
  <2>3. tq_lowest_id \in S /\ \A n \in S : tq_lowest_id <= n
    BY Zenon, <2>2 DEF Outstanding, PendingIds, ActiveIds, Queued, Pend, Prio, Delay
  <2> HIDE DEF S
  <2>4. \A m \in S : (\A n \in S : m <= n) => m = tq_lowest_id
    BY <2>1, <2>3
  <2>5. Min(S) = tq_lowest_id
    BY Zenon, <2>3, <2>4 DEF Min
  <2> QED BY Zenon, <2>5 DEF LowestIdExact, S
<1> QED BY <1>1, Inductive, PTL

\* task_expire never meets an entry that has left the delay list, except one a
\* canceller keeps for it (spl-taskq.c 208-243 against 503-551).
THEOREM Timers ==
  ASSUME Disciplined PROVE Spec => []TimersOwned
<1>1. IInv => TimersOwned
  BY Zenon DEF IInv
<1> QED BY <1>1, Inductive, PTL

\* tq_lowest_id never goes back, as the assertions at 523 and 961 have it.
THEOREM Monotone ==
  ASSUME Disciplined PROVE Spec => LowestIdMonotone
<1>1. IInv /\ IInv' /\ [Next]_vars => [tq_lowest_id' >= tq_lowest_id]_vars
  <2> SUFFICES ASSUME IInv, [Next]_vars, IInv' PROVE tq_lowest_id' >= tq_lowest_id
    BY Zenon
  <2>1. tq_lowest_id <= tq_lowest_id'
    BY Zenon, InvNext
  <2>2. tq_lowest_id \in Nat
    BY Zenon DEF IInv, TypeOK
  <2>3. tq_lowest_id' \in Nat
    BY Zenon DEF IInv, TypeOK
  <2> QED BY Zenon, <2>1, <2>2, <2>3
<1> QED BY <1>1, Inductive, PTL DEF Spec, LowestIdMonotone

=============================================================================
