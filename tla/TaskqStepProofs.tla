--------------------------- MODULE TaskqStepProofs ---------------------------
(***************************************************************************)
(* The four kinds of step that the actions of Taskq come down to, and that *)
(* each keeps the inductive invariant: an entry is queued, an entry leaves *)
(* its queue for a canceller, entries are given up, a call goes on.        *)
(***************************************************************************)
EXTENDS TaskqTypeProofs

\* A dispatch appends an entry with the next id to one sorted list and leaves
\* the other lists alone.
LEMMA EnqueueList ==
  ASSUME NEW L \in Seq(Ents), Inj(L), NEW id \in [Ents -> Nat], Sorted(L, id),
         NEW e \in Ents, e \notin Range(L), NEW n \in Nat, \A x \in Range(L) : id[x] < n
  PROVE  /\ Sorted(L, [id EXCEPT ![e] = n])
         /\ Inj(Append(L, e)) /\ Range(Append(L, e)) = Range(L) \cup {e}
         /\ Sorted(Append(L, e), [id EXCEPT ![e] = n])
<1> DEFINE id2 == [id EXCEPT ![e] = n]
<1>1. /\ Range(L) \subseteq Ents /\ id2[e] = n /\ n <= n
      /\ \A x \in Range(L) : id2[x] = id[x]
  BY SeqElements
<1> HIDE DEF id2
<1>2. Sorted(L, id2)
  BY Zenon, <1>1, SortedLocal
<1>3. \A x \in Range(L) : id2[x] <= id2[e]
  BY <1>1
<1>4. Inj(Append(L, e)) /\ Range(Append(L, e)) = Range(L) \cup {e} /\ Sorted(Append(L, e), id2)
  BY Zenon, <1>1, <1>2, <1>3, AppendFacts
<1> QED BY Zenon, <1>2, <1>4 DEF id2

\* A step that dispatches an entry which nobody else has.
DispatchStep(e, kind) ==
    /\ Enqueue(e, kind)
    /\ Inj(tq_free_list') /\ Free' \subseteq Free \ {e}
    /\ e \notin Queued /\ timer[e] = "off"
    /\ \A t \in Threads : e \notin tqt[t].ents
    /\ \A q \in Procs : ~Syncing(q, e)
    /\ heap \subseteq heap' /\ e \in heap' \cup PreEnts
    /\ \A d \in Ents \ {e} : tqent_flags'[d] = tqent_flags[d]
    /\ e \in HeapEnts => "PREALLOC" \notin tqent_flags'[e]
    /\ e \notin HeapEnts => "PREALLOC" \in tqent_flags'[e]
    /\ kind = "delay" => "CANCEL" \notin tqent_flags'[e] /\ e \in heap'
    /\ UNCHANGED <<tq_active, tq_lowest_id, workers, cancelled>>
    /\ \A q \in Procs : call'[q] = call[q] \/ (call'[q] = Idle /\ call[q].pc # "sync")

\* Such a step keeps the invariant.
LEMMA EnqueueStep ==
  ASSUME IInv, TypeOK', NEW e \in Ents, NEW kind \in {"pend", "front", "delay"},
         DispatchStep(e, kind)
  PROVE  IInv'
<1>0. /\ TypeOK /\ ListsInv /\ OwnersInv /\ FlagsInv /\ KindsInv /\ TimersOwned /\ OrderInv
  BY Zenon DEF IInv
<1>T. /\ tqent_id \in [Ents -> Nat] /\ tq_next_id \in Nat /\ tq_lowest_id \in Nat
      /\ timer \in [Ents -> {"off", "pending", "firing"}]
      /\ tq_pend_list \in Seq(Ents) /\ tq_prio_list \in Seq(Ents) /\ tq_delay_list \in Seq(Ents)
  BY Zenon, <1>0 DEF TypeOK
<1>S. /\ Free \subseteq Ents /\ Queued \subseteq Ents
      /\ \A t \in Range(tq_active_list) : tqt[t].id \in Nat
  BY Zenon, <1>0, ListedEnts DEF TypeOK
<1>1. /\ tqent_id' = [tqent_id EXCEPT ![e] = tq_next_id] /\ tq_next_id' = tq_next_id + 1
      /\ tq_pend_list' = IF kind = "pend" THEN Append(tq_pend_list, e) ELSE tq_pend_list
      /\ tq_prio_list' = IF kind = "front" THEN Append(tq_prio_list, e) ELSE tq_prio_list
      /\ tq_delay_list' = IF kind = "delay" THEN Append(tq_delay_list, e) ELSE tq_delay_list
      /\ timer' = IF kind = "delay" THEN [timer EXCEPT ![e] = "pending"] ELSE timer
  BY Zenon DEF DispatchStep, Enqueue
<1>2. UNCHANGED <<tq_active_list, tqt, tqt_id, tq_lowest_id>>
  BY Zenon DEF DispatchStep, workers, tqt_id
<1>A. e \notin Queued /\ Free' \subseteq Free \ {e} /\ Inj(tq_free_list')
  BY Zenon DEF DispatchStep
<1>B. /\ \A t \in Threads : e \notin tqt[t].ents
      /\ \A q \in Procs : ~Syncing(q, e)
      /\ heap \subseteq heap' /\ e \in heap' \cup PreEnts
      /\ kind = "delay" => e \in heap'
  BY Zenon DEF DispatchStep
<1>C. /\ \A d \in Ents \ {e} : tqent_flags'[d] = tqent_flags[d]
      /\ e \in HeapEnts => "PREALLOC" \notin tqent_flags'[e]
      /\ e \notin HeapEnts => "PREALLOC" \in tqent_flags'[e]
      /\ kind = "delay" => "CANCEL" \notin tqent_flags'[e]
      /\ timer[e] = "off"
  BY Zenon DEF DispatchStep
<1>D. \A q \in Procs : call'[q] = call[q] \/ (call'[q] = Idle /\ call[q].pc # "sync")
  BY Zenon DEF DispatchStep
<1>3. /\ Inj(tq_pend_list') /\ Sorted(tq_pend_list', tqent_id')
      /\ Pend' = IF kind = "pend" THEN Pend \cup {e} ELSE Pend
  <2>1. /\ Inj(tq_pend_list) /\ Sorted(tq_pend_list, tqent_id) /\ e \notin Range(tq_pend_list)
        /\ \A x \in Range(tq_pend_list) : tqent_id[x] < tq_next_id
    BY Zenon, <1>0, <1>A DEF ListsInv, OrderInv, Queued, Pend
  <2>2. /\ Sorted(tq_pend_list, [tqent_id EXCEPT ![e] = tq_next_id])
        /\ Inj(Append(tq_pend_list, e))
        /\ Range(Append(tq_pend_list, e)) = Range(tq_pend_list) \cup {e}
        /\ Sorted(Append(tq_pend_list, e), [tqent_id EXCEPT ![e] = tq_next_id])
    BY Zenon, <1>T, <2>1, EnqueueList
  <2> QED BY Zenon, <1>1, <2>1, <2>2 DEF Pend
<1>4. /\ Inj(tq_prio_list') /\ Sorted(tq_prio_list', tqent_id')
      /\ Prio' = IF kind = "front" THEN Prio \cup {e} ELSE Prio
  <2>1. /\ Inj(tq_prio_list) /\ Sorted(tq_prio_list, tqent_id) /\ e \notin Range(tq_prio_list)
        /\ \A x \in Range(tq_prio_list) : tqent_id[x] < tq_next_id
    BY Zenon, <1>0, <1>A DEF ListsInv, OrderInv, Queued, Prio
  <2>2. /\ Sorted(tq_prio_list, [tqent_id EXCEPT ![e] = tq_next_id])
        /\ Inj(Append(tq_prio_list, e))
        /\ Range(Append(tq_prio_list, e)) = Range(tq_prio_list) \cup {e}
        /\ Sorted(Append(tq_prio_list, e), [tqent_id EXCEPT ![e] = tq_next_id])
    BY Zenon, <1>T, <2>1, EnqueueList
  <2> QED BY Zenon, <1>1, <2>1, <2>2 DEF Prio
<1>5. /\ Inj(tq_delay_list') /\ Sorted(tq_delay_list', tqent_id')
      /\ Delay' = IF kind = "delay" THEN Delay \cup {e} ELSE Delay
  <2>1. /\ Inj(tq_delay_list) /\ Sorted(tq_delay_list, tqent_id) /\ e \notin Range(tq_delay_list)
        /\ \A x \in Range(tq_delay_list) : tqent_id[x] < tq_next_id
    BY Zenon, <1>0, <1>A DEF ListsInv, OrderInv, Queued, Delay
  <2>2. /\ Sorted(tq_delay_list, [tqent_id EXCEPT ![e] = tq_next_id])
        /\ Inj(Append(tq_delay_list, e))
        /\ Range(Append(tq_delay_list, e)) = Range(tq_delay_list) \cup {e}
        /\ Sorted(Append(tq_delay_list, e), [tqent_id EXCEPT ![e] = tq_next_id])
    BY Zenon, <1>T, <2>1, EnqueueList
  <2> QED BY Zenon, <1>1, <2>1, <2>2 DEF Delay
<1>6. Queued' = Queued \cup {e}
  BY Zenon, <1>3, <1>4, <1>5 DEF Queued
<1>7. \A q \in Procs, d \in Ents : Syncing(q, d)' => Syncing(q, d)
  <2>1. Idle.pc = "idle"
    BY Zenon DEF Idle
  <2> QED BY Zenon, <1>D, <2>1 DEF Syncing
<1>8. ListsInv'
  BY SMTT(60), <1>0, <1>A, <1>2, <1>3, <1>4, <1>5, <1>6 DEF ListsInv, Queued
<1>9. OwnersInv'
  <2>1. /\ (Free \cup Delay \subseteq heap)' /\ (Pend \cup Prio \subseteq heap \cup PreEnts)'
    BY Zenon, <1>0, <1>A, <1>B, <1>3, <1>4, <1>5 DEF OwnersInv
  <2>2. \A t \in Threads : tqt[t].ents \subseteq heap' \ (Free' \cup Queued')
    BY Zenon, <1>0, <1>A, <1>B, <1>6 DEF OwnersInv
  <2>3. \A q \in Procs, d \in Ents : Syncing(q, d) => d \in heap' \ (Free' \cup Queued')
    BY <1>0, <1>A, <1>B, <1>6 DEF OwnersInv
  <2> QED BY Zenon, <1>0, <1>2, <1>7, <2>1, <2>2, <2>3 DEF OwnersInv
<1>10. FlagsInv'
  <2>1. \A d \in HeapEnts : d \in Ents
    BY Zenon DEF Ents
  <2>2. \A d \in HeapEnts : "PREALLOC" \notin tqent_flags'[d]
    BY Zenon, <1>0, <1>C, <2>1 DEF FlagsInv
  <2>3. ASSUME NEW d \in (Pend' \cup Prio') \ HeapEnts PROVE "PREALLOC" \in tqent_flags'[d]
    <3>1. CASE d = e
      BY Zenon, <1>C, <2>3, <3>1
    <3>2. CASE d # e
      <4>1. d \in Pend \cup Prio /\ d \in Ents
        BY Zenon, <1>S, <1>3, <1>4, <2>3, <3>2 DEF Queued
      <4> QED BY Zenon, <1>0, <1>C, <2>3, <3>2, <4>1 DEF FlagsInv
    <3> QED BY Zenon, <3>1, <3>2
  <2>4. \A d \in Free' : "CANCEL" \notin tqent_flags'[d]
    BY Zenon, <1>0, <1>A, <1>C, <1>S DEF FlagsInv
  <2> QED BY Zenon, <2>2, <2>3, <2>4 DEF FlagsInv
<1>11. KindsInv'
  <2>1. Idle.pc = "idle"
    BY Zenon DEF Idle
  <2>2. ASSUME NEW q \in Procs, call'[q].pc \in {"poll", "alloc"} PROVE call'[q] = call[q]
    BY Zenon, <1>D, <2>1, <2>2
  <2> QED BY Zenon, <1>0, <2>2 DEF KindsInv
<1>12. TimersOwned'
  <2> SUFFICES ASSUME NEW d \in Ents, timer'[d] # "off"
               PROVE  \/ d \in Delay' /\ "CANCEL" \notin tqent_flags'[d]
                      \/ "CANCEL" \in tqent_flags'[d] /\ \E q \in Procs : Syncing(q, d)'
    BY Zenon DEF TimersOwned, Delay, Syncing
  <2>1. CASE d = e
    BY Zenon, <1>T, <1>C, <1>1, <1>5, <2>1
  <2>2. CASE d # e
    <3>1. timer[d] # "off" /\ tqent_flags'[d] = tqent_flags[d]
      BY Zenon, <1>T, <1>C, <1>1, <2>2
    <3>2. \/ d \in Delay /\ "CANCEL" \notin tqent_flags[d]
          \/ "CANCEL" \in tqent_flags[d] /\ \E q \in Procs : Syncing(q, d)
      BY Zenon, <1>0, <3>1 DEF TimersOwned, Delay, Syncing
    <3>3. ASSUME NEW q \in Procs, Syncing(q, d) PROVE Syncing(q, d)'
      BY Zenon, <1>D, <3>3 DEF Syncing
    <3> QED BY Zenon, <1>5, <3>1, <3>2, <3>3
  <2> QED BY Zenon, <2>1, <2>2
<1>13. OrderInv'
  <2>1. tqent_id'[e] = tq_next_id /\ \A d \in Queued : tqent_id'[d] = tqent_id[d]
    BY Zenon, <1>T, <1>S, <1>A, <1>1
  <2>2. /\ tq_lowest_id <= tq_next_id
        /\ \A d \in Queued : tq_lowest_id <= tqent_id[d] /\ tqent_id[d] < tq_next_id
        /\ \A t \in Range(tq_active_list) : tq_lowest_id <= tqt[t].id /\ tqt[t].id < tq_next_id
        /\ \/ tq_lowest_id = tq_next_id
           \/ \E d \in Queued : tqent_id[d] = tq_lowest_id
           \/ \E t \in Range(tq_active_list) : tqt[t].id = tq_lowest_id
    BY Zenon, <1>0 DEF OrderInv
  <2>3. \A d \in Queued' : tq_lowest_id <= tqent_id'[d] /\ tqent_id'[d] < tq_next_id'
    BY SMTT(60), <1>T, <1>S, <1>1, <1>6, <2>1, <2>2
  <2>4. \A t \in Range(tq_active_list) : tq_lowest_id <= tqt[t].id /\ tqt[t].id < tq_next_id'
    BY SMTT(60), <1>T, <1>S, <1>1, <2>2
  <2>5. \/ \E d \in Queued' : tqent_id'[d] = tq_lowest_id
        \/ \E t \in Range(tq_active_list) : tqt[t].id = tq_lowest_id
    BY Zenon, <1>6, <2>1, <2>2
  <2>6. tq_lowest_id <= tq_next_id'
    BY <1>T, <1>1, <2>2
  <2>7. Sorted(tq_active_list, tqt_id)
    BY Zenon, <1>0 DEF OrderInv
  <2> QED BY Zenon, <1>2, <1>3, <1>4, <1>5, <2>3, <2>4, <2>5, <2>6, <2>7 DEF OrderInv
<1> QED BY Zenon, <1>8, <1>9, <1>10, <1>11, <1>12, <1>13 DEF IInv

\* HeadOrFacts as a statement about ids that are already known to be sorted.
HeadLeast(L, id, n, m) ==
    /\ m \in Nat /\ m <= n
    /\ \A x \in Range(L) : m <= id[x]
    /\ m = n \/ \E x \in Range(L) : m = id[x]

\* On a list in id order, looking at the head finds the least id, as taskq_lowest_id
\* does.
LEMMA HeadOrLeast ==
  ASSUME NEW S, NEW id \in [S -> Nat]
  PROVE  \A L \in Seq(S), n \in Nat :
            Inj(L) /\ Sorted(L, id) => HeadLeast(L, id, n, HeadOr(L, id, n))
BY Zenon, HeadOrFacts DEF HeadLeast

\* taskq_lowest_id on sorted lists gives the least id of them all, which is no
\* less than the old one: the argument of the comment at spl-taskq.c 386-412.
LEMMA LowestFacts ==
  ASSUME TypeOK,
         NEW pend \in Seq(Ents), Inj(pend), Sorted(pend, tqent_id),
         NEW prio \in Seq(Ents), Inj(prio), Sorted(prio, tqent_id),
         NEW delay \in Seq(Ents), Inj(delay), Sorted(delay, tqent_id),
         NEW active \in Seq(Threads), Inj(active), Sorted(active, tqt_id),
         NEW low \in Nat, low = taskq_lowest_id(pend, prio, delay, active)
  PROVE  LET Q == Range(pend) \cup Range(prio) \cup Range(delay)
         IN  /\ low <= tq_next_id
             /\ \A e \in Q : low <= tqent_id[e]
             /\ \A t \in Range(active) : low <= tqt[t].id
             /\ \/ low = tq_next_id
                \/ \E e \in Q : tqent_id[e] = low
                \/ \E t \in Range(active) : tqt[t].id = low
<1> DEFINE n1 == HeadOr(pend, tqent_id, tq_next_id)
           n2 == HeadOr(prio, tqent_id, n1)
           n3 == HeadOr(delay, tqent_id, n2)
           n4 == HeadOr(active, tqt_id, n3)
<1>1. /\ tqent_id \in [Ents -> Nat] /\ tq_next_id \in Nat /\ tqt_id \in [Threads -> Nat]
      /\ \A t \in Threads : tqt_id[t] = tqt[t].id
  BY Zenon DEF TypeOK, tqt_id
<1>2. /\ Range(pend) \subseteq Ents /\ Range(prio) \subseteq Ents /\ Range(delay) \subseteq Ents
      /\ Range(active) \subseteq Threads
  BY Zenon, SeqElements
<1>3. low = n4
  BY Zenon DEF taskq_lowest_id
<1>H. /\ \A L \in Seq(Ents), n \in Nat :
            Inj(L) /\ Sorted(L, tqent_id) => HeadLeast(L, tqent_id, n, HeadOr(L, tqent_id, n))
      /\ \A L \in Seq(Threads), n \in Nat :
            Inj(L) /\ Sorted(L, tqt_id) => HeadLeast(L, tqt_id, n, HeadOr(L, tqt_id, n))
  BY Zenon, <1>1, HeadOrLeast
<1>4. /\ n1 \in Nat /\ n1 <= tq_next_id /\ \A x \in Range(pend) : n1 <= tqent_id[x]
      /\ n1 = tq_next_id \/ \E x \in Range(pend) : n1 = tqent_id[x]
  BY Zenon, <1>1, <1>H DEF HeadLeast
<1> HIDE DEF n1
<1>5. /\ n2 \in Nat /\ n2 <= n1 /\ \A x \in Range(prio) : n2 <= tqent_id[x]
      /\ n2 = n1 \/ \E x \in Range(prio) : n2 = tqent_id[x]
  BY Zenon, <1>H, <1>4 DEF HeadLeast
<1> HIDE DEF n2
<1>6. /\ n3 \in Nat /\ n3 <= n2 /\ \A x \in Range(delay) : n3 <= tqent_id[x]
      /\ n3 = n2 \/ \E x \in Range(delay) : n3 = tqent_id[x]
  BY Zenon, <1>H, <1>5 DEF HeadLeast
<1> HIDE DEF n3
<1>7. /\ n4 \in Nat /\ n4 <= n3 /\ \A x \in Range(active) : n4 <= tqt_id[x]
      /\ n4 = n3 \/ \E x \in Range(active) : n4 = tqt_id[x]
  BY Zenon, <1>H, <1>6 DEF HeadLeast
<1> HIDE DEF n4
<1>8. \A e \in Ents : tqent_id[e] \in Nat
  BY Zenon, <1>1
<1>9. \A e \in Range(pend) \cup Range(prio) \cup Range(delay) : n4 <= tqent_id[e]
  <2>1. n4 <= n1 /\ n4 <= n2 /\ n4 <= n3
    BY SMTT(60), <1>4, <1>5, <1>6, <1>7
  <2> QED BY SMTT(60), <1>2, <1>4, <1>5, <1>6, <1>7, <1>8, <2>1
<1>10. \A t \in Range(active) : n4 <= tqt[t].id
  BY Zenon, <1>1, <1>2, <1>7
<1>11. n4 <= tq_next_id
  BY <1>1, <1>4, <1>5, <1>6, <1>7
<1>12. \/ n4 = tq_next_id
       \/ \E e \in Range(pend) \cup Range(prio) \cup Range(delay) : tqent_id[e] = n4
       \/ \E t \in Range(active) : tqt[t].id = n4
  BY Zenon, <1>1, <1>2, <1>4, <1>5, <1>6, <1>7
<1> QED BY Zenon, <1>3, <1>9, <1>10, <1>11, <1>12

\* Lists that taskq_lowest_id can work on, the entries queued on them, and what
\* it takes for a number to be the least id in use.
IdLists(pend, prio, delay, active) ==
    /\ pend \in Seq(Ents) /\ Inj(pend) /\ Sorted(pend, tqent_id)
    /\ prio \in Seq(Ents) /\ Inj(prio) /\ Sorted(prio, tqent_id)
    /\ delay \in Seq(Ents) /\ Inj(delay) /\ Sorted(delay, tqent_id)
    /\ active \in Seq(Threads) /\ Inj(active) /\ Sorted(active, tqt_id)
QueuedOn(pend, prio, delay) == Range(pend) \cup Range(prio) \cup Range(delay)
Bounds(low, Q, A) ==
    /\ low <= tq_next_id
    /\ \A e \in Q : low <= tqent_id[e]
    /\ \A t \in A : low <= tqt[t].id
Attained(low, Q, A) ==
    \/ low = tq_next_id
    \/ \E e \in Q : tqent_id[e] = low
    \/ \E t \in A : tqt[t].id = low

\* When the task with id n has left the lists, NextLowest restores the bound.
LEMMA NextLowestFacts ==
  ASSUME TypeOK, NEW pend, NEW prio, NEW delay, NEW active, NEW n,
         IdLists(pend, prio, delay, active),
         Bounds(tq_lowest_id, QueuedOn(pend, prio, delay), Range(active)),
         \/ tq_lowest_id = n
         \/ Attained(tq_lowest_id, QueuedOn(pend, prio, delay), Range(active))
  PROVE  LET low == NextLowest(n, pend, prio, delay, active)
         IN  /\ tq_lowest_id <= low
             /\ Bounds(low, QueuedOn(pend, prio, delay), Range(active))
             /\ Attained(low, QueuedOn(pend, prio, delay), Range(active))
<1> DEFINE low == NextLowest(n, pend, prio, delay, active)
           Q == QueuedOn(pend, prio, delay)
<1>1. low \in Nat /\ tq_lowest_id \in Nat /\ tq_next_id \in Nat
  BY Zenon, LowestType DEF TypeOK, IdLists
<1>2. CASE tq_lowest_id # n
  <2>1. low = tq_lowest_id
    BY Zenon, <1>2 DEF NextLowest
  <2> QED BY <1>1, <1>2, <2>1
<1>3. CASE tq_lowest_id = n
  <2>1. low = taskq_lowest_id(pend, prio, delay, active)
    BY Zenon, <1>3 DEF NextLowest
  <2> HIDE DEF low
  <2>2. Bounds(low, Q, Range(active)) /\ Attained(low, Q, Range(active))
    BY SMTT(60), <1>1, <2>1, LowestFacts DEF IdLists, QueuedOn, Bounds, Attained
  <2> HIDE DEF Q
  <2>3. tq_lowest_id <= low
    BY Zenon, <1>1, <2>2 DEF Bounds, Attained, Q
  <2> QED BY Zenon, <2>2, <2>3 DEF low, Q
<1> QED BY Zenon, <1>2, <1>3

\* A step that takes entry e off the list it is queued on, for canceller p.
CancelStep(p, e) ==
    /\ e \in Queued
    /\ tq_pend_list' = list_del(tq_pend_list, e)
    /\ tq_prio_list' = list_del(tq_prio_list, e)
    /\ tq_delay_list' = list_del(tq_delay_list, e)
    /\ tq_lowest_id' = NextLowest(tqent_id[e], tq_pend_list', tq_prio_list', tq_delay_list',
                                  tq_active_list)
    /\ Inj(tq_free_list') /\ Free' \subseteq (Free \cup {e}) \cap heap'
    /\ heap \ {e} \subseteq heap' /\ heap' \subseteq heap
    /\ \A d \in Ents \ {e} : tqent_id'[d] = tqent_id[d] /\ tqent_flags'[d] = tqent_flags[d]
    /\ e \in HeapEnts => "PREALLOC" \notin tqent_flags'[e]
    /\ e \in Free' => "CANCEL" \notin tqent_flags'[e]
    /\ \A q \in Procs :
          \/ call'[q] = call[q]
          \/ q = p /\ call[q] = Idle /\ call'[q] = [pc |-> "sync", ent |-> e]
    /\ Syncing(p, e)' => e \in heap' \ Free'
    /\ timer[e] # "off" => Syncing(p, e)' /\ "CANCEL" \in tqent_flags'[e]
    /\ UNCHANGED <<tq_next_id, timer, workers>>

\* What list_del leaves of the queues, and what is known of the ids in them.
LEMMA QueuesWithout ==
  ASSUME IInv, NEW e
  PROVE  LET pend == list_del(tq_pend_list, e)
             prio == list_del(tq_prio_list, e)
             delay == list_del(tq_delay_list, e)
         IN  /\ pend \in Seq(Ents) /\ prio \in Seq(Ents) /\ delay \in Seq(Ents)
             /\ Inj(pend) /\ Inj(prio) /\ Inj(delay)
             /\ Sorted(pend, tqent_id) /\ Sorted(prio, tqent_id) /\ Sorted(delay, tqent_id)
             /\ Range(pend) = Pend \ {e} /\ Range(prio) = Prio \ {e}
             /\ Range(delay) = Delay \ {e}
<1>1. /\ tq_pend_list \in Seq(Ents) /\ tq_prio_list \in Seq(Ents) /\ tq_delay_list \in Seq(Ents)
      /\ Inj(tq_pend_list) /\ Inj(tq_prio_list) /\ Inj(tq_delay_list)
      /\ Sorted(tq_pend_list, tqent_id) /\ Sorted(tq_prio_list, tqent_id)
      /\ Sorted(tq_delay_list, tqent_id)
  BY Zenon DEF IInv, TypeOK, ListsInv, OrderInv
<1>2. \A L \in Seq(Ents) : Inj(L) =>
         /\ list_del(L, e) \in Seq(Ents) /\ Inj(list_del(L, e))
         /\ Range(list_del(L, e)) = Range(L) \ {e}
         /\ Sorted(L, tqent_id) => Sorted(list_del(L, e), tqent_id)
  BY Zenon, DelFacts
<1> QED BY Zenon, <1>1, <1>2 DEF Pend, Prio, Delay

\* Such a step keeps the invariant and does not lower tq_lowest_id.
LEMMA CancelKeeps ==
  ASSUME IInv, TypeOK', NEW p \in Procs, NEW e \in Ents, CancelStep(p, e)
  PROVE  IInv' /\ tq_lowest_id <= tq_lowest_id'
<1>0. /\ TypeOK /\ ListsInv /\ OwnersInv /\ FlagsInv /\ KindsInv /\ TimersOwned /\ OrderInv
  BY Zenon DEF IInv
<1>1. /\ tq_pend_list' \in Seq(Ents) /\ tq_prio_list' \in Seq(Ents)
      /\ tq_delay_list' \in Seq(Ents)
      /\ Inj(tq_pend_list') /\ Inj(tq_prio_list') /\ Inj(tq_delay_list')
      /\ Sorted(tq_pend_list', tqent_id) /\ Sorted(tq_prio_list', tqent_id)
      /\ Sorted(tq_delay_list', tqent_id)
      /\ Pend' = Pend \ {e} /\ Prio' = Prio \ {e} /\ Delay' = Delay \ {e}
  BY Zenon, QueuesWithout DEF CancelStep, Pend, Prio, Delay
<1>2. UNCHANGED <<tq_active_list, tqt, tqt_id, tq_next_id, timer>>
  BY ZenonT(60) DEF CancelStep, workers, tqt_id
<1>3. Queued' = Queued \ {e} /\ e \in Queued
  BY ZenonT(60), <1>1 DEF CancelStep, Queued
<1>4. /\ Inj(tq_free_list') /\ Free' \subseteq (Free \cup {e}) \cap heap'
      /\ heap \ {e} \subseteq heap' /\ heap' \subseteq heap
  BY Zenon DEF CancelStep
<1>5. \A d \in Ents \ {e} : tqent_id'[d] = tqent_id[d] /\ tqent_flags'[d] = tqent_flags[d]
  BY Zenon DEF CancelStep
<1>6. /\ \A q \in Procs, d \in Ents :
            /\ Syncing(q, d)' => Syncing(q, d) \/ (q = p /\ d = e)
            /\ Syncing(q, d) => Syncing(q, d)'
      /\ Syncing(p, e)' => e \in heap' \ Free'
  <2>1. Idle.pc = "idle" /\ [pc |-> "sync", ent |-> e].ent = e
    BY Zenon DEF Idle
  <2>2. \A q \in Procs :
          \/ call'[q] = call[q]
          \/ q = p /\ call[q] = Idle /\ call'[q] = [pc |-> "sync", ent |-> e]
    BY Zenon DEF CancelStep
  <2>3. Syncing(p, e)' => e \in heap' \ Free'
    BY Zenon DEF CancelStep
  <2> QED BY Zenon, <2>1, <2>2, <2>3 DEF Syncing
<1>7. /\ \A t \in Threads : e \notin tqt[t].ents
      /\ \A q \in Procs : ~Syncing(q, e)
      /\ e \notin Free
  BY Zenon, <1>0, <1>3 DEF OwnersInv, ListsInv
<1>8. Free \subseteq Ents /\ Queued \subseteq Ents
  BY Zenon, <1>0, ListedEnts
<1>9. ListsInv'
  BY Zenon, <1>0, <1>1, <1>2, <1>3, <1>4 DEF ListsInv, Queued
<1>10. OwnersInv'
  <2>1. Free' \cup Delay' \subseteq heap' /\ Pend' \cup Prio' \subseteq heap' \cup PreEnts
    BY Zenon, <1>0, <1>1, <1>4 DEF OwnersInv
  <2>2. \A t \in Threads : tqt[t].ents \subseteq heap' \ (Free' \cup Queued')
    BY SMTT(60), <1>0, <1>3, <1>4, <1>7 DEF OwnersInv
  <2>3. ASSUME NEW q \in Procs, NEW d \in Ents, Syncing(q, d)'
        PROVE  /\ d \in heap' \ (Free' \cup Queued')
               /\ \A t \in Threads : d \notin tqt[t].ents
               /\ \A r \in Procs : Syncing(r, d)' => q = r
    <3>1. CASE d = e
      BY Zenon, <1>3, <1>6, <1>7, <2>3, <3>1
    <3>2. CASE d # e
      <4>1. Syncing(q, d)
        BY Zenon, <1>6, <2>3, <3>2
      <4>2. /\ d \in heap \ (Free \cup Queued)
            /\ \A t \in Threads : d \notin tqt[t].ents
            /\ \A r \in Procs : Syncing(r, d) => q = r
        BY Zenon, <1>0, <4>1 DEF OwnersInv
      <4> QED BY Zenon, <1>3, <1>4, <1>6, <3>2, <4>2
    <3> QED BY Zenon, <3>1, <3>2
  <2>4. \A t, u \in Threads : t # u => tqt[t].ents \cap tqt[u].ents = {}
    BY Zenon, <1>0 DEF OwnersInv
  <2> QED BY Zenon, <1>2, <2>1, <2>2, <2>3, <2>4 DEF OwnersInv
<1>11. FlagsInv'
  <2>1. e \in HeapEnts => "PREALLOC" \notin tqent_flags'[e]
    BY Zenon DEF CancelStep
  <2>2. e \in Free' => "CANCEL" \notin tqent_flags'[e]
    BY Zenon DEF CancelStep
  <2>3. ASSUME NEW d \in HeapEnts PROVE "PREALLOC" \notin tqent_flags'[d]
    BY Zenon, <1>0, <1>5, <2>1 DEF FlagsInv, Ents
  <2>4. ASSUME NEW d \in (Pend' \cup Prio') \ HeapEnts PROVE "PREALLOC" \in tqent_flags'[d]
    <3>1. d \in Ents \ {e} /\ d \in (Pend \cup Prio) \ HeapEnts
      BY Zenon, <1>1, <1>8 DEF Queued
    <3> QED BY Zenon, <1>0, <1>5, <3>1 DEF FlagsInv
  <2>5. ASSUME NEW d \in Free' PROVE "CANCEL" \notin tqent_flags'[d]
    BY ZenonT(60), <1>0, <1>4, <1>5, <1>8, <2>2 DEF FlagsInv
  <2> QED BY Zenon, <2>3, <2>4, <2>5 DEF FlagsInv
<1>12. KindsInv'
  <2>1. \A q \in Procs : call'[q] = call[q] \/ call'[q] = [pc |-> "sync", ent |-> e]
    BY Zenon DEF CancelStep
  <2>2. ASSUME NEW q \in Procs, call'[q].pc \in {"poll", "alloc"} PROVE call'[q] = call[q]
    BY SMTT(60), <2>1, <2>2
  <2> QED BY Zenon, <1>0, <2>2 DEF KindsInv
<1>13. TimersOwned'
  <2>1. timer[e] # "off" => Syncing(p, e)' /\ "CANCEL" \in tqent_flags'[e]
    BY ZenonT(60) DEF CancelStep
  <2> SUFFICES ASSUME NEW d \in Ents, timer[d] # "off"
               PROVE  \/ d \in Delay' /\ "CANCEL" \notin tqent_flags'[d]
                      \/ "CANCEL" \in tqent_flags'[d] /\ \E q \in Procs : Syncing(q, d)'
    BY Zenon, <1>2 DEF TimersOwned, Delay, Syncing
  <2>2. CASE d = e
    BY Zenon, <2>1, <2>2
  <2>3. CASE d # e
    <3>1. \/ d \in Delay /\ "CANCEL" \notin tqent_flags[d]
          \/ "CANCEL" \in tqent_flags[d] /\ \E q \in Procs : Syncing(q, d)
      BY Zenon, <1>0 DEF TimersOwned, Delay, Syncing
    <3> QED BY Zenon, <1>1, <1>5, <1>6, <2>3, <3>1
  <2> QED BY Zenon, <2>2, <2>3
<1>14. OrderInv' /\ tq_lowest_id <= tq_lowest_id'
  <2>1. /\ tq_lowest_id <= tq_next_id
        /\ \A d \in Queued : tq_lowest_id <= tqent_id[d] /\ tqent_id[d] < tq_next_id
        /\ \A t \in Range(tq_active_list) : tq_lowest_id <= tqt[t].id /\ tqt[t].id < tq_next_id
        /\ \/ tq_lowest_id = tq_next_id
           \/ \E d \in Queued : tqent_id[d] = tq_lowest_id
           \/ \E t \in Range(tq_active_list) : tqt[t].id = tq_lowest_id
    BY Zenon, <1>0 DEF OrderInv
  <2>2. Queued' = Range(tq_pend_list') \cup Range(tq_prio_list') \cup Range(tq_delay_list')
    BY Zenon DEF Queued, Pend, Prio, Delay
  <2>3. tq_active_list \in Seq(Threads) /\ Inj(tq_active_list) /\ Sorted(tq_active_list, tqt_id)
    BY Zenon, <1>0 DEF TypeOK, ListsInv, OrderInv
  <2>4. \A d \in Queued' : tq_lowest_id <= tqent_id[d]
    BY ZenonT(60), <1>3, <2>1
  <2>5. \/ tq_lowest_id = tqent_id[e]
        \/ tq_lowest_id = tq_next_id
        \/ \E d \in Queued' : tqent_id[d] = tq_lowest_id
        \/ \E t \in Range(tq_active_list) : tqt[t].id = tq_lowest_id
    BY ZenonT(60), <1>3, <2>1
  <2>6. tq_lowest_id' = NextLowest(tqent_id[e], tq_pend_list', tq_prio_list', tq_delay_list',
                                   tq_active_list)
    BY Zenon DEF CancelStep
  <2>7. /\ tq_lowest_id <= tq_lowest_id' /\ tq_lowest_id' <= tq_next_id
        /\ \A d \in Queued' : tq_lowest_id' <= tqent_id[d]
        /\ \A t \in Range(tq_active_list) : tq_lowest_id' <= tqt[t].id
        /\ \/ tq_lowest_id' = tq_next_id
           \/ \E d \in Queued' : tqent_id[d] = tq_lowest_id'
           \/ \E t \in Range(tq_active_list) : tqt[t].id = tq_lowest_id'
    <3> DEFINE Q == QueuedOn(tq_pend_list', tq_prio_list', tq_delay_list')
               A == Range(tq_active_list)
    <3>1. IdLists(tq_pend_list', tq_prio_list', tq_delay_list', tq_active_list)
      BY Zenon, <1>1, <2>3 DEF IdLists
    <3>2. Q = Queued'
      BY Zenon, <2>2 DEF QueuedOn
    <3> HIDE DEF Q
    <3>3. Bounds(tq_lowest_id, Q, A)
      BY Zenon, <2>1, <2>4, <3>2 DEF Bounds
    <3>4. tq_lowest_id = tqent_id[e] \/ Attained(tq_lowest_id, Q, A)
      BY Zenon, <2>5, <3>2 DEF Attained
    <3>5. /\ tq_lowest_id <= tq_lowest_id'
          /\ Bounds(tq_lowest_id', Q, A) /\ Attained(tq_lowest_id', Q, A)
      BY Zenon, <1>0, <2>6, <3>1, <3>3, <3>4, NextLowestFacts DEF Q
    <3> QED BY Zenon, <3>2, <3>5 DEF Bounds, Attained
  <2>8. \A d \in Queued' : tqent_id'[d] = tqent_id[d]
    BY Zenon, <1>3, <1>5, <1>8
  <2>9. /\ Sorted(tq_pend_list', tqent_id') /\ Sorted(tq_prio_list', tqent_id')
        /\ Sorted(tq_delay_list', tqent_id')
    BY Zenon, <1>1, <2>2, <2>8, SortedLocal
  <2>10. \A d \in Queued' : tqent_id[d] < tq_next_id
    BY Zenon, <1>3, <2>1
  <2> QED BY Zenon, <1>2, <2>1, <2>3, <2>7, <2>8, <2>9, <2>10 DEF OrderInv
<1> QED BY Zenon, <1>9, <1>10, <1>11, <1>12, <1>13, <1>14 DEF IInv

\* A step that gives up entries E, none of them queued: they go to the free list
\* or to the heap, and whoever had them forgets them.  Nothing else moves.
ReleaseStep(E) ==
    /\ E \subseteq Ents /\ E \cap Queued = {}
    /\ UNCHANGED <<tq_pend_list, tq_prio_list, tq_delay_list, tq_next_id>>
    /\ Inj(tq_free_list') /\ Free' \subseteq (Free \cup E) \cap heap'
    /\ heap \ E \subseteq heap' /\ heap' \subseteq heap
    /\ \A d \in Ents \ E : /\ tqent_id'[d] = tqent_id[d] /\ tqent_flags'[d] = tqent_flags[d]
                           /\ timer'[d] # "off" => timer[d] # "off"
    /\ \A e \in E : /\ timer'[e] = "off"
                    /\ e \in HeapEnts => "PREALLOC" \notin tqent_flags'[e]
                    /\ e \in Free' => "CANCEL" \notin tqent_flags'[e]
    /\ \A t \in Threads : tqt'[t].ents \subseteq tqt[t].ents \ E
    /\ \A q \in Procs, d \in Ents : Syncing(q, d)' <=> (Syncing(q, d) /\ d \notin E)
    /\ \A q \in Procs : call'[q].pc \in {"poll", "alloc"} =>
                           call'[q] = call[q] \/ call'[q].kind # "noqueue"

\* Such a step keeps every entry in one place.
LEMMA ReleaseKeeps ==
  ASSUME IInv, NEW E, ReleaseStep(E)
  PROVE  /\ Free' \cap Queued' = {} /\ Queued' = Queued
         /\ OwnersInv' /\ FlagsInv' /\ KindsInv' /\ TimersOwned'
         /\ Sorted(tq_pend_list', tqent_id') /\ Sorted(tq_prio_list', tqent_id')
         /\ Sorted(tq_delay_list', tqent_id')
         /\ \A d \in Queued : tqent_id'[d] = tqent_id[d]
<1>0. /\ TypeOK /\ ListsInv /\ OwnersInv /\ FlagsInv /\ KindsInv /\ TimersOwned /\ OrderInv
  BY Zenon DEF IInv
<1>1. Free \subseteq Ents /\ Queued \subseteq Ents
  BY Zenon, <1>0, ListedEnts
<1>2. /\ UNCHANGED <<Queued, Pend, Prio, Delay>>
      /\ UNCHANGED <<tq_pend_list, tq_prio_list, tq_delay_list>>
  BY ZenonT(60) DEF ReleaseStep, Queued, Pend, Prio, Delay
<1>3. /\ E \subseteq Ents /\ E \cap Queued = {}
      /\ Free' \subseteq (Free \cup E) \cap heap'
      /\ heap \ E \subseteq heap' /\ heap' \subseteq heap
  BY Zenon DEF ReleaseStep
<1>4. \A d \in Ents \ E : /\ tqent_id'[d] = tqent_id[d] /\ tqent_flags'[d] = tqent_flags[d]
                          /\ timer'[d] # "off" => timer[d] # "off"
  BY Zenon DEF ReleaseStep
<1>5. \A e \in E : /\ timer'[e] = "off"
                   /\ e \in HeapEnts => "PREALLOC" \notin tqent_flags'[e]
                   /\ e \in Free' => "CANCEL" \notin tqent_flags'[e]
  BY Zenon DEF ReleaseStep
<1>6. /\ \A t \in Threads : tqt'[t].ents \subseteq tqt[t].ents \ E
      /\ \A q \in Procs, d \in Ents : Syncing(q, d)' <=> (Syncing(q, d) /\ d \notin E)
  BY Zenon DEF ReleaseStep
<1>7. Free' \cap Queued' = {}
  BY Zenon, <1>0, <1>2, <1>3 DEF ListsInv
<1>8. OwnersInv'
  <2>1. Free' \cup Delay' \subseteq heap' /\ Pend' \cup Prio' \subseteq heap' \cup PreEnts
    BY Zenon, <1>0, <1>2, <1>3 DEF OwnersInv, Queued
  <2>2. \A t \in Threads : tqt'[t].ents \subseteq heap' \ (Free' \cup Queued')
    BY Zenon, <1>0, <1>2, <1>3, <1>6 DEF OwnersInv
  <2>3. \A t, u \in Threads : t # u => tqt'[t].ents \cap tqt'[u].ents = {}
    BY Zenon, <1>0, <1>6 DEF OwnersInv
  <2>4. ASSUME NEW q \in Procs, NEW d \in Ents, Syncing(q, d)'
        PROVE  /\ d \in heap' \ (Free' \cup Queued')
               /\ \A t \in Threads : d \notin tqt'[t].ents
               /\ \A r \in Procs : Syncing(r, d)' => q = r
    <3>1. Syncing(q, d) /\ d \notin E
      BY Zenon, <1>6, <2>4
    <3>2. /\ d \in heap \ (Free \cup Queued)
          /\ \A t \in Threads : d \notin tqt[t].ents
          /\ \A r \in Procs : Syncing(r, d) => q = r
      BY Zenon, <1>0, <3>1 DEF OwnersInv
    <3> QED BY Zenon, <1>2, <1>3, <1>6, <3>1, <3>2
  <2> QED BY Zenon, <2>1, <2>2, <2>3, <2>4 DEF OwnersInv
<1>9. FlagsInv'
  <2>1. ASSUME NEW d \in HeapEnts PROVE "PREALLOC" \notin tqent_flags'[d]
    BY Zenon, <1>0, <1>4, <1>5 DEF FlagsInv, Ents
  <2>2. ASSUME NEW d \in (Pend' \cup Prio') \ HeapEnts PROVE "PREALLOC" \in tqent_flags'[d]
    <3>1. d \in Ents \ E /\ d \in (Pend \cup Prio) \ HeapEnts
      BY Zenon, <1>1, <1>2, <1>3 DEF Queued
    <3> QED BY Zenon, <1>0, <1>4, <3>1 DEF FlagsInv
  <2>3. ASSUME NEW d \in Free' PROVE "CANCEL" \notin tqent_flags'[d]
    BY Zenon, <1>0, <1>1, <1>3, <1>4, <1>5 DEF FlagsInv
  <2> QED BY Zenon, <2>1, <2>2, <2>3 DEF FlagsInv
<1>10. KindsInv'
  <2>1. \A q \in Procs : call'[q].pc \in {"poll", "alloc"} =>
                            call'[q] = call[q] \/ call'[q].kind # "noqueue"
    BY Zenon DEF ReleaseStep
  <2> QED BY Zenon, <1>0, <2>1 DEF KindsInv
<1>11. TimersOwned'
  <2> SUFFICES ASSUME NEW d \in Ents, timer'[d] # "off"
               PROVE  \/ d \in Delay' /\ "CANCEL" \notin tqent_flags'[d]
                      \/ "CANCEL" \in tqent_flags'[d] /\ \E q \in Procs : Syncing(q, d)'
    BY Zenon DEF TimersOwned, Delay, Syncing
  <2>1. d \notin E
    BY Zenon, <1>5
  <2>2. timer[d] # "off" /\ tqent_flags'[d] = tqent_flags[d]
    BY Zenon, <1>4, <2>1
  <2>3. \/ d \in Delay /\ "CANCEL" \notin tqent_flags[d]
        \/ "CANCEL" \in tqent_flags[d] /\ \E q \in Procs : Syncing(q, d)
    BY Zenon, <1>0, <2>2 DEF TimersOwned, Delay, Syncing
  <2> QED BY ZenonT(60), <1>2, <1>6, <2>1, <2>2, <2>3
<1>12. \A d \in Queued : tqent_id'[d] = tqent_id[d]
  BY Zenon, <1>1, <1>3, <1>4
<1>13. /\ Sorted(tq_pend_list, tqent_id') /\ Sorted(tq_prio_list, tqent_id')
       /\ Sorted(tq_delay_list, tqent_id')
  <2>1. /\ tq_pend_list \in Seq(Ents) /\ Sorted(tq_pend_list, tqent_id)
        /\ tq_prio_list \in Seq(Ents) /\ Sorted(tq_prio_list, tqent_id)
        /\ tq_delay_list \in Seq(Ents) /\ Sorted(tq_delay_list, tqent_id)
    BY Zenon, <1>0 DEF TypeOK, OrderInv
  <2>2. /\ \A d \in Range(tq_pend_list) : tqent_id[d] = tqent_id'[d]
        /\ \A d \in Range(tq_prio_list) : tqent_id[d] = tqent_id'[d]
        /\ \A d \in Range(tq_delay_list) : tqent_id[d] = tqent_id'[d]
    BY Zenon, <1>12 DEF Queued, Pend, Prio, Delay
  <2> QED BY Zenon, <2>1, <2>2, SortedLocal
<1> QED BY ZenonT(60), <1>2, <1>7, <1>8, <1>9, <1>10, <1>11, <1>12, <1>13

\* What task_done does with an entry that is on no list.
LEMMA DoneFacts ==
  ASSUME IInv, NEW e \in heap \ Free, NEW flags \in FlagSets, task_done(e, flags)
  PROVE  /\ Inj(tq_free_list') /\ Free' \subseteq (Free \cup {e}) \cap heap'
         /\ heap \ {e} \subseteq heap' /\ heap' \subseteq heap
         /\ \A d \in Ents \ {e} : tqent_id'[d] = tqent_id[d] /\ tqent_flags'[d] = flags[d]
         /\ tqent_flags'[e] = flags[e] \/ tqent_flags'[e] = {}
         /\ e \in Free' => tqent_flags'[e] = {}
<1>1. /\ e \in Ents /\ tqent_id \in [Ents -> Nat] /\ tq_free_list \in Seq(Ents)
      /\ Inj(tq_free_list) /\ Free \subseteq heap /\ e \notin Range(tq_free_list)
  BY Zenon DEF IInv, TypeOK, ListsInv, OwnersInv, Ents, Free
<1>2. CASE tq_nalloc <= MinAlloc
  <2>1. /\ tqent_id' = [tqent_id EXCEPT ![e] = INVALID]
        /\ tqent_flags' = [flags EXCEPT ![e] = {}]
        /\ tq_free_list' = Append(tq_free_list, e)
        /\ heap' = heap
    BY Zenon, <1>2 DEF task_done, pool
  <2>2. Inj(tq_free_list') /\ Free' = Free \cup {e}
    BY SMTT(60), <1>1, <2>1, AppendFacts DEF Free
  <2>3. /\ \A d \in Ents \ {e} : tqent_id'[d] = tqent_id[d] /\ tqent_flags'[d] = flags[d]
        /\ tqent_flags'[e] = {}
    BY Zenon, <1>1, <2>1 DEF FlagSets
  <2> QED BY Zenon, <1>1, <2>1, <2>2, <2>3
<1>3. CASE ~(tq_nalloc <= MinAlloc)
  <2>1. /\ heap' = heap \ {e} /\ tqent_flags' = flags /\ tqent_id' = tqent_id
        /\ tq_free_list' = tq_free_list /\ Free' = Free
    BY Zenon, <1>3 DEF task_done, Free
  <2> QED BY Zenon, <1>1, <2>1
<1> QED BY ZenonT(60), <1>2, <1>3

\* A release that leaves the workers at what they do keeps the invariant.
LEMMA QuietKeeps ==
  ASSUME IInv, TypeOK', NEW E, ReleaseStep(E), UNCHANGED <<tq_lowest_id, tq_active_list>>,
         \A t \in Threads : /\ tqt'[t].pc = "run" <=> tqt[t].pc = "run"
                            /\ tqt[t].pc = "run" => tqt'[t].id = tqt[t].id
  PROVE  IInv' /\ tq_lowest_id <= tq_lowest_id'
<1>0. /\ TypeOK /\ ListsInv /\ OrderInv /\ tq_lowest_id \in Nat
  BY ZenonT(60) DEF IInv, TypeOK
<1>1. /\ UNCHANGED <<tq_pend_list, tq_prio_list, tq_delay_list, tq_next_id>>
      /\ Inj(tq_free_list')
  BY Zenon DEF ReleaseStep
<1>2. /\ Free' \cap Queued' = {} /\ Queued' = Queued
      /\ OwnersInv' /\ FlagsInv' /\ KindsInv' /\ TimersOwned'
      /\ Sorted(tq_pend_list', tqent_id') /\ Sorted(tq_prio_list', tqent_id')
      /\ Sorted(tq_delay_list', tqent_id')
      /\ \A d \in Queued : tqent_id'[d] = tqent_id[d]
  BY Zenon, ReleaseKeeps
<1>3. Range(tq_active_list) = {t \in Threads : tqt[t].pc = "run"}
  BY Zenon, <1>0 DEF ListsInv
<1>4. \A t \in Range(tq_active_list) : t \in Threads /\ tqt'[t].id = tqt[t].id
  BY Zenon, <1>3
<1>5. ListsInv'
  <2>1. /\ Inj(tq_pend_list) /\ Inj(tq_prio_list) /\ Inj(tq_delay_list) /\ Inj(tq_active_list)
        /\ Pend \cap Prio = {} /\ (Pend \cup Prio) \cap Delay = {}
    BY Zenon, <1>0 DEF ListsInv
  <2>2. Range(tq_active_list) = {t \in Threads : tqt'[t].pc = "run"}
    BY Zenon, <1>3
  <2> QED BY ZenonT(60), <1>1, <1>2, <2>1, <2>2 DEF ListsInv, Pend, Prio, Delay
<1>6. Sorted(tq_active_list, tqt_id')
  <2>1. \A t \in Range(tq_active_list) : tqt_id[t] = tqt_id'[t]
    BY Zenon, <1>4 DEF tqt_id
  <2>2. tq_active_list \in Seq(Threads) /\ Sorted(tq_active_list, tqt_id)
    BY Zenon, <1>0 DEF TypeOK, OrderInv
  <2> QED BY Zenon, <2>1, <2>2, SortedLocal
<1>7. OrderInv'
  <2>1. /\ tq_lowest_id <= tq_next_id
        /\ \A d \in Queued : tq_lowest_id <= tqent_id[d] /\ tqent_id[d] < tq_next_id
        /\ \A t \in Range(tq_active_list) : tq_lowest_id <= tqt[t].id /\ tqt[t].id < tq_next_id
        /\ \/ tq_lowest_id = tq_next_id
           \/ \E d \in Queued : tqent_id[d] = tq_lowest_id
           \/ \E t \in Range(tq_active_list) : tqt[t].id = tq_lowest_id
    BY Zenon, <1>0 DEF OrderInv
  <2> QED BY ZenonT(60), <1>1, <1>2, <1>4, <1>6, <2>1 DEF OrderInv
<1> QED BY SMTT(60), <1>0, <1>2, <1>5, <1>7 DEF IInv

\* A step in which one call goes on, and no entry changes hands.
LEMMA CallKeeps ==
  ASSUME IInv, TypeOK', NEW p \in Procs, NEW c, call' = [call EXCEPT ![p] = c],
         call[p].pc # "sync", c.pc # "sync", c.pc \in {"poll", "alloc"} => c.kind # "noqueue",
         UNCHANGED <<lists, ids, pool, ents, workers>>
  PROVE  IInv' /\ tq_lowest_id <= tq_lowest_id'
<1>1. /\ UNCHANGED <<tq_free_list, tq_pend_list, tq_prio_list, tq_delay_list, tq_next_id,
                     tq_lowest_id, heap, tqent_id, tqent_flags, timer, tqt, tq_active_list>>
      /\ UNCHANGED Free
  BY Zenon DEF lists, ids, pool, ents, workers, Free
<1>2. Inj(tq_free_list) /\ Free \subseteq heap /\ call \in [Procs -> CallTypes]
  BY ZenonT(60) DEF IInv, ListsInv, OwnersInv, TypeOK
<1>3. \A q \in Procs : call'[q] = IF q = p THEN c ELSE call[q]
  BY Zenon, <1>2
<1>4. \A q \in Procs, d \in Ents : Syncing(q, d)' <=> Syncing(q, d)
  BY Zenon, <1>3 DEF Syncing
<1>5. \A q \in Procs : call'[q].pc \in {"poll", "alloc"} =>
                          call'[q] = call[q] \/ call'[q].kind # "noqueue"
  BY Zenon, <1>3
<1>6. ReleaseStep({})
  BY ZenonT(60), <1>1, <1>2, <1>4, <1>5 DEF ReleaseStep
<1> QED BY Zenon, <1>1, <1>6, QuietKeeps

=============================================================================
