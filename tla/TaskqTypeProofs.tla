--------------------------- MODULE TaskqTypeProofs ---------------------------
(* Type correctness of Taskq. *)
EXTENDS TaskqInv, KernelListProofs

-----------------------------------------------------------------------------
(* Types.                                                                  *)

AllHows == {"sleep", "nosleep", "noalloc"}
FlagSets == [Ents -> SUBSET {"PREALLOC", "CANCEL"}]

\* The fields a call in progress has, by its pc.
LEMMA CallShape ==
  ASSUME NEW c \in CallTypes
  PROVE  /\ c.pc = "poll" => c.kind \in Kinds /\ c.how \in AllHows /\ c.count \in 0 .. MaxPolls
         /\ c.pc = "alloc" => c.kind \in Kinds /\ c.how \in AllHows
         /\ c.pc = "sync" => c.ent \in Ents
         /\ c.pc = "wait" => /\ c.on \in Waits \cup {"destroy"} /\ c.id \in Nat
                             /\ [c EXCEPT !.asleep = FALSE] \in CallTypes
                             /\ [c EXCEPT !.asleep = TRUE] \in CallTypes
                             /\ [c EXCEPT !.asleep = FALSE].pc = "wait"
                             /\ [c EXCEPT !.asleep = TRUE].pc = "wait"
<1> DEFINE Poll == [pc : {"poll"}, kind : Kinds, how : AllHows, count : 0 .. MaxPolls]
           Alloc == [pc : {"alloc"}, kind : Kinds, how : AllHows]
           Wait == [pc : {"wait"}, on : Waits \cup {"destroy"}, id : Nat, asleep : BOOLEAN]
<1>1. c.pc = "poll" => c \in Poll
  BY DEF CallTypes, Idle, AllHows
<1>2. c.pc = "alloc" => c \in Alloc
  BY DEF CallTypes, Idle, AllHows
<1>3. c.pc = "sync" => c.ent \in Ents
  BY DEF CallTypes, Idle
<1>4. c.pc = "wait" => c \in Wait
  BY DEF CallTypes, Idle
<1>5. ASSUME c \in Poll PROVE c.kind \in Kinds /\ c.how \in AllHows /\ c.count \in 0 .. MaxPolls
  BY Zenon, <1>5
<1>6. ASSUME c \in Alloc PROVE c.kind \in Kinds /\ c.how \in AllHows
  BY Zenon, <1>6
<1>7. ASSUME c \in Wait
      PROVE  /\ c.on \in Waits \cup {"destroy"} /\ c.id \in Nat
             /\ [c EXCEPT !.asleep = FALSE] \in Wait
             /\ [c EXCEPT !.asleep = TRUE] \in Wait
             /\ [c EXCEPT !.asleep = FALSE].pc = "wait"
             /\ [c EXCEPT !.asleep = TRUE].pc = "wait"
  BY Zenon, <1>7
<1>8. Wait \subseteq CallTypes
  BY Zenon DEF CallTypes
<1> HIDE DEF Poll, Alloc, Wait
<1> QED BY Zenon, <1>1, <1>2, <1>3, <1>4, <1>5, <1>6, <1>7, <1>8

\* The values the actions give to call.
LEMMA CallValues ==
  /\ Idle \in CallTypes /\ [pc |-> "stop"] \in CallTypes /\ [pc |-> "gone"] \in CallTypes
  /\ \A kind \in Kinds, how \in AllHows :
        /\ [pc |-> "alloc", kind |-> kind, how |-> how] \in CallTypes
        /\ \A n \in 0 .. MaxPolls :
              [pc |-> "poll", kind |-> kind, how |-> how, count |-> n] \in CallTypes
  /\ \A e \in Ents : [pc |-> "sync", ent |-> e] \in CallTypes
  /\ \A on \in Waits \cup {"destroy"}, n \in Nat : Waiting(on, n) \in CallTypes
BY Zenon DEF CallTypes, Idle, Waiting, AllHows

\* What a dispatch makes of an entry has the right types.
LEMMA EnqueueType ==
  ASSUME TypeOK, NEW e \in Ents, NEW kind, Enqueue(e, kind)
  PROVE  /\ tq_prio_list' \in Seq(Ents) /\ tq_pend_list' \in Seq(Ents)
         /\ tq_delay_list' \in Seq(Ents)
         /\ timer' \in [Ents -> {"off", "pending", "firing"}]
         /\ tqent_id' \in [Ents -> Nat] /\ tq_next_id' \in Nat
<1>1. <<e>> \o tq_prio_list \in Seq(Ents)
  BY ConcatFacts DEF TypeOK
<1>2. \A L \in Seq(Ents) : Append(L, e) \in Seq(Ents)
  BY Zenon, AppendElements
<1>3. tq_prio_list' \in Seq(Ents)
  BY Zenon, <1>1, <1>2 DEF TypeOK, Enqueue
<1>4. tq_pend_list' \in Seq(Ents) /\ tq_delay_list' \in Seq(Ents)
  BY Zenon, <1>2 DEF TypeOK, Enqueue
<1>5. timer' \in [Ents -> {"off", "pending", "firing"}]
  BY Zenon DEF TypeOK, Enqueue
<1>6. tqent_id' = [tqent_id EXCEPT ![e] = tq_next_id] /\ tq_next_id' = tq_next_id + 1
  BY Zenon DEF Enqueue
<1>7. tqent_id \in [Ents -> Nat] /\ tq_next_id \in Nat
  BY Zenon DEF TypeOK
<1>8. tqent_id' \in [Ents -> Nat]
  BY Zenon, <1>6, <1>7
<1>9. tq_next_id' \in Nat
  BY <1>6, <1>7
<1> QED BY Zenon, <1>3, <1>4, <1>5, <1>8, <1>9

\* task_done has the right types.
LEMMA DoneType ==
  ASSUME TypeOK, NEW e \in Ents, NEW flags \in FlagSets, task_done(e, flags)
  PROVE  /\ tq_free_list' \in Seq(Ents) /\ tq_nalloc' \in Int /\ heap' \subseteq HeapEnts
         /\ tqent_id' \in [Ents -> Nat]
         /\ tqent_flags' \in FlagSets
<1>1. Append(tq_free_list, e) \in Seq(Ents) /\ INVALID \in Nat
  BY Zenon, AppendElements DEF TypeOK, INVALID
<1>2. /\ tqent_id \in [Ents -> Nat] /\ tq_nalloc \in Int /\ tq_free_list \in Seq(Ents)
      /\ heap \subseteq HeapEnts
  BY Zenon DEF TypeOK
<1>3. CASE tq_nalloc <= MinAlloc
  <2>1. /\ tqent_id' = [tqent_id EXCEPT ![e] = INVALID]
        /\ tqent_flags' = [flags EXCEPT ![e] = {}]
        /\ tq_free_list' = Append(tq_free_list, e)
        /\ UNCHANGED <<tq_nalloc, heap>>
    BY Zenon, <1>3 DEF task_done, pool
  <2> QED BY Zenon, <1>1, <1>2, <2>1 DEF FlagSets
<1>4. CASE ~(tq_nalloc <= MinAlloc)
  <2>1. /\ heap' = heap \ {e} /\ tq_nalloc' = tq_nalloc - 1 /\ tqent_flags' = flags
        /\ UNCHANGED <<tqent_id, tq_free_list>>
    BY Zenon, <1>4 DEF task_done
  <2> QED BY <1>2, <2>1
<1> QED BY Zenon, <1>3, <1>4

\* taskq_lowest_id returns an id.
LEMMA LowestType ==
  ASSUME TypeOK,
         NEW pend \in Seq(Ents), NEW prio \in Seq(Ents), NEW delay \in Seq(Ents),
         NEW active \in Seq(Threads), NEW n
  PROVE  NextLowest(n, pend, prio, delay, active) \in Nat
<1>1. \A L \in Seq(Ents), m \in Nat : HeadOr(L, tqent_id, m) \in Nat
  BY Zenon, HeadTailFacts DEF HeadOr, TypeOK
<1>2. tqt_id \in [Threads -> Nat]
  BY Zenon DEF tqt_id, TypeOK
<1>3. \A L \in Seq(Threads), m \in Nat : HeadOr(L, tqt_id, m) \in Nat
  BY Zenon, <1>2, HeadTailFacts DEF HeadOr
<1> QED BY Zenon, <1>1, <1>3 DEF NextLowest, taskq_lowest_id, TypeOK

\* The initial state has the right types.
LEMMA TypeInit == Init => TypeOK
<1> SUFFICES ASSUME Init PROVE TypeOK
  BY Zenon
<1>1. PICK n \in Nat : tq_free_list \in Injection(1 .. n, HeapEnts)
  BY Zenon, NatConstants DEF Init
<1>2. tq_free_list \in [1 .. n -> HeapEnts]
  BY Zenon, <1>1 DEF Injection, IsInjective
<1>3. tq_free_list \in Seq(Ents) /\ Len(tq_free_list) \in Nat
  BY <1>2 DEF Ents
<1>4. heap \subseteq HeapEnts
  BY Zenon, <1>2 DEF Init, Range
<1>5. /\ tq_next_id \in Nat /\ tq_lowest_id \in Nat /\ tq_nactive \in Int /\ tq_nalloc \in Int
      /\ tq_active \in BOOLEAN
  BY <1>3 DEF Init
<1>6. /\ tq_pend_list \in Seq(Ents) /\ tq_prio_list \in Seq(Ents)
      /\ tq_delay_list \in Seq(Ents) /\ tq_active_list \in Seq(Threads)
  BY DEF Init
<1>7. /\ tqent_id \in [Ents -> Nat]
      /\ tqent_flags \in [Ents -> SUBSET {"PREALLOC", "CANCEL"}]
      /\ timer \in [Ents -> {"off", "pending", "firing"}]
  BY Zenon DEF Init, INVALID
<1>8. tqt \in [Threads -> [pc : {"idle", "top", "run", "dead"}, id : Nat, ents : SUBSET Ents]]
  BY Zenon DEF Init, Resting, INVALID
<1>9. call \in [Procs -> CallTypes]
  BY Zenon, CallValues DEF Init
<1> QED BY Zenon, <1>3, <1>4, <1>5, <1>6, <1>7, <1>8, <1>9 DEF TypeOK, Init

TqtTypes == [pc : {"idle", "top", "run", "dead"}, id : Nat, ents : SUBSET Ents]

\* task_alloc, on both its ways out, has the right types.
LEMMA AllocType ==
  ASSUME TypeOK, NEW p \in Procs, NEW kind \in Kinds, NEW how \in AllHows,
         NEW count \in 0 .. MaxPolls, task_alloc(p, kind, how, count)
  PROVE  TypeOK'
<1>1. CASE tq_free_list # <<>>
  <2>1. /\ tq_free_list' = Tail(tq_free_list)
        /\ Enqueue(Head(tq_free_list), kind)
        /\ call' = [call EXCEPT ![p] = Idle]
        /\ UNCHANGED <<tq_active, tq_lowest_id, pool, tqent_flags, workers, cancelled>>
    BY Zenon, <1>1 DEF task_alloc
  <2>2. Head(tq_free_list) \in Ents /\ Tail(tq_free_list) \in Seq(Ents)
    BY Zenon, <1>1, HeadTailFacts DEF TypeOK
  <2>3. call' \in [Procs -> CallTypes]
    BY Zenon, <2>1, CallValues DEF TypeOK
  <2> QED BY Zenon, <2>1, <2>2, <2>3, EnqueueType DEF TypeOK, pool, workers
<1>2. CASE tq_free_list = <<>>
  <2>1. PICK c \in CallTypes : call' = [call EXCEPT ![p] = c]
    BY Zenon, <1>2, CallValues DEF task_alloc
  <2>2. UNCHANGED <<tq_active, lists, ids, pool, ents, workers, cancelled>>
    BY Zenon, <1>2 DEF task_alloc
  <2>3. call' \in [Procs -> CallTypes]
    BY Zenon, <2>1 DEF TypeOK
  <2> QED BY Zenon, <2>2, <2>3 DEF TypeOK, lists, ids, pool, ents, workers
<1> QED BY Zenon, <1>1, <1>2

\* taskq_find returns an entry of a list, with the id looked for.
LEMMA FindFacts ==
  ASSUME NEW n, NEW e \in FindPending(n)
  PROVE  e \in Queued /\ tqent_id[e] = n
<1>1. \A L : e \in taskq_find_list(L, n) => e \in Range(L) /\ tqent_id[e] = n
  BY Zenon DEF taskq_find_list, Range
<1> HIDE DEF taskq_find_list
<1> QED BY Zenon, <1>1 DEF FindPending, Queued, Pend, Prio, Delay

\* The elements of a list that TypeOK gives a type are of that type.
LEMMA SeqElements ==
  ASSUME NEW S, NEW L \in Seq(S)
  PROVE  Range(L) \subseteq S
BY LenFacts DEF Range

\* What the taskq's lists hold are its entries and its threads.
LEMMA ListedEnts ==
  ASSUME TypeOK
  PROVE  /\ Free \subseteq Ents /\ Queued \subseteq Ents
         /\ Range(tq_active_list) \subseteq Threads
BY Zenon, SeqElements DEF TypeOK, Free, Queued, Pend, Prio, Delay

\* A step that only gives one call a new value.
LEMMA CallType ==
  ASSUME TypeOK, NEW p \in Procs, NEW c \in CallTypes, call' = [call EXCEPT ![p] = c],
         UNCHANGED <<lists, ids, pool, ents, workers, cancelled>>, tq_active' \in BOOLEAN
  PROVE  TypeOK'
<1>1. call' \in [Procs -> CallTypes]
  BY Zenon DEF TypeOK
<1> QED BY Zenon, <1>1 DEF TypeOK, lists, ids, pool, ents, workers

\* The calls' first steps.
LEMMA TypeClient ==
  ASSUME TypeOK, NEW p \in Procs, ClientStep(p)
  PROVE  TypeOK'
<1>1. ASSUME NEW kind \in Kinds, NEW how \in Hows, Dispatch(p, kind, how) PROVE TypeOK'
  <2>1. how \in AllHows /\ 0 \in 0 .. MaxPolls
    BY UseConstants, NatConstants DEF AllHows
  <2> QED BY Zenon, <1>1, <2>1, AllocType DEF Dispatch
<1>2. ASSUME NEW e \in PreEnts, NEW kind \in {"pend", "front", "noqueue"},
             DispatchEnt(p, e, kind)
      PROVE  TypeOK'
  <2>0. e \in Ents
    BY Zenon DEF Ents
  <2>1. CASE tq_active
    <3>1. /\ tqent_flags' = [tqent_flags EXCEPT ![e] = @ \cup {"PREALLOC"}]
          /\ Enqueue(e, IF kind = "noqueue" THEN "pend" ELSE kind)
          /\ UNCHANGED <<tq_active, tq_lowest_id, tq_free_list, pool, workers, call, cancelled>>
      BY Zenon, <1>2, <2>1 DEF DispatchEnt
    <3>2. tqent_flags' \in [Ents -> SUBSET {"PREALLOC", "CANCEL"}]
      BY Zenon, <3>1, <2>0 DEF TypeOK
    <3> QED BY Zenon, <2>0, <3>1, <3>2, EnqueueType DEF TypeOK, pool, workers
  <2>2. CASE ~tq_active
    <3>1. /\ tqent_id' = [tqent_id EXCEPT ![e] = INVALID]
          /\ UNCHANGED <<tq_active, lists, ids, pool, tqent_flags, timer, workers, call, cancelled>>
      BY Zenon, <1>2, <2>2 DEF DispatchEnt
    <3>2. tqent_id' \in [Ents -> Nat]
      BY Zenon, <3>1, <2>0 DEF TypeOK, INVALID
    <3> QED BY Zenon, <3>1, <3>2 DEF TypeOK, lists, ids, pool, workers
  <2> QED BY Zenon, <2>1, <2>2
<1>3. ASSUME NEW n \in 1 .. MaxId, CancelPending(p, n) PROVE TypeOK'
  <2> DEFINE pend(e) == list_del(tq_pend_list, e)
             prio(e) == list_del(tq_prio_list, e)
             delay(e) == list_del(tq_delay_list, e)
             flags(e) == [tqent_flags EXCEPT ![e] = @ \cup {"CANCEL"}]
  <2>1. PICK e \in FindPending(n) :
           /\ tq_pend_list' = pend(e) /\ tq_prio_list' = prio(e) /\ tq_delay_list' = delay(e)
           /\ tq_lowest_id' = NextLowest(n, pend(e), prio(e), delay(e), tq_active_list)
           /\ cancelled' = cancelled \cup {n}
           /\ \/ /\ call' = [call EXCEPT ![p] = [pc |-> "sync", ent |-> e]]
                 /\ tqent_flags' = flags(e)
                 /\ UNCHANGED <<tqent_id, tq_free_list, pool>>
              \/ /\ IF "PREALLOC" \in flags(e)[e]
                    THEN tqent_flags' = flags(e) /\ UNCHANGED <<tqent_id, tq_free_list, pool>>
                    ELSE task_done(e, flags(e))
                 /\ UNCHANGED call
    BY Zenon, <1>3 DEF CancelPending
  <2>2. UNCHANGED <<tq_active, tq_next_id, timer, workers>>
    BY Zenon, <1>3 DEF CancelPending
  <2>3. e \in Ents
    BY Zenon, FindFacts, ListedEnts
  <2>4. pend(e) \in Seq(Ents) /\ prio(e) \in Seq(Ents) /\ delay(e) \in Seq(Ents)
    BY Zenon, DelInSeq DEF TypeOK
  <2>5. flags(e) \in FlagSets
    BY Zenon, <2>3 DEF TypeOK, FlagSets
  <2> HIDE DEF pend, prio, delay, flags
  <2>6. tq_lowest_id' \in Nat
    BY Zenon, <2>1, <2>4, LowestType DEF TypeOK
  <2>7. call' \in [Procs -> CallTypes]
    BY ZenonT(60), <2>1, <2>3, CallValues DEF TypeOK
  <2>8. /\ tq_free_list' \in Seq(Ents) /\ tq_nalloc' \in Int /\ heap' \subseteq HeapEnts
        /\ tqent_id' \in [Ents -> Nat] /\ tqent_flags' \in FlagSets
    <3>1. CASE task_done(e, flags(e))
      BY Zenon, <2>3, <2>5, <3>1, DoneType
    <3>2. CASE tqent_flags' = flags(e) /\ UNCHANGED <<tqent_id, tq_free_list, pool>>
      BY Zenon, <2>5, <3>2 DEF TypeOK, pool
    <3> QED BY Zenon, <2>1, <3>1, <3>2
  <2>9. cancelled' \subseteq Nat
    <3>1. n \in Nat /\ cancelled' = cancelled \cup {n} /\ cancelled \subseteq Nat
      BY <2>1, NatConstants DEF TypeOK
    <3> QED BY Zenon, <3>1
  <2> QED BY Zenon, <2>1, <2>2, <2>4, <2>6, <2>7, <2>8, <2>9 DEF TypeOK, workers, FlagSets
<1>4. ASSUME NEW n \in 1 .. MaxId, CancelBusy(p, n) PROVE TypeOK'
  <2>1. Waiting("id", n) \in CallTypes
    BY CallValues DEF Waits
  <2> QED BY Zenon, <1>4, <2>1, CallType DEF CancelBusy, TypeOK
<1>5. ASSUME NEW on \in Waits, NEW n \in 0 .. MaxId, taskq_wait(p, on, n) PROVE TypeOK'
  <2> DEFINE id == IF on = "outstanding" /\ n = 0 THEN tq_next_id - 1 ELSE n
  <2>1. id \in Nat
    BY <1>5 DEF taskq_wait, TypeOK
  <2>2. /\ call' = [call EXCEPT ![p] = Waiting(on, id)]
        /\ UNCHANGED <<tq_active, lists, ids, pool, ents, workers, cancelled>>
    BY Zenon, <1>5 DEF taskq_wait
  <2> HIDE DEF id
  <2>3. Waiting(on, id) \in CallTypes
    BY Zenon, <2>1, CallValues
  <2> QED BY Zenon, <2>2, <2>3, CallType DEF TypeOK
<1>6. ASSUME DestroyBegins(p) PROVE TypeOK'
  <2>1. Waiting("destroy", 0) \in CallTypes
    BY Zenon, CallValues
  <2> QED BY Zenon, <1>6, <2>1, CallType DEF DestroyBegins
<1> QED BY Zenon, <1>1, <1>2, <1>3, <1>4, <1>5, <1>6 DEF ClientStep

\* The rest of the calls.
LEMMA TypeCall ==
  ASSUME TypeOK, NEW p \in Procs, CallStep(p)
  PROVE  TypeOK'
<1>0. call[p] \in CallTypes
  BY Zenon DEF TypeOK
<1>1. CASE PollAlloc(p)
  <2>1. call[p].kind \in Kinds /\ call[p].how \in AllHows /\ call[p].count \in 0 .. MaxPolls
    BY ZenonT(60), <1>0, <1>1, CallShape DEF PollAlloc
  <2>2. CASE call[p].count < MaxPolls
    <3>1. call[p].count + 1 \in 0 .. MaxPolls
      BY SMTT(60), <2>1, <2>2, NatConstants
    <3>2. task_alloc(p, call[p].kind, call[p].how, call[p].count + 1)
      BY <1>1, <2>1, <2>2, NatConstants DEF PollAlloc
    <3> QED BY Zenon, <2>1, <3>1, <3>2, AllocType
  <2>3. CASE ~(call[p].count < MaxPolls)
    <3>1. [pc |-> "alloc", kind |-> call[p].kind, how |-> call[p].how] \in CallTypes
      BY Zenon, <2>1, CallValues
    <3> QED BY Zenon, <1>1, <2>3, <3>1, CallType DEF PollAlloc, TypeOK
  <2> QED BY Zenon, <2>2, <2>3
<1>2. CASE AllocReturns(p)
  <2>1. call' \in [Procs -> CallTypes]
    BY Zenon, <1>2, CallValues DEF AllocReturns, TypeOK
  <2>2. ASSUME NEW e \in HeapEnts \ heap,
               /\ heap' = heap \cup {e}
               /\ tq_nalloc' = tq_nalloc + 1
               /\ tqent_flags' = [tqent_flags EXCEPT ![e] = {}]
               /\ Enqueue(e, call[p].kind)
               /\ UNCHANGED <<tq_active, tq_lowest_id, tq_free_list, workers, cancelled>>
        PROVE  TypeOK'
    <3>1. e \in Ents
      BY Zenon DEF Ents
    <3>2. tqent_flags' \in [Ents -> SUBSET {"PREALLOC", "CANCEL"}]
      BY Zenon, <2>2, <3>1 DEF TypeOK
    <3>3. tq_nalloc' \in Int /\ heap' \subseteq HeapEnts
      BY SMTT(60), <2>2 DEF TypeOK
    <3> QED BY Zenon, <2>1, <2>2, <3>1, <3>2, <3>3, EnqueueType DEF TypeOK, workers
  <2>3. CASE UNCHANGED <<tq_active, lists, ids, pool, ents, workers, cancelled>>
    BY Zenon, <2>1, <2>3 DEF TypeOK, lists, ids, pool, ents, workers
  <2> QED BY Zenon, <1>2, <2>2, <2>3 DEF AllocReturns
<1>3. CASE CancelSynced(p)
  <2>1. call[p].ent \in Ents
    BY Zenon, <1>0, <1>3, CallShape DEF CancelSynced
  <2>2. call' \in [Procs -> CallTypes]
    BY Zenon, <1>3, CallValues DEF CancelSynced, TypeOK
  <2>3. timer' \in [Ents -> {"off", "pending", "firing"}]
    BY Zenon, <1>3, <2>1 DEF CancelSynced, TypeOK
  <2>4. /\ task_done(call[p].ent, tqent_flags)
        /\ UNCHANGED <<tq_active, tq_pend_list, tq_prio_list, tq_delay_list, ids, workers,
                       cancelled>>
    BY Zenon, <1>3 DEF CancelSynced
  <2>5. tqent_flags \in FlagSets
    BY Zenon DEF TypeOK, FlagSets
  <2> QED BY Zenon, <2>1, <2>2, <2>3, <2>4, <2>5, DoneType DEF TypeOK, ids, workers, FlagSets
<1>4. CASE WaitReturns(p)
  BY Zenon, <1>4, CallValues, CallType DEF WaitReturns, TypeOK
<1>5. CASE WaitSleeps(p)
  <2>1. [call[p] EXCEPT !.asleep = TRUE] \in CallTypes
    BY Zenon, <1>0, <1>5, CallShape DEF WaitSleeps
  <2>2. call' = [call EXCEPT ![p] = [call[p] EXCEPT !.asleep = TRUE]]
    BY Zenon, <1>5 DEF WaitSleeps
  <2> QED BY Zenon, <1>5, <2>1, <2>2, CallType DEF WaitSleeps, TypeOK
<1>6. CASE StopThread(p)
  BY Zenon, <1>6 DEF StopThread, TypeOK, lists, ids, pool, ents
<1>7. CASE DestroyEnds(p)
  <2>1. call' \in [Procs -> CallTypes]
    BY Zenon, <1>7, CallValues DEF DestroyEnds, TypeOK
  <2>2. tq_nalloc' \in Int /\ heap' \subseteq HeapEnts /\ tq_free_list' \in Seq(Ents)
    BY <1>7, LenFacts DEF DestroyEnds, TypeOK
  <2>3. UNCHANGED <<tq_active, tq_pend_list, tq_prio_list, tq_delay_list, ids, ents, workers,
                    cancelled>>
    BY Zenon, <1>7 DEF DestroyEnds
  <2> QED BY Zenon, <2>1, <2>2, <2>3 DEF TypeOK, ids, ents, workers
<1> QED BY Zenon, <1>1, <1>2, <1>3, <1>4, <1>5, <1>6, <1>7 DEF CallStep

\* What the workers do.
LEMMA TypeWorker ==
  ASSUME TypeOK, NEW t \in Threads, WorkerStep(t)
  PROVE  TypeOK'
<1>0. tqt \in [Threads -> TqtTypes]
  BY Zenon DEF TypeOK, TqtTypes
<1>1. CASE TakeTask(t)
  <2> DEFINE r(e) == [pc |-> "run", id |-> tqent_id[e],
                      ents |-> IF "PREALLOC" \in tqent_flags[e] THEN {} ELSE {e}]
             f(e) == [tqt_id EXCEPT ![t] = tqent_id[e]]
  <2>1. PICK e \in taskq_next_ent :
           /\ tq_prio_list' = list_del(tq_prio_list, e)
           /\ tq_pend_list' = list_del(tq_pend_list, e)
           /\ tqt' = [tqt EXCEPT ![t] = r(e)]
           /\ tq_active_list' = InsertById(tq_active_list, t, f(e))
    BY ZenonT(60), <1>1 DEF TakeTask
  <2>2. /\ tq_nactive' = tq_nactive + 1 /\ tq_lock' = Nobody
        /\ UNCHANGED <<tq_active, tq_free_list, tq_delay_list, ids, pool, ents, call, stopping,
                       cancelled>>
    BY Zenon, <1>1 DEF TakeTask
  <2>3. e \in Ents
    BY SMTT(60), HeadTailFacts DEF taskq_next_ent, TypeOK
  <2>4. r(e) \in TqtTypes
    BY Zenon, <2>3 DEF TypeOK, TqtTypes
  <2> HIDE DEF r, f
  <2>5. tqt' \in [Threads -> TqtTypes]
    BY Zenon, <1>0, <2>1, <2>4
  <2>6. /\ tq_prio_list' \in Seq(Ents) /\ tq_pend_list' \in Seq(Ents)
        /\ tq_active_list' \in Seq(Threads)
    BY Zenon, <2>1, DelInSeq, InsertInSeq DEF TypeOK
  <2>7. tq_nactive' \in Int
    BY <2>2 DEF TypeOK
  <2> QED BY Zenon, <2>2, <2>5, <2>6, <2>7 DEF TypeOK, ids, pool, ents, TqtTypes
<1>2. CASE FinishTask(t)
  <2>1. /\ tq_nactive' \in Int /\ tq_active_list' \in Seq(Threads)
        /\ tq_lock' \in Threads \cup {Nobody}
    BY SMTT(60), <1>2, DelInSeq DEF FinishTask, TypeOK
  <2>2. tqt' \in [Threads -> TqtTypes]
    <3>1. [Resting EXCEPT !.pc = "top"] \in TqtTypes
      BY Zenon DEF Resting, TqtTypes, INVALID
    <3> QED BY Zenon, <1>0, <1>2, <3>1 DEF FinishTask
  <2>3. call' \in [Procs -> CallTypes]
    <3>1. ASSUME NEW p \in Procs
          PROVE  (IF call[p].pc = "wait" THEN [call[p] EXCEPT !.asleep = FALSE]
                                         ELSE call[p]) \in CallTypes
      BY Zenon, CallShape DEF TypeOK
    <3> QED BY Zenon, <1>2, <3>1 DEF FinishTask, WakeWaiters
  <2>4. tq_lowest_id' \in Nat
    BY Zenon, <1>2, LowestType, DelInSeq DEF FinishTask, TypeOK
  <2>5. /\ tq_free_list' \in Seq(Ents) /\ tq_nalloc' \in Int /\ heap' \subseteq HeapEnts
        /\ tqent_id' \in [Ents -> Nat] /\ tqent_flags' \in FlagSets
    <3>1. CASE UNCHANGED <<tqent_id, tqent_flags, tq_free_list, pool>>
      BY Zenon, <3>1 DEF TypeOK, pool, FlagSets
    <3>2. ASSUME NEW e \in tqt[t].ents, task_done(e, tqent_flags)
          PROVE  /\ tq_free_list' \in Seq(Ents) /\ tq_nalloc' \in Int
                 /\ heap' \subseteq HeapEnts
                 /\ tqent_id' \in [Ents -> Nat] /\ tqent_flags' \in FlagSets
      <4>1. e \in Ents /\ tqent_flags \in FlagSets
        BY Zenon, <1>0 DEF TqtTypes, TypeOK, FlagSets
      <4> QED BY Zenon, <3>2, <4>1, DoneType
    <3> QED BY Zenon, <1>2, <3>1, <3>2 DEF FinishTask
  <2>6. UNCHANGED <<tq_active, tq_next_id, tq_pend_list, tq_prio_list, tq_delay_list, timer,
                    stopping, cancelled>>
    BY Zenon, <1>2 DEF FinishTask
  <2> QED BY Zenon, <2>1, <2>2, <2>3, <2>4, <2>5, <2>6 DEF TypeOK, FlagSets, TqtTypes
<1>3. ASSUME NEW r \in TqtTypes, tqt' = [tqt EXCEPT ![t] = r], tq_lock' = Nobody,
             UNCHANGED <<tq_active, lists, ids, pool, ents, call, cancelled, tq_nactive,
                         tq_active_list, stopping>>
      PROVE  TypeOK'
  <2>1. tqt' \in [Threads -> TqtTypes]
    BY Zenon, <1>0, <1>3
  <2> QED BY Zenon, <1>3, <2>1 DEF TypeOK, lists, ids, pool, ents, TqtTypes
<1>4. Resting \in TqtTypes /\ [Resting EXCEPT !.pc = "dead"] \in TqtTypes
  BY Zenon DEF Resting, TqtTypes, INVALID
<1> QED BY Zenon, <1>1, <1>2, <1>3, <1>4 DEF WorkerStep, Sleep, Stop

\* What the timers do.
LEMMA TypeTimer ==
  ASSUME TypeOK, NEW e \in HeapEnts, TimerStep(e)
  PROVE  TypeOK'
<1>0. e \in Ents
  BY Zenon DEF Ents
<1>1. timer' \in [Ents -> {"off", "pending", "firing"}]
  BY ZenonT(60), <1>0 DEF TimerStep, TimerFires, task_expire, TypeOK
<1>2. /\ tq_free_list' \in Seq(Ents) /\ tq_pend_list' \in Seq(Ents)
      /\ tq_prio_list' \in Seq(Ents) /\ tq_delay_list' \in Seq(Ents)
  BY SMTT(60), <1>0, DelInSeq, InsertInSeq DEF TimerStep, TimerFires, task_expire, TypeOK, lists
<1>3. UNCHANGED <<tq_active, ids, pool, tqent_id, tqent_flags, workers, call, cancelled>>
  BY Zenon DEF TimerStep, TimerFires, task_expire
<1> QED BY Zenon, <1>1, <1>2, <1>3 DEF TypeOK, ids, pool, workers

\* Type correctness: the fields of the taskq, of its entries and of the calls
\* in progress keep their types whatever the clients, the tasks and the timers do.
THEOREM TypeCorrect == Spec => []TypeOK
<1>1. TypeOK /\ [Next]_vars => TypeOK'
  <2>1. CASE UNCHANGED vars
    BY Zenon, <2>1 DEF TypeOK, vars, lists, ids, pool, ents, workers
  <2> QED BY Zenon, <2>1, TypeClient, TypeCall, TypeWorker, TypeTimer DEF Next
<1> QED BY <1>1, TypeInit, PTL DEF Spec

=============================================================================
