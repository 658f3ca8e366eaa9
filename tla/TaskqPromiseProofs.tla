------------------------- MODULE TaskqPromiseProofs -------------------------
(***************************************************************************)
(* Taskq implements TaskqPromise.  A step of Taskq does one of five things *)
(* to the tasks; each is a step of the promise or leaves it alone.         *)
(***************************************************************************)
EXTENDS TaskqProofs

Active == Range(tq_active_list)
IdsKept == \A d \in Queued \cap Queued' : tqent_id'[d] = tqent_id[d]
RunsKept == \A t \in Active \cap Active' : tqt'[t].id = tqt[t].id
Kept == IdsKept /\ RunsKept

\* What a step may do to the tasks: nothing, or one is dispatched, taken by a
\* worker, finished or cancelled.
Quiet == Kept /\ UNCHANGED <<Queued, Active, tq_next_id, cancelled>>
Born(e) ==
    /\ Kept /\ e \notin Queued /\ Queued' = Queued \cup {e} /\ tqent_id'[e] = tq_next_id
    /\ tq_next_id' = tq_next_id + 1 /\ UNCHANGED <<Active, cancelled>>
Taken(e, t) ==
    /\ Kept /\ e \in Queued /\ Queued' = Queued \ {e}
    /\ t \notin Active /\ Active' = Active \cup {t} /\ tqt'[t].id = tqent_id[e]
    /\ UNCHANGED <<tq_next_id, cancelled>>
Ended(t) ==
    /\ Kept /\ t \in Active /\ Active' = Active \ {t}
    /\ UNCHANGED <<Queued, tq_next_id, cancelled>>
Dropped(e) ==
    /\ Kept /\ e \in Queued /\ Queued' = Queued \ {e}
    /\ cancelled' = cancelled \cup {tqent_id[e]} /\ UNCHANGED <<Active, tq_next_id>>

-----------------------------------------------------------------------------
(* The ids.                                                                *)

\* The ids in use, by the entries and the workers that carry them.
LEMMA IdFacts ==
  ASSUME IInv
  PROVE  /\ PendingIds = {tqent_id[e] : e \in Queued}
         /\ ActiveIds = {tqt[t].id : t \in Active}
         /\ Queued \subseteq Ents /\ Active \subseteq Threads
         /\ tq_next_id \in Nat /\ tq_lowest_id \in Nat /\ cancelled \subseteq Nat
         /\ \A e \in Queued : /\ tqent_id[e] \in Nat /\ tqent_id[e] < tq_next_id
                              /\ tq_lowest_id <= tqent_id[e]
         /\ \A t \in Active : /\ tqt[t].id \in Nat /\ tqt[t].id < tq_next_id
                              /\ tq_lowest_id <= tqt[t].id
<1>0. TypeOK /\ OrderInv
  BY Zenon DEF IInv
<1>1. Queued \subseteq Ents /\ Active \subseteq Threads
  BY Zenon, <1>0, ListedEnts DEF Active
<1>2. /\ tqent_id \in [Ents -> Nat] /\ tqt \in [Threads -> TqtTypes]
      /\ tq_next_id \in Nat /\ tq_lowest_id \in Nat /\ cancelled \subseteq Nat
  BY Zenon, <1>0 DEF TypeOK, TqtTypes
<1>3. \A t \in Threads : tqt[t].id \in Nat
  BY Zenon, <1>2 DEF TqtTypes
<1>4. PendingIds = {tqent_id[e] : e \in Queued} /\ ActiveIds = {tqt[t].id : t \in Active}
  BY Zenon DEF PendingIds, ActiveIds, Queued, Pend, Prio, Delay, Active
<1>5. /\ \A e \in Queued : tq_lowest_id <= tqent_id[e] /\ tqent_id[e] < tq_next_id
      /\ \A t \in Active : tq_lowest_id <= tqt[t].id /\ tqt[t].id < tq_next_id
  BY Zenon, <1>0 DEF OrderInv, Active
<1> QED BY Zenon, <1>1, <1>2, <1>3, <1>4, <1>5

\* UniqInv in terms of the entries and the workers.
Uniq ==
    /\ \A d, e \in Queued : tqent_id[d] = tqent_id[e] => d = e
    /\ \A t, u \in Active : tqt[t].id = tqt[u].id => t = u
    /\ \A e \in Queued, t \in Active : tqent_id[e] # tqt[t].id
    /\ \A n \in cancelled : /\ n < tq_next_id
                            /\ \A e \in Queued : tqent_id[e] # n
                            /\ \A t \in Active : tqt[t].id # n

\* The two forms say the same.
LEMMA UniqForm ==
  ASSUME IInv
  PROVE  UniqInv <=> Uniq
<1>1. PendingIds = {tqent_id[e] : e \in Queued} /\ ActiveIds = {tqt[t].id : t \in Active}
  BY Zenon, IdFacts
<1>2. PendingIds \cap ActiveIds = {} <=> \A e \in Queued, t \in Active : tqent_id[e] # tqt[t].id
  BY Zenon, <1>1
<1>3. cancelled \cap Outstanding = {} <=>
        \A n \in cancelled : /\ \A e \in Queued : tqent_id[e] # n
                             /\ \A t \in Active : tqt[t].id # n
  BY Zenon, <1>1 DEF Outstanding
<1> QED BY Zenon, <1>2, <1>3 DEF UniqInv, Uniq, Active

\* Each of the five keeps the ids apart: a dispatched task has the next id,
\* which nobody has, and an id leaves a list when it goes to the active list or
\* among the cancelled.
LEMMA UniqStep ==
  ASSUME IInv, Uniq,
         \/ Quiet
         \/ \E e \in Ents : Born(e) \/ Dropped(e)
         \/ \E t \in Threads : Ended(t)
         \/ \E e \in Ents, t \in Threads : Taken(e, t)
  PROVE  Uniq'
<1>1. /\ tq_next_id \in Nat /\ cancelled \subseteq Nat
      /\ \A e \in Queued : tqent_id[e] \in Nat /\ tqent_id[e] < tq_next_id
      /\ \A t \in Active : tqt[t].id \in Nat /\ tqt[t].id < tq_next_id
  BY Zenon, IdFacts
<1>2. /\ \A d, e \in Queued : tqent_id[d] = tqent_id[e] => d = e
      /\ \A t, u \in Active : tqt[t].id = tqt[u].id => t = u
      /\ \A e \in Queued, t \in Active : tqent_id[e] # tqt[t].id
      /\ \A n \in cancelled : n < tq_next_id
      /\ \A n \in cancelled, e \in Queued : tqent_id[e] # n
      /\ \A n \in cancelled, t \in Active : tqt[t].id # n
  BY Zenon DEF Uniq
<1>3. CASE Quiet
  <2>1. /\ \A e \in Queued : tqent_id'[e] = tqent_id[e]
        /\ \A t \in Active : tqt'[t].id = tqt[t].id
        /\ UNCHANGED <<Queued, Active, tq_next_id, cancelled>>
    BY Zenon, <1>3 DEF Quiet, Kept, IdsKept, RunsKept
  <2> QED BY SMTT(60), <1>2, <2>1 DEF Uniq
<1>4. ASSUME NEW e \in Ents, Born(e) PROVE Uniq'
  <2>1. /\ \A d \in Queued : tqent_id'[d] = tqent_id[d]
        /\ \A t \in Active : tqt'[t].id = tqt[t].id
        /\ e \notin Queued /\ Queued' = Queued \cup {e} /\ tqent_id'[e] = tq_next_id
        /\ tq_next_id' = tq_next_id + 1 /\ UNCHANGED <<Active, cancelled>>
    BY Zenon, <1>4 DEF Born, Kept, IdsKept, RunsKept
  <2>2. /\ \A d \in Queued : tqent_id[d] # tq_next_id
        /\ \A t \in Active : tqt[t].id # tq_next_id
        /\ \A n \in cancelled : n # tq_next_id /\ n < tq_next_id + 1
    <3>1. \A n \in Nat : n < tq_next_id => n # tq_next_id /\ n < tq_next_id + 1
      BY <1>1
    <3>2. \A n \in cancelled : n \in Nat /\ n < tq_next_id
      BY Zenon, <1>1, <1>2
    <3> QED BY Zenon, <1>1, <3>1, <3>2
  <2>3. \A c, d \in Queued' : tqent_id'[c] = tqent_id'[d] => c = d
    BY SMTT(60), <1>2, <2>1, <2>2
  <2>4. \A d \in Queued', t \in Active' : tqent_id'[d] # tqt'[t].id
    BY SMTT(60), <1>2, <2>1, <2>2
  <2>5. \A n \in cancelled' : /\ n < tq_next_id'
                              /\ \A d \in Queued' : tqent_id'[d] # n
                              /\ \A t \in Active' : tqt'[t].id # n
    BY ZenonT(60), <1>2, <2>1, <2>2
  <2> QED BY SMTT(60), <1>2, <2>1, <2>3, <2>4, <2>5 DEF Uniq
<1>5. ASSUME NEW e \in Ents, Dropped(e) PROVE Uniq'
  <2>1. /\ \A d \in Queued' : d \in Queued /\ d # e /\ tqent_id'[d] = tqent_id[d]
        /\ \A t \in Active : tqt'[t].id = tqt[t].id
        /\ e \in Queued /\ cancelled' = cancelled \cup {tqent_id[e]}
        /\ UNCHANGED <<Active, tq_next_id>>
    BY Zenon, <1>5 DEF Dropped, Kept, IdsKept, RunsKept
  <2>2. \A n \in cancelled' : /\ n < tq_next_id'
                              /\ \A d \in Queued' : tqent_id'[d] # n
                              /\ \A t \in Active' : tqt'[t].id # n
    <3> SUFFICES ASSUME NEW n \in cancelled'
                 PROVE  /\ n < tq_next_id'
                        /\ \A d \in Queued' : tqent_id'[d] # n
                        /\ \A t \in Active' : tqt'[t].id # n
      BY Zenon
    <3>1. CASE n \in cancelled
      BY Zenon, <1>2, <2>1, <3>1
    <3>2. CASE n = tqent_id[e]
      BY Zenon, <1>1, <1>2, <2>1, <3>2
    <3> QED BY Zenon, <2>1, <3>1, <3>2
  <2> QED BY SMTT(60), <1>2, <2>1, <2>2 DEF Uniq
<1>6. ASSUME NEW t \in Threads, Ended(t) PROVE Uniq'
  <2>1. /\ \A e \in Queued : tqent_id'[e] = tqent_id[e]
        /\ \A u \in Active' : u \in Active /\ tqt'[u].id = tqt[u].id
        /\ UNCHANGED <<Queued, tq_next_id, cancelled>>
    BY Zenon, <1>6 DEF Ended, Kept, IdsKept, RunsKept
  <2> QED BY SMTT(60), <1>2, <2>1 DEF Uniq
<1>7. ASSUME NEW e \in Ents, NEW t \in Threads, Taken(e, t) PROVE Uniq'
  <2>1. /\ \A d \in Queued' : d \in Queued /\ d # e /\ tqent_id'[d] = tqent_id[d]
        /\ \A u \in Active : tqt'[u].id = tqt[u].id
        /\ e \in Queued /\ t \notin Active /\ Active' = Active \cup {t}
        /\ tqt'[t].id = tqent_id[e] /\ UNCHANGED <<tq_next_id, cancelled>>
    BY Zenon, <1>7 DEF Taken, Kept, IdsKept, RunsKept
  <2>2. \A u, v \in Active' : tqt'[u].id = tqt'[v].id => u = v
    BY SMTT(60), <1>2, <2>1
  <2>3. \A d \in Queued', u \in Active' : tqent_id'[d] # tqt'[u].id
    BY <1>2, <2>1
  <2>4. \A n \in cancelled' : /\ n < tq_next_id'
                              /\ \A d \in Queued' : tqent_id'[d] # n
                              /\ \A u \in Active' : tqt'[u].id # n
    BY <1>2, <2>1
  <2> QED BY SMTT(60), <1>2, <2>1, <2>2, <2>3, <2>4 DEF Uniq
<1> QED BY Zenon, <1>3, <1>4, <1>5, <1>6, <1>7

-----------------------------------------------------------------------------
(* The tasks in the promise.                                               *)

\* A step of the promise, or none.
PromiseStep == Promise!Next \/ UNCHANGED <<status, waiting>>

\* The state of the task with one id, by the entry or worker that carries it.
StateOf(n) ==
    IF n >= tq_next_id THEN "unborn"
    ELSE IF \E e \in Queued : tqent_id[e] = n THEN "queued"
    ELSE IF \E t \in Active : tqt[t].id = n THEN "running"
    ELSE IF n \in cancelled THEN "cancelled" ELSE "done"

\* The status of an id is that state, before and after a step.
LEMMA StatusOf ==
  ASSUME NEW n \in 1 .. MaxId
  PROVE  status[n] = StateOf(n) /\ status'[n] = StateOf(n)'
<1>1. PendingIds = {tqent_id[e] : e \in Queued} /\ ActiveIds = {tqt[t].id : t \in Active}
  BY Zenon DEF PendingIds, ActiveIds, Queued, Pend, Prio, Delay, Active
<1>2. /\ PendingIds' = {tqent_id'[e] : e \in Queued'}
      /\ ActiveIds' = {tqt'[t].id : t \in Active'}
  BY Zenon DEF PendingIds, ActiveIds, Queued, Pend, Prio, Delay, Active
<1>3. /\ n \in PendingIds <=> \E e \in Queued : tqent_id[e] = n
      /\ n \in ActiveIds <=> \E t \in Active : tqt[t].id = n
  BY Zenon, <1>1
<1>4. /\ n \in PendingIds' <=> \E e \in Queued' : tqent_id'[e] = n
      /\ n \in ActiveIds' <=> \E t \in Active' : tqt'[t].id = n
  BY Zenon, <1>2
<1>5. status[n] = IF n >= tq_next_id THEN "unborn"
                  ELSE IF n \in PendingIds THEN "queued"
                  ELSE IF n \in ActiveIds THEN "running"
                  ELSE IF n \in cancelled THEN "cancelled" ELSE "done"
  BY Zenon DEF status
<1>6. status'[n] = IF n >= tq_next_id' THEN "unborn"
                   ELSE IF n \in PendingIds' THEN "queued"
                   ELSE IF n \in ActiveIds' THEN "running"
                   ELSE IF n \in cancelled' THEN "cancelled" ELSE "done"
  BY Zenon DEF status
<1> QED BY Zenon, <1>3, <1>4, <1>5, <1>6 DEF StateOf

\* A step that changes the state of at most one task.
LEMMA Moved ==
  ASSUME NEW n, NEW from, NEW to,
         \A m \in 1 .. MaxId : m # n => status'[m] = status[m],
         n \in 1 .. MaxId => status[n] = from /\ status'[n] = to
  PROVE  /\ n \in 1 .. MaxId /\ UNCHANGED waiting => Promise!Move(n, from, to)
         /\ n \notin 1 .. MaxId => UNCHANGED status
<1> DEFINE S == 1 .. MaxId
<1>1. status = [m \in S |-> status[m]]
  BY Zenon DEF status
<1>2. status' = [m \in S |-> status'[m]]
  BY Zenon DEF status
<1>3. ASSUME n \in S PROVE status' = [status EXCEPT ![n] = to]
  <2>1. \A m \in S : status'[m] = [status EXCEPT ![n] = to][m]
    BY Zenon, <1>1, <1>3
  <2> QED BY Zenon, <1>1, <1>2, <1>3, <2>1
<1>4. ASSUME n \notin S PROVE status' = status
  BY Zenon, <1>1, <1>2, <1>4
<1> HIDE DEF S
<1> QED BY Zenon, <1>3, <1>4 DEF Promise!Move, S

\* A quiet step leaves the state of every task alone.
LEMMA QuietStatus ==
  ASSUME Quiet
  PROVE  UNCHANGED status
<1>1. /\ \A e \in Queued : tqent_id'[e] = tqent_id[e]
      /\ \A t \in Active : tqt'[t].id = tqt[t].id
      /\ UNCHANGED <<Queued, Active, tq_next_id, cancelled>>
  BY Zenon DEF Quiet, Kept, IdsKept, RunsKept
<1>2. \A n \in 1 .. MaxId : StateOf(n)' = StateOf(n)
  BY Zenon, <1>1 DEF StateOf
<1>3. \A n \in 1 .. MaxId : status'[n] = status[n]
  BY Zenon, <1>2, StatusOf
<1>4. 0 \notin 1 .. MaxId
  BY NatConstants
<1> QED BY Zenon, <1>3, <1>4, Moved

\* A dispatch is one of the promise: the new task has the first id not yet
\* given out.
LEMMA BornStep ==
  ASSUME IInv, NEW e \in Ents, Born(e), UNCHANGED waiting
  PROVE  PromiseStep
<1>0. PICK n : n = tq_next_id
  BY Zenon
<1>1. /\ \A d \in Queued : tqent_id'[d] = tqent_id[d]
      /\ \A t \in Active : tqt'[t].id = tqt[t].id
      /\ e \notin Queued /\ Queued' = Queued \cup {e} /\ tqent_id'[e] = n
      /\ tq_next_id' = n + 1 /\ UNCHANGED <<Active, cancelled>>
  BY Zenon, <1>0 DEF Born, Kept, IdsKept, RunsKept
<1>2. n \in Nat /\ MaxId \in Nat /\ n >= n /\ ~(n >= n + 1)
  BY SMTT(60), <1>0, IdFacts, NatConstants
<1>3. ASSUME NEW m \in 1 .. MaxId, m # n PROVE status'[m] = status[m]
  <2>1. (m >= n) <=> (m >= n + 1)
    BY SMTT(60), <1>2, <1>3
  <2>2. (\E d \in Queued' : tqent_id'[d] = m) <=> (\E d \in Queued : tqent_id[d] = m)
    BY Zenon, <1>1, <1>3
  <2>3. (\E t \in Active' : tqt'[t].id = m) <=> (\E t \in Active : tqt[t].id = m)
    BY Zenon, <1>1
  <2>4. StateOf(m)' = StateOf(m)
    BY Zenon, <1>0, <1>1, <2>1, <2>2, <2>3 DEF StateOf
  <2> QED BY Zenon, <2>4, StatusOf
<1>4. ASSUME n \in 1 .. MaxId PROVE status[n] = "unborn" /\ status'[n] = "queued"
  <2>1. StateOf(n) = "unborn"
    BY Zenon, <1>0, <1>2 DEF StateOf
  <2>2. StateOf(n)' = "queued"
    BY Zenon, <1>1, <1>2 DEF StateOf
  <2> QED BY Zenon, <1>4, <2>1, <2>2, StatusOf
<1>5. ASSUME NEW m \in 1 .. n - 1, n \in 1 .. MaxId PROVE status[m] # "unborn"
  <2>1. m \in 1 .. MaxId /\ ~(m >= n)
    BY <1>2, <1>5
  <2> QED BY Zenon, <1>0, <2>1, StatusOf DEF StateOf
<1>6. /\ n \in 1 .. MaxId => Promise!Move(n, "unborn", "queued")
      /\ n \notin 1 .. MaxId => UNCHANGED status
  BY Zenon, <1>3, <1>4, Moved
<1> QED BY Zenon, <1>5, <1>6 DEF PromiseStep, Promise!Next, Promise!Dispatch

\* So is a worker's taking of a task.
LEMMA TakenStep ==
  ASSUME IInv, Uniq, NEW e \in Ents, NEW t \in Threads, Taken(e, t), UNCHANGED waiting
  PROVE  PromiseStep
<1>0. PICK n : n = tqent_id[e]
  BY Zenon
<1>1. /\ \A d \in Queued' : tqent_id'[d] = tqent_id[d]
      /\ \A u \in Active : tqt'[u].id = tqt[u].id
      /\ e \in Queued /\ Queued' = Queued \ {e}
      /\ Active' = Active \cup {t} /\ tqt'[t].id = n /\ UNCHANGED <<tq_next_id, cancelled>>
  BY Zenon, <1>0 DEF Taken, Kept, IdsKept, RunsKept
<1>2. n \in Nat /\ n < tq_next_id /\ tq_next_id \in Nat /\ ~(n >= tq_next_id)
  BY SMTT(60), <1>0, <1>1, IdFacts
<1>3. \A d \in Queued' : tqent_id'[d] # n
  BY SMTT(60), <1>0, <1>1 DEF Uniq
<1>4. ASSUME NEW m \in 1 .. MaxId, m # n PROVE status'[m] = status[m]
  <2>1. (\E d \in Queued' : tqent_id'[d] = m) <=> (\E d \in Queued : tqent_id[d] = m)
    BY Zenon, <1>0, <1>1, <1>4
  <2>2. (\E u \in Active' : tqt'[u].id = m) <=> (\E u \in Active : tqt[u].id = m)
    BY Zenon, <1>1, <1>4
  <2>3. StateOf(m)' = StateOf(m)
    BY Zenon, <1>1, <2>1, <2>2 DEF StateOf
  <2> QED BY Zenon, <2>3, StatusOf
<1>5. ASSUME n \in 1 .. MaxId PROVE status[n] = "queued" /\ status'[n] = "running"
  <2>1. StateOf(n) = "queued"
    BY Zenon, <1>0, <1>1, <1>2 DEF StateOf
  <2>2. StateOf(n)' = "running"
    BY Zenon, <1>1, <1>2, <1>3 DEF StateOf
  <2> QED BY Zenon, <1>5, <2>1, <2>2, StatusOf
<1>6. /\ n \in 1 .. MaxId => Promise!Move(n, "queued", "running")
      /\ n \notin 1 .. MaxId => UNCHANGED status
  BY Zenon, <1>4, <1>5, Moved
<1> QED BY Zenon, <1>6 DEF PromiseStep, Promise!Next, Promise!Start

\* And the end of a task.
LEMMA EndedStep ==
  ASSUME IInv, Uniq, NEW t \in Threads, Ended(t), UNCHANGED waiting
  PROVE  PromiseStep
<1>0. PICK n : n = tqt[t].id
  BY Zenon
<1>1. /\ \A d \in Queued : tqent_id'[d] = tqent_id[d]
      /\ \A u \in Active' : tqt'[u].id = tqt[u].id
      /\ t \in Active /\ Active' = Active \ {t}
      /\ UNCHANGED <<Queued, tq_next_id, cancelled>>
  BY Zenon, <1>0 DEF Ended, Kept, IdsKept, RunsKept
<1>2. n \in Nat /\ n < tq_next_id /\ tq_next_id \in Nat /\ ~(n >= tq_next_id)
  BY SMTT(60), <1>0, <1>1, IdFacts
<1>3. /\ \A d \in Queued : tqent_id[d] # n
      /\ \A u \in Active' : tqt'[u].id # n
      /\ n \notin cancelled
  BY <1>0, <1>1 DEF Uniq
<1>4. ASSUME NEW m \in 1 .. MaxId, m # n PROVE status'[m] = status[m]
  <2>1. (\E u \in Active' : tqt'[u].id = m) <=> (\E u \in Active : tqt[u].id = m)
    BY Zenon, <1>0, <1>1, <1>4
  <2>2. (\E d \in Queued' : tqent_id'[d] = m) <=> (\E d \in Queued : tqent_id[d] = m)
    BY Zenon, <1>1
  <2>3. StateOf(m)' = StateOf(m)
    BY Zenon, <1>1, <2>1, <2>2 DEF StateOf
  <2> QED BY Zenon, <2>3, StatusOf
<1>5. ASSUME n \in 1 .. MaxId PROVE status[n] = "running" /\ status'[n] = "done"
  <2>1. StateOf(n) = "running"
    BY Zenon, <1>0, <1>1, <1>2, <1>3 DEF StateOf
  <2>2. StateOf(n)' = "done"
    BY Zenon, <1>0, <1>1, <1>2, <1>3 DEF StateOf
  <2> QED BY Zenon, <1>5, <2>1, <2>2, StatusOf
<1>6. /\ n \in 1 .. MaxId => Promise!Move(n, "running", "done")
      /\ n \notin 1 .. MaxId => UNCHANGED status
  BY Zenon, <1>4, <1>5, Moved
<1> QED BY Zenon, <1>6 DEF PromiseStep, Promise!Next, Promise!Finish

\* And the cancellation of a task that no worker has taken.
LEMMA DroppedStep ==
  ASSUME IInv, Uniq, NEW e \in Ents, Dropped(e), UNCHANGED waiting
  PROVE  PromiseStep
<1>0. PICK n : n = tqent_id[e]
  BY Zenon
<1>1. /\ \A d \in Queued' : tqent_id'[d] = tqent_id[d]
      /\ \A u \in Active : tqt'[u].id = tqt[u].id
      /\ e \in Queued /\ Queued' = Queued \ {e}
      /\ cancelled' = cancelled \cup {n} /\ UNCHANGED <<Active, tq_next_id>>
  BY Zenon, <1>0 DEF Dropped, Kept, IdsKept, RunsKept
<1>2. n \in Nat /\ n < tq_next_id /\ tq_next_id \in Nat /\ ~(n >= tq_next_id)
  BY SMTT(60), <1>0, <1>1, IdFacts
<1>3. /\ \A d \in Queued' : tqent_id'[d] # n
      /\ \A u \in Active' : tqt'[u].id # n
  BY <1>0, <1>1 DEF Uniq
<1>4. ASSUME NEW m \in 1 .. MaxId, m # n PROVE status'[m] = status[m]
  <2>1. (\E d \in Queued' : tqent_id'[d] = m) <=> (\E d \in Queued : tqent_id[d] = m)
    BY Zenon, <1>0, <1>1, <1>4
  <2>2. (\E u \in Active' : tqt'[u].id = m) <=> (\E u \in Active : tqt[u].id = m)
    BY Zenon, <1>1
  <2>3. m \in cancelled' <=> m \in cancelled
    BY Zenon, <1>0, <1>1, <1>4
  <2>4. StateOf(m)' = StateOf(m)
    BY Zenon, <1>1, <2>1, <2>2, <2>3 DEF StateOf
  <2> QED BY Zenon, <2>4, StatusOf
<1>5. ASSUME n \in 1 .. MaxId PROVE status[n] = "queued" /\ status'[n] = "cancelled"
  <2>1. StateOf(n) = "queued"
    BY Zenon, <1>0, <1>1, <1>2 DEF StateOf
  <2>2. StateOf(n)' = "cancelled"
    BY Zenon, <1>0, <1>1, <1>2, <1>3 DEF StateOf
  <2> QED BY Zenon, <1>5, <2>1, <2>2, StatusOf
<1>6. /\ n \in 1 .. MaxId => Promise!Move(n, "queued", "cancelled")
      /\ n \notin 1 .. MaxId => UNCHANGED status
  BY Zenon, <1>4, <1>5, Moved
<1> QED BY Zenon, <1>6 DEF PromiseStep, Promise!Next, Promise!Cancel

-----------------------------------------------------------------------------
(* The waits in the promise.                                               *)

\* A list in the order of ids that are all different: the scan finds every id.
LEMMA FindListed ==
  ASSUME NEW L \in Seq(Ents), tqent_id \in [Ents -> Nat], Inj(L), Sorted(L, tqent_id),
         \A d, e \in Range(L) : tqent_id[d] = tqent_id[e] => d = e,
         NEW n, taskq_find_list(L, n) = {}
  PROVE  \A e \in Range(L) : tqent_id[e] # n
<1> SUFFICES ASSUME NEW e \in Range(L), tqent_id[e] = n PROVE FALSE
  BY Zenon
<1>1. PICK k \in DOMAIN L : L[k] = e
  BY Zenon DEF Range
<1>2. DOMAIN L = 1 .. Len(L) /\ Len(L) \in Nat /\ k \in Nat
  BY SMTT(60), <1>1, LenFacts
<1>3. ASSUME NEW j \in 1 .. k - 1 PROVE tqent_id[L[j]] < n
  <2>1. j \in DOMAIN L /\ j <= k /\ j # k
    BY SMTT(60), <1>1, <1>2, <1>3
  <2>2. L[j] \in Range(L) /\ L[j] # e
    BY Zenon, <1>1, <2>1 DEF Range, Inj
  <2>3. tqent_id[L[j]] <= n /\ tqent_id[L[j]] # n
    BY Zenon, <1>1, <2>1, <2>2 DEF Sorted
  <2>4. L[j] \in Ents /\ e \in Ents
    BY Zenon, <2>2, SeqElements
  <2> QED BY <2>3, <2>4
<1>4. L[k] \in taskq_find_list(L, n)
  BY Zenon, <1>1, <1>3 DEF taskq_find_list
<1> QED BY Zenon, <1>4

\* taskq_find finds every task that is on a list.
LEMMA FindExact ==
  ASSUME IInv, Uniq, NEW n, FindPending(n) = {}
  PROVE  \A e \in Queued : tqent_id[e] # n
<1>0. TypeOK /\ ListsInv /\ OrderInv
  BY Zenon DEF IInv
<1>1. /\ tq_pend_list \in Seq(Ents) /\ tq_prio_list \in Seq(Ents) /\ tq_delay_list \in Seq(Ents)
      /\ tqent_id \in [Ents -> Nat]
  BY Zenon, <1>0 DEF TypeOK
<1>2. /\ Inj(tq_pend_list) /\ Inj(tq_prio_list) /\ Inj(tq_delay_list)
      /\ Sorted(tq_pend_list, tqent_id) /\ Sorted(tq_prio_list, tqent_id)
      /\ Sorted(tq_delay_list, tqent_id)
  BY Zenon, <1>0 DEF ListsInv, OrderInv
<1>3. /\ Range(tq_pend_list) \subseteq Queued /\ Range(tq_prio_list) \subseteq Queued
      /\ Range(tq_delay_list) \subseteq Queued
      /\ Queued = Range(tq_pend_list) \cup Range(tq_prio_list) \cup Range(tq_delay_list)
      /\ \A d, e \in Queued : tqent_id[d] = tqent_id[e] => d = e
  BY Zenon DEF Queued, Pend, Prio, Delay, Uniq
<1>4. /\ taskq_find_list(tq_pend_list, n) = {} /\ taskq_find_list(tq_prio_list, n) = {}
      /\ taskq_find_list(tq_delay_list, n) = {}
  BY Zenon DEF FindPending
<1>5. \A e \in Range(tq_pend_list) : tqent_id[e] # n
  BY Zenon, <1>1, <1>2, <1>3, <1>4, FindListed
<1>6. \A e \in Range(tq_prio_list) : tqent_id[e] # n
  BY Zenon, <1>1, <1>2, <1>3, <1>4, FindListed
<1>7. \A e \in Range(tq_delay_list) : tqent_id[e] # n
  BY Zenon, <1>1, <1>2, <1>3, <1>4, FindListed
<1> QED BY Zenon, <1>3, <1>5, <1>6, <1>7

\* The tasks that are open in the promise are queued or being run.
LEMMA OpenFacts ==
  ASSUME NEW n \in Promise!Open
  PROVE  /\ n \in 1 .. MaxId
         /\ (\E e \in Queued : tqent_id[e] = n) \/ (\E t \in Active : tqt[t].id = n)
<1>1. n \in 1 .. MaxId /\ status[n] \in {"queued", "running"}
  BY Zenon DEF Promise!Open
<1> QED BY Zenon, <1>1, StatusOf DEF StateOf

\* A step that gives one call a new value.
LEMMA OneCall ==
  ASSUME TypeOK, NEW p \in Procs, NEW c, call' = [call EXCEPT ![p] = c]
  PROVE  /\ waiting[p] = WaitOf(call[p]) /\ waiting'[p] = WaitOf(c)
         /\ waiting' = [waiting EXCEPT ![p] = WaitOf(c)]
         /\ WaitOf(c) = WaitOf(call[p]) => UNCHANGED waiting
<1>1. \A q \in Procs : call'[q] = IF q = p THEN c ELSE call[q]
  BY Zenon DEF TypeOK
<1>2. /\ waiting = [q \in Procs |-> WaitOf(call[q])]
      /\ waiting' = [q \in Procs |-> WaitOf(call'[q])]
  BY Zenon DEF waiting
<1>3. waiting' = [q \in Procs |-> IF q = p THEN WaitOf(c) ELSE WaitOf(call[q])]
  BY SMTT(60), <1>1, <1>2
<1> HIDE DEF WaitOf
<1> QED BY Zenon, <1>2, <1>3

\* A call that is no wait has nothing to wait for.
LEMMA NoWait ==
  ASSUME NEW c, c.pc # "wait"
  PROVE  WaitOf(c) = Promise!None
BY Zenon DEF WaitOf, Promise!None

\* A thread that begins a wait: taskq_wait_id and its relatives, taskq_cancel_id
\* for a task that is being run, taskq_destroy.
LEMMA BeginStep ==
  ASSUME TypeOK, UNCHANGED status, NEW p \in Procs, call[p] = Idle,
         NEW on \in Waits \cup {"destroy"}, NEW n \in Nat,
         call' = [call EXCEPT ![p] = Waiting(on, n)]
  PROVE  PromiseStep
<1> DEFINE w == [on |-> IF on = "destroy" THEN "all" ELSE on, id |-> n]
<1>1. WaitOf(Waiting(on, n)) = w
  BY Zenon DEF WaitOf, Waiting
<1>2. w \in [on : {"id", "outstanding", "all"}, id : Nat]
  BY Zenon DEF Waits
<1>3. WaitOf(call[p]) = Promise!None
  BY NoWait DEF Idle
<1> HIDE DEF w
<1>4. /\ waiting[p] = Promise!None /\ waiting'[p] = w
      /\ waiting' = [waiting EXCEPT ![p] = w]
  BY Zenon, <1>1, <1>3, OneCall
<1>5. Promise!BeginWait(p)
  BY Zenon, <1>2, <1>4 DEF Promise!BeginWait
<1> QED BY Zenon, <1>5 DEF PromiseStep, Promise!Next

\* A wait that returns finds the tasks it waits for over: taskq_wait_id by the
\* scan of the lists, the others by tq_lowest_id.
LEMMA EndStep ==
  ASSUME IInv, Uniq, UNCHANGED status, NEW p \in Procs, WaitReturns(p)
  PROVE  PromiseStep
<1> DEFINE on == call[p].on
           n == call[p].id
           w == [on |-> IF on = "destroy" THEN "all" ELSE on, id |-> n]
<1>0. TypeOK
  BY Zenon DEF IInv
<1>1. /\ call[p].pc = "wait" /\ taskq_wait_check(on, n)
      /\ call' = [call EXCEPT ![p] = IF on = "destroy" THEN [pc |-> "stop"] ELSE Idle]
  BY Zenon DEF WaitReturns
<1>2. call[p] \in CallTypes
  BY Zenon, <1>0 DEF TypeOK
<1>3. on \in Waits \cup {"destroy"} /\ n \in Nat
  BY Zenon, <1>1, <1>2, CallShape
<1>4. /\ waiting[p] = w /\ waiting'[p] = Promise!None
      /\ waiting' = [waiting EXCEPT ![p] = Promise!None]
  <2>1. WaitOf(call[p]) = w
    BY Zenon, <1>1 DEF WaitOf
  <2>2. WaitOf([pc |-> "stop"]) = Promise!None /\ WaitOf(Idle) = Promise!None
    BY Zenon, NoWait DEF Idle
  <2> HIDE DEF w
  <2> QED BY ZenonT(60), <1>0, <1>1, <2>1, <2>2, OneCall
<1>5. w.on = (IF on = "destroy" THEN "all" ELSE on) /\ w.id = n /\ w # Promise!None
  BY Zenon, <1>3 DEF Promise!None, Waits
<1>6. /\ tq_lowest_id \in Nat /\ tq_next_id \in Nat
      /\ \A e \in Queued : tqent_id[e] \in Nat /\ tqent_id[e] < tq_next_id
                                               /\ tq_lowest_id <= tqent_id[e]
      /\ \A t \in Active : tqt[t].id \in Nat /\ tqt[t].id < tq_next_id
                                             /\ tq_lowest_id <= tqt[t].id
  BY Zenon, IdFacts
<1>7. \A m \in Promise!Open : m \in Nat /\ m < tq_next_id /\ tq_lowest_id <= m
  BY Zenon, <1>6, OpenFacts
<1> HIDE DEF w, on, n
<1>8. ASSUME on = "id" PROVE n \notin Promise!Open
  <2>1. FindPending(n) = {} /\ ~FindActive(n)
    BY Zenon, <1>1, <1>8 DEF taskq_wait_check
  <2>2. \A e \in Queued : tqent_id[e] # n
    BY Zenon, <2>1, FindExact
  <2>3. \A t \in Active : tqt[t].id # n
    BY Zenon, <2>1 DEF FindActive, Active
  <2> QED BY Zenon, <2>2, <2>3, OpenFacts
<1>9. ASSUME on = "outstanding" PROVE \A m \in Promise!Open : m > n
  <2>1. n < tq_lowest_id
    BY Zenon, <1>1, <1>9 DEF taskq_wait_check
  <2> QED BY SMTT(60), <1>3, <1>6, <1>7, <2>1
<1>10. ASSUME on \in {"all", "destroy"} PROVE Promise!Open = {}
  <2>1. tq_lowest_id = tq_next_id
    BY Zenon, <1>1, <1>10 DEF taskq_wait_check
  <2> QED BY SMTT(60), <1>6, <1>7, <2>1
<1>11. Promise!EndWait(p)
  BY Zenon, <1>3, <1>4, <1>5, <1>8, <1>9, <1>10 DEF Promise!EndWait, Waits
<1> QED BY Zenon, <1>11 DEF PromiseStep, Promise!Next

-----------------------------------------------------------------------------
(* What each action does to the tasks and to the waits.                    *)

\* What is to be shown of a step: it is one of the promise, and no id gets two
\* tasks.
Implements == PromiseStep /\ Uniq'

\* The lists stay as they are, and so do the ids of what is on them.
LEMMA StillQuiet ==
  ASSUME UNCHANGED <<tq_pend_list, tq_prio_list, tq_delay_list, tq_active_list, tq_next_id,
                     cancelled>>,
         \A d \in Queued : tqent_id'[d] = tqent_id[d],
         \A t \in Active : tqt'[t].id = tqt[t].id
  PROVE  Quiet
<1>1. UNCHANGED <<Queued, Active>>
  BY Zenon DEF Queued, Pend, Prio, Delay, Active
<1> QED BY Zenon, <1>1 DEF Quiet, Kept, IdsKept, RunsKept

\* A quiet step in which no thread begins or ends a wait.
LEMMA QuietStep ==
  ASSUME IInv, Uniq, Quiet, UNCHANGED waiting
  PROVE  Implements
<1>1. UNCHANGED status
  BY Zenon, QuietStatus
<1>2. Uniq'
  BY Zenon, UniqStep
<1> QED BY Zenon, <1>1, <1>2 DEF Implements, PromiseStep

\* A step in which only a call changes: to another wait or to none.
LEMMA CallQuiet ==
  ASSUME IInv, Uniq, UNCHANGED <<lists, ids, pool, ents, workers, cancelled>>
  PROVE  Quiet /\ Uniq' /\ UNCHANGED status
<1>1. UNCHANGED <<tq_pend_list, tq_prio_list, tq_delay_list, tq_active_list, tq_next_id,
                  cancelled, tqent_id, tqt>>
  BY Zenon DEF lists, ids, ents, workers
<1>2. Quiet
  BY Zenon, <1>1, StillQuiet
<1>3. Uniq'
  BY Zenon, <1>2, UniqStep
<1> QED BY Zenon, <1>2, <1>3, QuietStatus

\* An entry that was on no list is queued with the next id.
LEMMA EnqueueImplements ==
  ASSUME IInv, Uniq, NEW e \in Ents, NEW kind \in {"pend", "front", "delay"},
         Enqueue(e, kind), e \notin Queued,
         UNCHANGED <<workers, cancelled>>, UNCHANGED waiting
  PROVE  Implements
<1>0. TypeOK /\ ListsInv
  BY Zenon DEF IInv
<1>1. /\ tqent_id' = [tqent_id EXCEPT ![e] = tq_next_id] /\ tq_next_id' = tq_next_id + 1
      /\ tq_pend_list' = IF kind = "pend" THEN Append(tq_pend_list, e) ELSE tq_pend_list
      /\ tq_prio_list' = IF kind = "front" THEN Append(tq_prio_list, e) ELSE tq_prio_list
      /\ tq_delay_list' = IF kind = "delay" THEN Append(tq_delay_list, e) ELSE tq_delay_list
  BY Zenon DEF Enqueue
<1>2. UNCHANGED <<tq_active_list, tqt, cancelled, Active>>
  BY Zenon DEF workers, Active
<1>3. /\ tq_pend_list \in Seq(Ents) /\ tq_prio_list \in Seq(Ents) /\ tq_delay_list \in Seq(Ents)
      /\ Inj(tq_pend_list) /\ Inj(tq_prio_list) /\ Inj(tq_delay_list)
      /\ tqent_id \in [Ents -> Nat] /\ Queued \subseteq Ents
  BY Zenon, <1>0, ListedEnts DEF TypeOK, ListsInv
<1>4. \A L \in Seq(Ents) : Inj(L) /\ e \notin Range(L) => Range(Append(L, e)) = Range(L) \cup {e}
  BY ZenonT(60), AppendFacts
<1>5. e \notin Pend /\ e \notin Prio /\ e \notin Delay
  BY Zenon DEF Queued
<1>6. Pend' = IF kind = "pend" THEN Pend \cup {e} ELSE Pend
  BY Zenon, <1>1, <1>3, <1>4, <1>5 DEF Pend
<1>7. Prio' = IF kind = "front" THEN Prio \cup {e} ELSE Prio
  BY Zenon, <1>1, <1>3, <1>4, <1>5 DEF Prio
<1>8. Delay' = IF kind = "delay" THEN Delay \cup {e} ELSE Delay
  BY Zenon, <1>1, <1>3, <1>4, <1>5 DEF Delay
<1>9. Queued' = Queued \cup {e}
  BY Zenon, <1>6, <1>7, <1>8 DEF Queued
<1>10. tqent_id'[e] = tq_next_id /\ \A d \in Queued : tqent_id'[d] = tqent_id[d]
  BY Zenon, <1>1, <1>3
<1>11. Kept
  BY Zenon, <1>2, <1>10 DEF Kept, IdsKept, RunsKept
<1>12. Born(e)
  BY Zenon, <1>1, <1>2, <1>9, <1>10, <1>11 DEF Born
<1>13. Uniq'
  BY Zenon, <1>12, UniqStep
<1> QED BY Zenon, <1>12, <1>13, BornStep DEF Implements

\* task_alloc with an entry of the free list, or on its way to the heap.
LEMMA AllocImplements ==
  ASSUME IInv, Uniq, NEW p \in Procs, NEW kind \in Kinds, kind # "noqueue", NEW how,
         NEW count, call[p].pc # "wait", task_alloc(p, kind, how, count)
  PROVE  Implements
<1>0. TypeOK /\ ListsInv
  BY Zenon DEF IInv
<1>W. ASSUME NEW c, c.pc # "wait", call' = [call EXCEPT ![p] = c] PROVE UNCHANGED waiting
  <2>1. WaitOf(c) = WaitOf(call[p])
    BY Zenon, <1>W, NoWait
  <2> QED BY ZenonT(60), <1>0, <1>W, <2>1, OneCall
<1>1. CASE tq_free_list # <<>>
  <2> DEFINE e == Head(tq_free_list)
  <2>1. /\ Enqueue(e, kind) /\ call' = [call EXCEPT ![p] = Idle]
        /\ UNCHANGED <<workers, cancelled>>
    BY Zenon, <1>1 DEF task_alloc
  <2>2. tq_free_list \in Seq(Ents) /\ Inj(tq_free_list)
    BY Zenon, <1>0 DEF TypeOK, ListsInv
  <2>3. e \in Ents /\ e \in Free
    BY Zenon, <1>1, <2>2, TailFacts DEF Free
  <2> HIDE DEF e
  <2>4. e \notin Queued
    BY Zenon, <1>0, <2>3 DEF ListsInv
  <2>5. UNCHANGED waiting
    BY ZenonT(60), <1>W, <2>1 DEF Idle
  <2>6. kind \in {"pend", "front", "delay"}
    BY Zenon DEF Kinds
  <2> QED BY Zenon, <2>1, <2>3, <2>4, <2>5, <2>6, EnqueueImplements
<1>2. CASE tq_free_list = <<>>
  <2> DEFINE c == IF tq_nalloc >= MaxAlloc
                  THEN [pc |-> "poll", kind |-> kind, how |-> how, count |-> count]
                  ELSE [pc |-> "alloc", kind |-> kind, how |-> how]
  <2>1. /\ call' = [call EXCEPT ![p] = c]
        /\ UNCHANGED <<lists, ids, pool, ents, workers, cancelled>>
    BY Zenon, <1>2 DEF task_alloc
  <2>2. c.pc # "wait"
    BY Zenon
  <2> HIDE DEF c
  <2>3. UNCHANGED waiting
    BY Zenon, <1>W, <2>1, <2>2
  <2> QED BY Zenon, <2>1, <2>3, CallQuiet, QuietStep
<1> QED BY Zenon, <1>1, <1>2

\* A call between two values that are no waits.
LEMMA CallNoWait ==
  ASSUME TypeOK, NEW p \in Procs, NEW c, call[p].pc # "wait", c.pc # "wait",
         call' = [call EXCEPT ![p] = c]
  PROVE  UNCHANGED waiting
<1>1. WaitOf(c) = WaitOf(call[p])
  BY Zenon, NoWait
<1> QED BY Zenon, <1>1, OneCall

\* To fall asleep, or to be woken, does not change what a thread waits for.
LEMMA AsleepSame ==
  ASSUME NEW c \in CallTypes, c.pc = "wait"
  PROVE  /\ WaitOf([c EXCEPT !.asleep = TRUE]) = WaitOf(c)
         /\ WaitOf([c EXCEPT !.asleep = FALSE]) = WaitOf(c)
<1> DEFINE Wait == [pc : {"wait"}, on : Waits \cup {"destroy"}, id : Nat, asleep : BOOLEAN]
<1>1. c \in Wait
  BY DEF CallTypes, Idle
<1>2. \A b \in BOOLEAN : /\ [c EXCEPT !.asleep = b].pc = "wait"
                         /\ [c EXCEPT !.asleep = b].on = c.on
                         /\ [c EXCEPT !.asleep = b].id = c.id
  BY Zenon, <1>1
<1> HIDE DEF Wait
<1> QED BY Zenon, <1>2 DEF WaitOf

\* task_done touches the id of no entry but its own.
LEMMA DoneIds ==
  ASSUME TypeOK, NEW e \in Ents, NEW flags, task_done(e, flags)
  PROVE  \A d \in Ents \ {e} : tqent_id'[d] = tqent_id[d]
<1>1. tqent_id \in [Ents -> Nat]
  BY Zenon DEF TypeOK
<1>2. tqent_id' = tqent_id \/ tqent_id' = [tqent_id EXCEPT ![e] = INVALID]
  BY Zenon DEF task_done
<1> QED BY Zenon, <1>1, <1>2

\* taskq_dispatch_ent.
LEMMA EntImplements ==
  ASSUME IInv, Uniq, NEW p \in Procs, NEW e \in PreEnts,
         NEW kind \in {"pend", "front", "noqueue"}, DispatchEnt(p, e, kind)
  PROVE  Implements
<1>0. TypeOK /\ tqent_id \in [Ents -> Nat] /\ Queued \subseteq Ents
  BY Zenon, ListedEnts DEF IInv, TypeOK
<1>1. e \in Ents /\ e \notin Queued
  BY Zenon DEF Ents, DispatchEnt, taskq_empty_ent, Queued, Pend, Prio, Delay
<1>2. UNCHANGED waiting
  BY Zenon DEF DispatchEnt, waiting
<1>3. CASE tq_active
  <2> DEFINE k == IF kind = "noqueue" THEN "pend" ELSE kind
  <2>1. Enqueue(e, k) /\ UNCHANGED <<workers, cancelled>>
    BY Zenon, <1>3 DEF DispatchEnt
  <2>2. k \in {"pend", "front", "delay"}
    BY Zenon
  <2> HIDE DEF k
  <2> QED BY Zenon, <1>1, <1>2, <2>1, <2>2, EnqueueImplements
<1>4. CASE ~tq_active
  <2>1. /\ tqent_id' = [tqent_id EXCEPT ![e] = INVALID]
        /\ UNCHANGED <<tq_pend_list, tq_prio_list, tq_delay_list, tq_active_list, tq_next_id,
                       cancelled, tqt>>
    BY Zenon, <1>4 DEF DispatchEnt, lists, ids, workers
  <2>2. \A d \in Queued : tqent_id'[d] = tqent_id[d]
    BY Zenon, <1>0, <1>1, <2>1
  <2>3. Quiet
    BY Zenon, <2>1, <2>2, StillQuiet
  <2> QED BY Zenon, <1>2, <2>3, QuietStep
<1> QED BY Zenon, <1>3, <1>4

\* taskq_cancel_id takes a task off its list.
LEMMA CancelImplements ==
  ASSUME IInv, Uniq, NEW p \in Procs, NEW n, CancelPending(p, n)
  PROVE  Implements
<1>0. TypeOK /\ tqent_id \in [Ents -> Nat] /\ Queued \subseteq Ents
  BY Zenon, ListedEnts DEF IInv, TypeOK
<1>1. call[p] = Idle /\ UNCHANGED <<tq_next_id, tq_active_list, tqt, Active>>
  BY Zenon DEF CancelPending, MayCall, workers, Active
<1>2. PICK e \in FindPending(n) :
        /\ tq_pend_list' = list_del(tq_pend_list, e)
        /\ tq_prio_list' = list_del(tq_prio_list, e)
        /\ tq_delay_list' = list_del(tq_delay_list, e)
        /\ cancelled' = cancelled \cup {n}
        /\ \/ call' = [call EXCEPT ![p] = [pc |-> "sync", ent |-> e]] /\ UNCHANGED tqent_id
           \/ /\ UNCHANGED call
              /\ UNCHANGED tqent_id \/ \E flags : task_done(e, flags)
  BY Zenon DEF CancelPending
<1>3. e \in Queued /\ tqent_id[e] = n /\ e \in Ents
  BY Zenon, <1>0, FindFacts
<1>4. Pend' = Pend \ {e} /\ Prio' = Prio \ {e} /\ Delay' = Delay \ {e}
  BY Zenon, <1>2, QueuesWithout DEF Pend, Prio, Delay
<1>5. Queued' = Queued \ {e}
  BY Zenon, <1>4 DEF Queued
<1>6. \A d \in Queued' : tqent_id'[d] = tqent_id[d]
  <2>1. \A d \in Ents \ {e} : tqent_id'[d] = tqent_id[d]
    BY Zenon, <1>0, <1>2, <1>3, DoneIds
  <2> QED BY Zenon, <1>0, <1>5, <2>1
<1>7. Dropped(e)
  BY Zenon, <1>1, <1>2, <1>3, <1>5, <1>6 DEF Dropped, Kept, IdsKept, RunsKept
<1>8. UNCHANGED waiting
  <2>1. CASE call' = [call EXCEPT ![p] = [pc |-> "sync", ent |-> e]]
    <3>1. call[p].pc # "wait" /\ [pc |-> "sync", ent |-> e].pc # "wait"
      BY <1>1 DEF Idle
    <3> QED BY Zenon, <1>0, <2>1, <3>1, CallNoWait
  <2>2. CASE UNCHANGED call
    BY Zenon, <2>2 DEF waiting
  <2> QED BY ZenonT(60), <1>2, <2>1, <2>2
<1>9. Uniq'
  BY Zenon, <1>3, <1>7, UniqStep
<1> QED BY Zenon, <1>3, <1>7, <1>8, <1>9, DroppedStep DEF Implements

\* The first steps of the calls.
LEMMA ClientImplements ==
  ASSUME IInv, Uniq, Disciplined, NEW p \in Procs, ClientStep(p)
  PROVE  Implements
<1>0. TypeOK /\ MaxId \in Nat
  BY Zenon, NatConstants DEF IInv
<1>1. ASSUME NEW kind \in Kinds, NEW how \in Hows, Dispatch(p, kind, how) PROVE Implements
  <2>1. kind \in OpsOf(p) /\ call[p] = Idle /\ task_alloc(p, kind, how, 0)
    BY Zenon, <1>1 DEF Dispatch, MayCall
  <2>2. kind # "noqueue" /\ call[p].pc # "wait"
    BY SMTT(60), <2>1 DEF OpsOf, Disciplined, Idle
  <2> QED BY Zenon, <2>1, <2>2, AllocImplements
<1>2. ASSUME NEW n \in 1 .. MaxId, CancelBusy(p, n) PROVE Implements
  <2>1. /\ call[p] = Idle /\ call' = [call EXCEPT ![p] = Waiting("id", n)]
        /\ UNCHANGED <<lists, ids, pool, ents, workers, cancelled>>
    BY Zenon, <1>2 DEF CancelBusy, MayCall
  <2>2. n \in Nat /\ "id" \in Waits \cup {"destroy"}
    BY <1>0 DEF Waits
  <2>3. Uniq' /\ UNCHANGED status
    BY Zenon, <2>1, CallQuiet
  <2> QED BY Zenon, <1>0, <2>1, <2>2, <2>3, BeginStep DEF Implements
<1>3. ASSUME NEW on \in Waits, NEW n \in 0 .. MaxId, taskq_wait(p, on, n) PROVE Implements
  <2> DEFINE id == IF on = "outstanding" /\ n = 0 THEN tq_next_id - 1 ELSE n
  <2>1. /\ call[p] = Idle /\ call' = [call EXCEPT ![p] = Waiting(on, id)]
        /\ UNCHANGED <<lists, ids, pool, ents, workers, cancelled>>
    BY Zenon, <1>3 DEF taskq_wait, MayCall
  <2>2. id \in Nat
    <3>1. n < tq_next_id /\ tq_next_id \in Nat /\ n \in Nat
      BY SMTT(60), <1>0, <1>3 DEF taskq_wait, TypeOK
    <3> QED BY SMTT(60), <3>1
  <2>3. Uniq' /\ UNCHANGED status
    BY Zenon, <2>1, CallQuiet
  <2> HIDE DEF id
  <2> QED BY Zenon, <1>0, <2>1, <2>2, <2>3, BeginStep DEF Implements
<1>4. ASSUME DestroyBegins(p) PROVE Implements
  <2>1. /\ call[p] = Idle /\ call' = [call EXCEPT ![p] = Waiting("destroy", 0)]
        /\ UNCHANGED <<lists, ids, pool, ents, workers, cancelled>>
    BY Zenon, <1>4 DEF DestroyBegins, MayCall
  <2>2. Uniq' /\ UNCHANGED status
    BY Zenon, <2>1, CallQuiet
  <2> QED BY Zenon, <1>0, <2>1, <2>2, BeginStep DEF Implements
<1> QED BY Zenon, <1>1, <1>2, <1>3, <1>4, EntImplements, CancelImplements DEF ClientStep

\* The rest of the calls.
LEMMA CallImplements ==
  ASSUME IInv, Uniq, NEW p \in Procs, CallStep(p)
  PROVE  Implements
<1>0. /\ TypeOK /\ KindsInv /\ OwnersInv /\ call[p] \in CallTypes /\ Queued \subseteq Ents
  BY Zenon, ListedEnts DEF IInv, TypeOK
<1>I. Idle.pc # "wait"
  BY Zenon DEF Idle
<1>1. CASE PollAlloc(p)
  <2>1. call[p].pc = "poll" /\ call[p].pc # "wait"
    BY Zenon, <1>1 DEF PollAlloc
  <2>2. call[p].kind # "noqueue" /\ call[p].kind \in Kinds
    BY Zenon, <1>0, <2>1, CallShape DEF KindsInv
  <2>3. CASE task_alloc(p, call[p].kind, call[p].how, call[p].count + 1)
    BY Zenon, <2>1, <2>2, <2>3, AllocImplements
  <2>4. CASE /\ call' = [call EXCEPT ![p] = [pc |-> "alloc", kind |-> call[p].kind,
                                             how |-> call[p].how]]
             /\ UNCHANGED <<lists, ids, pool, ents, workers, cancelled>>
    <3> DEFINE c == [pc |-> "alloc", kind |-> call[p].kind, how |-> call[p].how]
    <3>1. c.pc # "wait" /\ call' = [call EXCEPT ![p] = c]
      BY Zenon, <2>4
    <3> HIDE DEF c
    <3>2. UNCHANGED waiting
      BY Zenon, <1>0, <2>1, <3>1, CallNoWait
    <3> QED BY Zenon, <2>4, <3>2, CallQuiet, QuietStep
  <2> QED BY Zenon, <1>1, <2>3, <2>4 DEF PollAlloc
<1>2. CASE AllocReturns(p)
  <2>1. call[p].pc = "alloc" /\ call[p].pc # "wait" /\ call' = [call EXCEPT ![p] = Idle]
    BY Zenon, <1>2 DEF AllocReturns
  <2>2. call[p].kind \in {"pend", "front", "delay"}
    BY Zenon, <1>0, <2>1, CallShape DEF KindsInv, Kinds
  <2>3. UNCHANGED waiting
    BY ZenonT(60), <1>0, <1>I, <2>1, CallNoWait
  <2>4. ASSUME NEW e \in HeapEnts \ heap, Enqueue(e, call[p].kind),
               UNCHANGED <<workers, cancelled>>
        PROVE  Implements
    <3>1. e \in Ents /\ e \notin Queued
      BY Zenon, <1>0, SetConstants DEF Ents, OwnersInv, Queued
    <3> QED BY Zenon, <2>2, <2>3, <2>4, <3>1, EnqueueImplements
  <2>5. CASE UNCHANGED <<lists, ids, pool, ents, workers, cancelled>>
    BY Zenon, <2>3, <2>5, CallQuiet, QuietStep
  <2> QED BY Zenon, <1>2, <2>4, <2>5 DEF AllocReturns
<1>3. CASE CancelSynced(p)
  <2> DEFINE e == call[p].ent
  <2>1. /\ call[p].pc = "sync" /\ task_done(e, tqent_flags) /\ call' = [call EXCEPT ![p] = Idle]
        /\ UNCHANGED <<tq_pend_list, tq_prio_list, tq_delay_list, tq_active_list, tq_next_id,
                       tqt, cancelled>>
    BY Zenon, <1>3 DEF CancelSynced, ids, workers
  <2>2. e \in Ents /\ Syncing(p, e)
    BY ZenonT(60), <1>0, <2>1, CallShape DEF Syncing
  <2> HIDE DEF e
  <2>3. e \notin Queued
    BY Zenon, <1>0, <2>2 DEF OwnersInv
  <2>4. \A d \in Queued : tqent_id'[d] = tqent_id[d]
    BY Zenon, <1>0, <2>1, <2>2, <2>3, DoneIds
  <2>5. Quiet
    BY Zenon, <2>1, <2>4, StillQuiet
  <2>6. UNCHANGED waiting
    BY ZenonT(60), <1>0, <1>I, <2>1, CallNoWait
  <2> QED BY Zenon, <2>5, <2>6, QuietStep
<1>4. CASE WaitReturns(p)
  <2>1. UNCHANGED <<lists, ids, pool, ents, workers, cancelled>>
    BY Zenon, <1>4 DEF WaitReturns
  <2>2. Uniq' /\ UNCHANGED status
    BY Zenon, <2>1, CallQuiet
  <2> QED BY Zenon, <1>4, <2>2, EndStep DEF Implements
<1>5. CASE WaitSleeps(p)
  <2>1. /\ call[p].pc = "wait" /\ call' = [call EXCEPT ![p] = [call[p] EXCEPT !.asleep = TRUE]]
        /\ UNCHANGED <<lists, ids, pool, ents, workers, cancelled>>
    BY Zenon, <1>5 DEF WaitSleeps
  <2>2. WaitOf([call[p] EXCEPT !.asleep = TRUE]) = WaitOf(call[p])
    BY Zenon, <1>0, <2>1, AsleepSame
  <2>3. UNCHANGED waiting
    BY Zenon, <1>0, <2>1, <2>2, OneCall
  <2> QED BY Zenon, <2>1, <2>3, CallQuiet, QuietStep
<1>6. CASE StopThread(p)
  <2>1. UNCHANGED <<tq_pend_list, tq_prio_list, tq_delay_list, tq_active_list, tq_next_id,
                    cancelled, tqent_id, tqt, call>>
    BY Zenon, <1>6 DEF StopThread, lists, ids, ents
  <2>2. Quiet /\ UNCHANGED waiting
    BY Zenon, <2>1, StillQuiet DEF waiting
  <2> QED BY Zenon, <2>2, QuietStep
<1>7. CASE DestroyEnds(p)
  <2>1. /\ call[p].pc = "stop" /\ call' = [call EXCEPT ![p] = [pc |-> "gone"]]
        /\ UNCHANGED <<tq_pend_list, tq_prio_list, tq_delay_list, tq_active_list, tq_next_id,
                       cancelled, tqent_id, tqt>>
    BY Zenon, <1>7 DEF DestroyEnds, ids, ents, workers
  <2>2. call[p].pc # "wait" /\ [pc |-> "gone"].pc # "wait"
    BY Zenon, <2>1
  <2>3. UNCHANGED waiting
    BY ZenonT(60), <1>0, <2>1, <2>2, CallNoWait
  <2>4. Quiet
    BY Zenon, <2>1, StillQuiet
  <2> QED BY Zenon, <2>3, <2>4, QuietStep
<1> QED BY Zenon, <1>1, <1>2, <1>3, <1>4, <1>5, <1>6, <1>7 DEF CallStep

\* The workers.
LEMMA WorkerImplements ==
  ASSUME IInv, Uniq, NEW t \in Threads, WorkerStep(t)
  PROVE  Implements
<1>0. /\ TypeOK /\ ListsInv /\ OwnersInv /\ Queued \subseteq Ents
      /\ tqt \in [Threads -> TqtTypes] /\ Active = {u \in Threads : tqt[u].pc = "run"}
      /\ tq_active_list \in Seq(Threads) /\ Inj(tq_active_list)
  BY Zenon, ListedEnts DEF IInv, TypeOK, TqtTypes, ListsInv, Active
<1>1. CASE TakeTask(t)
  <2>1. /\ tqt[t].pc # "run"
        /\ UNCHANGED <<tq_delay_list, tq_next_id, tqent_id, call, cancelled>>
    BY ZenonT(60), <1>1 DEF TakeTask, Woken, AtTop, ids, ents
  <2> DEFINE r(e) == [pc |-> "run", id |-> tqent_id[e],
                      ents |-> IF "PREALLOC" \in tqent_flags[e] THEN {} ELSE {e}]
             f(e) == [tqt_id EXCEPT ![t] = tqent_id[e]]
  <2>2. PICK e \in taskq_next_ent :
          /\ tq_prio_list' = list_del(tq_prio_list, e)
          /\ tq_pend_list' = list_del(tq_pend_list, e)
          /\ tqt' = [tqt EXCEPT ![t] = r(e)]
          /\ tq_active_list' = InsertById(tq_active_list, t, f(e))
    BY ZenonT(60), <1>1 DEF TakeTask
  <2>3. r(e).id = tqent_id[e]
    BY Zenon
  <2> HIDE DEF r, f
  <2>4. e \in Pend \cup Prio
    <3>1. \A L \in Seq(Ents) : Inj(L) /\ L # <<>> => Head(L) \in Range(L)
      BY Zenon, TailFacts
    <3>2. /\ tq_prio_list \in Seq(Ents) /\ tq_pend_list \in Seq(Ents)
          /\ Inj(tq_prio_list) /\ Inj(tq_pend_list)
      BY Zenon, <1>0 DEF TypeOK, ListsInv
    <3> QED BY Zenon, <3>1, <3>2 DEF taskq_next_ent, Pend, Prio
  <2>5. e \in Queued /\ e \in Ents /\ e \notin Delay
    BY Zenon, <1>0, <2>4 DEF ListsInv, Queued
  <2>6. Pend' = Pend \ {e} /\ Prio' = Prio \ {e} /\ Delay' = Delay
    BY Zenon, <2>1, <2>2, QueuesWithout DEF Pend, Prio, Delay
  <2>7. Queued' = Queued \ {e}
    BY Zenon, <2>5, <2>6 DEF Queued
  <2>8. t \notin Active /\ Active' = Active \cup {t}
    BY SMTT(60), <1>0, <2>1, <2>2, InsertFacts DEF Active
  <2>9. tqt'[t].id = tqent_id[e] /\ \A u \in Active : tqt'[u] = tqt[u]
    BY ZenonT(60), <1>0, <2>2, <2>3, <2>8
  <2>10. Taken(e, t)
    BY Zenon, <2>1, <2>5, <2>7, <2>8, <2>9 DEF Taken, Kept, IdsKept, RunsKept
  <2>11. Uniq' /\ UNCHANGED waiting
    BY Zenon, <2>1, <2>5, <2>10, UniqStep DEF waiting
  <2> QED BY Zenon, <2>5, <2>10, <2>11, TakenStep DEF Implements
<1>2. CASE FinishTask(t)
  <2>1. /\ tqt[t].pc = "run" /\ WakeWaiters
        /\ tq_active_list' = list_del(tq_active_list, t)
        /\ tqt' = [tqt EXCEPT ![t] = [Resting EXCEPT !.pc = "top"]]
        /\ UNCHANGED <<tq_next_id, tq_pend_list, tq_prio_list, tq_delay_list, cancelled>>
    BY Zenon, <1>2 DEF FinishTask
  <2>2. UNCHANGED tqent_id \/ \E e \in tqt[t].ents : task_done(e, tqent_flags)
    BY Zenon, <1>2 DEF FinishTask
  <2>3. tqt[t].ents \subseteq Ents /\ tqt[t].ents \cap Queued = {}
    BY Zenon, <1>0 DEF TqtTypes, OwnersInv
  <2>4. \A d \in Queued : tqent_id'[d] = tqent_id[d]
    <3>1. ASSUME NEW e \in tqt[t].ents, task_done(e, tqent_flags)
          PROVE  \A d \in Ents \ {e} : tqent_id'[d] = tqent_id[d]
      BY Zenon, <1>0, <2>3, <3>1, DoneIds
    <3> QED BY Zenon, <1>0, <2>2, <2>3, <3>1
  <2>5. t \in Active /\ Active' = Active \ {t}
    BY Zenon, <1>0, <2>1, DelFacts DEF Active
  <2>6. \A u \in Active' : tqt'[u] = tqt[u]
    BY Zenon, <1>0, <2>1, <2>5
  <2>7. UNCHANGED Queued
    BY Zenon, <2>1 DEF Queued, Pend, Prio, Delay
  <2>8. Ended(t)
    BY Zenon, <2>1, <2>4, <2>5, <2>6, <2>7 DEF Ended, Kept, IdsKept, RunsKept
  <2>9. UNCHANGED waiting
    <3>1. ASSUME NEW q \in Procs PROVE WaitOf(call'[q]) = WaitOf(call[q])
      <4>1. call[q] \in CallTypes
        BY Zenon, <1>0 DEF TypeOK
      <4>2. call'[q] = IF call[q].pc = "wait" THEN [call[q] EXCEPT !.asleep = FALSE]
                                              ELSE call[q]
        BY Zenon, <2>1 DEF WakeWaiters
      <4> QED BY Zenon, <4>1, <4>2, AsleepSame
    <3> HIDE DEF WaitOf
    <3> QED BY Zenon, <3>1 DEF waiting
  <2>10. Uniq'
    BY Zenon, <2>8, UniqStep
  <2> QED BY Zenon, <2>8, <2>9, <2>10, EndedStep DEF Implements
<1>3. CASE Sleep(t) \/ Stop(t)
  <2>1. /\ UNCHANGED <<tq_pend_list, tq_prio_list, tq_delay_list, tq_active_list, tq_next_id,
                       cancelled, tqent_id, call>>
        /\ tqt[t].pc # "run" /\ \E x : tqt' = [tqt EXCEPT ![t] = x]
    BY Zenon, <1>3 DEF Sleep, Stop, AtTop, Woken, lists, ids, ents
  <2>2. \A u \in Active : tqt'[u] = tqt[u]
    BY Zenon, <1>0, <2>1
  <2>3. Quiet /\ UNCHANGED waiting
    BY Zenon, <2>1, <2>2, StillQuiet DEF waiting
  <2> QED BY Zenon, <2>3, QuietStep
<1> QED BY Zenon, <1>1, <1>2, <1>3 DEF WorkerStep

\* The timers: task_expire moves an entry from one list to another.
LEMMA TimerImplements ==
  ASSUME IInv, Uniq, NEW e \in HeapEnts, TimerStep(e)
  PROVE  Implements
<1>0. TypeOK /\ ListsInv /\ TimersOwned /\ e \in Ents
  BY Zenon DEF IInv, Ents
<1>1. /\ UNCHANGED <<tq_active_list, tq_next_id, cancelled, tqent_id, tqt, call>>
      /\ UNCHANGED <<Active, waiting>>
  BY Zenon DEF TimerStep, TimerFires, task_expire, ids, workers, Active, waiting
<1>2. CASE UNCHANGED lists
  <2>1. UNCHANGED <<tq_pend_list, tq_prio_list, tq_delay_list>>
    BY Zenon, <1>2 DEF lists
  <2>2. Quiet
    BY Zenon, <1>1, <2>1, StillQuiet
  <2> QED BY Zenon, <1>1, <2>2, QuietStep
<1>3. CASE /\ timer[e] = "firing" /\ "CANCEL" \notin tqent_flags[e]
           /\ tq_delay_list' = list_del(tq_delay_list, e)
           /\ tq_pend_list' = list_del(tq_pend_list, e)
           /\ tq_prio_list' = InsertById(list_del(tq_prio_list, e), e, tqent_id)
  <2> DEFINE prio == list_del(tq_prio_list, e)
  <2>1. e \in Delay
    BY Zenon, <1>0, <1>3 DEF TimersOwned, Delay
  <2>2. e \in Queued /\ e \notin Pend \cup Prio
    BY Zenon, <1>0, <2>1 DEF ListsInv, Queued
  <2>3. /\ Pend' = Pend \ {e} /\ Delay' = Delay \ {e}
        /\ prio \in Seq(Ents) /\ Inj(prio) /\ Range(prio) = Prio \ {e}
    BY ZenonT(60), <1>3, QueuesWithout DEF Pend, Delay
  <2>4. tq_prio_list' = InsertById(prio, e, tqent_id)
    BY Zenon, <1>3
  <2> HIDE DEF prio
  <2>5. Prio' = Prio \cup {e}
    <3>1. e \notin Range(prio)
      BY Zenon, <2>3
    <3>2. Range(tq_prio_list') = Range(prio) \cup {e}
      BY SMTT(60), <1>0, <2>3, <2>4, <3>1, InsertFacts
    <3> QED BY Zenon, <2>3, <3>2 DEF Prio
  <2>6. UNCHANGED Queued
    BY Zenon, <2>1, <2>2, <2>3, <2>5 DEF Queued
  <2>7. Quiet
    BY Zenon, <1>1, <2>6 DEF Quiet, Kept, IdsKept, RunsKept
  <2> QED BY Zenon, <1>1, <2>7, QuietStep
<1> QED BY Zenon, <1>2, <1>3 DEF TimerStep, TimerFires, task_expire

\* Every step is one of the promise or leaves it alone.
LEMMA StepImplements ==
  ASSUME Disciplined, IInv, Uniq, [Next]_vars
  PROVE  Implements
<1>1. CASE UNCHANGED vars
  <2>1. UNCHANGED <<lists, ids, pool, ents, workers, cancelled>> /\ UNCHANGED waiting
    BY Zenon, <1>1 DEF vars, waiting
  <2> QED BY Zenon, <2>1, CallQuiet, QuietStep
<1> QED BY Zenon, <1>1, ClientImplements, CallImplements, WorkerImplements, TimerImplements
        DEF Next

-----------------------------------------------------------------------------
(* The theorems.                                                           *)

\* No id ever has two tasks, is both waiting and running, or comes back once
\* it was cancelled: for taskqs without TQ_NOQUEUE and without a cancel that
\* meets a timer being run (spl-taskq.c, the dispatches, taskq_cancel_id, task_expire
\* and taskq_thread).
THEOREM Unique ==
  ASSUME Disciplined PROVE Spec => []UniqInv
<1>1. Init => Uniq
  <2> SUFFICES ASSUME Init PROVE Uniq
    BY Zenon
  <2>1. Queued = {} /\ Active = {} /\ cancelled = {}
    BY DEF Init, Queued, Pend, Prio, Delay, Active, Range
  <2> QED BY Zenon, <2>1 DEF Uniq
<1>2. IInv /\ Uniq /\ [Next]_vars => Uniq'
  BY Zenon, StepImplements DEF Implements
<1>3. IInv /\ Uniq => UniqInv
  BY Zenon, UniqForm
<1> QED BY <1>1, <1>2, <1>3, Inductive, PTL DEF Spec

\* The taskq implements its promise, for any number of clients, threads and
\* entries: ids are given out in order, each task is run at most once and
\* not at all once cancelled, none is lost, and no call of taskq_wait_id,
\* taskq_wait_outstanding, taskq_wait, taskq_cancel_id or taskq_destroy comes
\* back before the tasks it waits for are over.
THEOREM Refines ==
  ASSUME Disciplined PROVE Spec => KeepsPromise
<1>1. Init => Promise!Init
  <2> SUFFICES ASSUME Init PROVE Promise!Init
    BY Zenon
  <2>1. \A n \in 1 .. MaxId : n >= tq_next_id
    BY SMTT(60), NatConstants DEF Init
  <2>2. status = [n \in 1 .. MaxId |-> "unborn"]
    BY Zenon, <2>1 DEF status
  <2>3. \A p \in Procs : call[p] = Idle
    BY Zenon DEF Init
  <2>4. WaitOf(Idle) = Promise!None
    BY Zenon, NoWait DEF Idle
  <2>5. waiting = [p \in Procs |-> Promise!None]
    BY Zenon, <2>3, <2>4 DEF waiting
  <2> QED BY Zenon, <2>2, <2>5 DEF Promise!Init
<1>2. IInv /\ UniqInv /\ [Next]_vars => [Promise!Next]_<<status, waiting>>
  BY Zenon, UniqForm, StepImplements DEF Implements, PromiseStep
<1>3. [Promise!Next]_<<status, waiting>> <=> [Promise!Next]_(Promise!pvars)
  BY Zenon DEF Promise!pvars
<1> QED BY <1>1, <1>2, <1>3, Inductive, Unique, PTL DEF Spec, KeepsPromise, Promise!Spec

=============================================================================
