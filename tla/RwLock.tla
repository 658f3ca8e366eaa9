------------------------------- MODULE RwLock -------------------------------
(* The krwlock_t of rwlock.h and spl-rwlock.c: a Linux rw_semaphore with an  *)
(* owner field, rw_tryenter, rw_downgrade and rw_tryupgrade.  The semaphore  *)
(* is external: readers share it, a writer has it alone, and waiters queue   *)
(* in order.                                                                 *)
EXTENDS Naturals, FiniteSets, SequencesExt

CONSTANTS
    Threads,
    Nobody      \* NULL

VARIABLES
    pc,         \* pc[p]: where thread p is
    readers,    \* the threads that hold the semaphore for reading
    writer,     \* the one that holds it for writing
    queue,      \* wait_list: the threads that wait, with what they wait for
    rw_owner    \* the field

vars == <<pc, readers, writer, queue, rw_owner>>

Init ==
    /\ pc = [p \in Threads |-> "out"]
    /\ readers = {}
    /\ writer = Nobody
    /\ queue = <<>>
    /\ rw_owner = Nobody

Goto(p, l) == pc' = [pc EXCEPT ![p] = l]

------------------------------------------------------------------------------
(* The Linux rw_semaphore.                                                   *)

\* The waiters a release lets in: a writer at the front when nobody is left in,
\* or the readers up to the first writer.
FirstReaders(q) == {q[i].by : i \in {k \in DOMAIN q : \A j \in 1..k : q[j].mode = "read"}}

Admit(rs, q) ==
    IF q = <<>> THEN readers' = rs /\ writer' = Nobody /\ queue' = q
    ELSE IF Head(q).mode = "write"
         THEN IF rs = {} THEN readers' = {} /\ writer' = Head(q).by /\ queue' = Tail(q)
                         ELSE readers' = rs /\ writer' = Nobody /\ queue' = q
         ELSE /\ readers' = rs \cup FirstReaders(q)
              /\ writer' = Nobody
              /\ queue' = SelectSeq(q, LAMBDA w : w.by \notin FirstReaders(q))

Wait(p, mode) ==
    /\ queue' = Append(queue, [by |-> p, mode |-> mode])
    /\ UNCHANGED <<readers, writer>>

------------------------------------------------------------------------------
(* rw_enter and rw_tryenter.                                                 *)

MayRead  == writer = Nobody /\ queue = <<>>
MayWrite == writer = Nobody /\ readers = {}

EnterReader(p) ==
    /\ pc[p] = "out"
    /\ IF MayRead THEN readers' = readers \cup {p} /\ UNCHANGED <<writer, queue>>
                  ELSE Wait(p, "read")
    /\ Goto(p, "reader")
    /\ UNCHANGED rw_owner

EnterWriter(p) ==
    /\ pc[p] = "out"
    /\ IF MayWrite THEN writer' = p /\ UNCHANGED <<readers, queue>>
                   ELSE Wait(p, "write")
    /\ Goto(p, "granted")
    /\ UNCHANGED rw_owner

TryEnterReader(p) ==
    /\ pc[p] = "out" /\ MayRead
    /\ readers' = readers \cup {p}
    /\ Goto(p, "reader")
    /\ UNCHANGED <<writer, queue, rw_owner>>

TryEnterWriter(p) ==
    /\ pc[p] = "out" /\ MayWrite /\ queue = <<>>
    /\ writer' = p
    /\ Goto(p, "granted")
    /\ UNCHANGED <<readers, queue, rw_owner>>

\* down_write, or the trylock or upgrade, has succeeded: spl_rw_set_owner.
SetOwner(p) ==
    /\ pc[p] = "granted" /\ writer = p
    /\ rw_owner' = p
    /\ Goto(p, "writer")
    /\ UNCHANGED <<readers, writer, queue>>

------------------------------------------------------------------------------
(* rw_exit, rw_downgrade, rw_tryupgrade.                                     *)

Holds(p) == p \in readers \/ (writer = p /\ pc[p] = "writer")

RW_WRITE_HELD(p) == rw_owner = p
RW_READ_HELD == (readers # {} \/ writer # Nobody) /\ rw_owner = Nobody

\* The branch of rw_exit for a reader.
ExitReader(p) ==
    /\ Holds(p) /\ pc[p] = "reader" /\ ~RW_WRITE_HELD(p)
    /\ Admit(readers \ {p}, queue)
    /\ Goto(p, "out")
    /\ UNCHANGED rw_owner

\* The branch for a writer, by what RW_WRITE_HELD says: the owner is cleared ...
ExitClear(p) ==
    /\ Holds(p) /\ pc[p] = "writer" /\ RW_WRITE_HELD(p)
    /\ rw_owner' = Nobody
    /\ Goto(p, "exiting")
    /\ UNCHANGED <<readers, writer, queue>>

\* ... and then the semaphore is released.
ExitWriter(p) ==
    /\ pc[p] = "exiting"
    /\ Admit({}, queue)
    /\ Goto(p, "out")
    /\ UNCHANGED rw_owner

DowngradeClear(p) ==
    /\ pc[p] = "writer"
    /\ rw_owner' = Nobody
    /\ Goto(p, "downgrading")
    /\ UNCHANGED <<readers, writer, queue>>

Downgrade(p) ==
    /\ pc[p] = "downgrading"
    /\ Admit({p}, queue)
    /\ Goto(p, "reader")
    /\ UNCHANGED rw_owner

\* An upgrade that forgets that there can be other readers.
MutUpgrade(p) ==
    /\ pc[p] = "reader" /\ Holds(p)
    /\ queue = <<>>
    /\ readers' = readers \ {p} /\ writer' = p
    /\ Goto(p, "granted")
    /\ UNCHANGED <<queue, rw_owner>>

\* An upgrade that overwrites the count and with it the mark that there are
\* waiters.
MutUpgradeLosesWaiters(p) ==
    /\ pc[p] = "reader" /\ Holds(p)
    /\ readers = {p}
    /\ readers' = {} /\ writer' = p /\ queue' = <<>>
    /\ Goto(p, "granted")
    /\ UNCHANGED rw_owner

\* rwsem_tryupgrade: the count of a single reader, which no waiter has changed,
\* becomes that of a single writer.  Otherwise nothing happens.
Upgrade(p) ==
    /\ pc[p] = "reader" /\ Holds(p)
    /\ readers = {p} /\ queue = <<>>
    /\ readers' = {} /\ writer' = p
    /\ Goto(p, "granted")
    /\ UNCHANGED <<queue, rw_owner>>

Enter(p) == EnterReader(p) \/ EnterWriter(p) \/ TryEnterReader(p) \/ TryEnterWriter(p)
LeaveReader(p) == ExitReader(p) \/ ExitClear(p)
Leave(p) == LeaveReader(p) \/ ExitWriter(p) \/ Downgrade(p) \/ SetOwner(p)

Next == \E p \in Threads : Enter(p) \/ Leave(p) \/ DowngradeClear(p) \/ Upgrade(p)

Spec == Init /\ [][Next]_vars

\* A thread that has the lock releases it, at the latest after an upgrade or a
\* downgrade.
FairSpec == Spec /\ \A p \in Threads : WF_vars(Leave(p)) /\ SF_vars(LeaveReader(p))

------------------------------------------------------------------------------
TypeOK ==
    /\ pc \in [Threads -> {"out", "reader", "granted", "writer", "exiting", "downgrading"}]
    /\ readers \subseteq Threads
    /\ writer \in Threads \cup {Nobody} /\ rw_owner \in Threads \cup {Nobody}
    /\ queue \in Seq([by : Threads, mode : {"read", "write"}])

\* A writer, also one that got there by rw_tryupgrade, is alone; threads that
\* are let in by a downgrade are readers only.
Exclusive ==
    \A p, q \in Threads :
        p # q /\ pc[p] = "writer" => pc[q] \notin {"writer", "exiting"} /\ q \notin readers

\* rw_exit decides by the owner field which lock it releases: a thread that holds
\* the lock for reading satisfies its assertion, and the one that holds it for
\* writing is the owner.
ExitBranch ==
    \A p \in Threads :
        /\ pc[p] = "reader" /\ p \in readers => RW_READ_HELD /\ ~RW_WRITE_HELD(p)
        /\ pc[p] = "writer" => RW_WRITE_HELD(p) /\ writer = p

Waiting(p) ==
    \/ pc[p] = "reader" /\ p \notin readers
    \/ pc[p] = "granted" /\ writer # p

\* Upgrades and downgrades lose no waiter, and readers that all try to upgrade do
\* not wait for each other: a thread that waits for the lock gets it.
WaitersServed == \A p \in Threads : []<>~Waiting(p)

=============================================================================
