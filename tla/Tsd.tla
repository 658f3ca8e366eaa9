-------------------------------- MODULE Tsd ---------------------------------
(***************************************************************************)
(* Thread specific data, module/spl/spl-tsd.c.  The hash table holds three *)
(* kinds of entries: a 'key' entry <<k, DTOR_PID>> for each key, a 'pid'   *)
(* entry <<PID_KEY, t>> for each thread with data, and an entry <<k, t>>   *)
(* for each datum, which is linked to both.  What a critical section of    *)
(* ht_lock or hb_lock does is one step; the destructors run after it, one  *)
(* at a time.  A datum is set or it is not: its value is left out.         *)
(***************************************************************************)
EXTENDS Integers, FiniteSets, FiniteSetsExt

CONSTANTS
    Threads,        \* the pids that use thread specific data
    Slots,          \* the callers' key variables, 0 until tsd_create sets them
    TSD_KEYS_MAX,
    DTOR_PID,       \* a pid that no thread has
    SharedSlots,    \* two threads may destroy the same key variable at a time
    ByThread        \* tsd_get_by_thread of another thread is in use

PID_KEY == TSD_KEYS_MAX + 1

Keys == 1 .. PID_KEY

VARIABLES
    hash,       \* the entries in the hash table
    key_list,   \* key_list[k]: he_key_list of the 'key' entry of k
    pid_list,   \* pid_list[t]: he_pid_list of the 'pid' entry of t
    ht_key,     \* the key given out last
    keyp,       \* keyp[s]: the key in slot s
    call,       \* call[t]: what thread t is doing
    owed,       \* owed[e]: data of e that have not met their destructor yet
    loaded      \* spl_tsd_fini has not been called

vars == <<hash, key_list, pid_list, ht_key, keyp, call, owed, loaded>>
table == <<hash, key_list, pid_list>>

Data == Keys \X Threads

Idle == [op |-> "idle"]

Init ==
    /\ hash = {}
    /\ key_list = [k \in Keys |-> {}]
    /\ pid_list = [t \in Threads |-> {}]
    /\ ht_key = 1
    /\ keyp = [s \in Slots |-> 0]
    /\ call = [t \in Threads |-> Idle]
    /\ owed = [e \in Data |-> 0]
    /\ loaded = TRUE

------------------------------------------------------------------------------
(* The caller's duties: "Caller must prevent racing tsd_create() or          *)
(* tsd_destroy()" with tsd_set() and tsd_get().                              *)

Using(t) == call[t].op \in {"pid", "add", "del", "read"} \/ (call[t].op = "dtor" /\ call[t].by = "set")

Destroying(t, s) == call[t].op = "dtor" /\ call[t].by = "destroy" /\ call[t].slot = s

MayUse == \A t \in Threads, s \in Slots : ~Destroying(t, s)

MayManage == \A t \in Threads : ~Using(t)

------------------------------------------------------------------------------
(* The hash table.                                                           *)

\* tsd_hash_del of each of the entries E.
tsd_hash_del(E) ==
    /\ hash' = hash \ E
    /\ key_list' = [k \in Keys |-> key_list[k] \ E]
    /\ pid_list' = [t \in Threads |-> pid_list[t] \ E]

\* The entries E are taken out of the table and go to a private work list, for
\* tsd_hash_dtor after the unlock.
Unlink(t, E, by, s) ==
    /\ tsd_hash_del(E)
    /\ call' = [call EXCEPT ![t] = [op |-> "dtor", work |-> E, by |-> by, slot |-> s]]

\* tsd_hash_dtor that also takes the 'key' entries for data.
Mut_tsd_hash_dtor(t) ==
    /\ call[t].op = "dtor"
    /\ \E e \in call[t].work :
          /\ call' = [call EXCEPT ![t].work = @ \ {e}]
          /\ owed' = [owed EXCEPT ![<<e[1], t>>] = @ - 1]
    /\ UNCHANGED <<table, ht_key, keyp, loaded>>

\* One round of the loop of tsd_hash_dtor: the destructor, then the free.
tsd_hash_dtor(t) ==
    /\ call[t].op = "dtor"
    /\ \E e \in call[t].work :
          /\ call' = [call EXCEPT ![t].work = @ \ {e}]
          /\ owed' = IF e \in Data /\ e[1] # PID_KEY THEN [owed EXCEPT ![e] = @ - 1] ELSE owed
    /\ UNCHANGED <<table, ht_key, keyp, loaded>>

\* The work list is empty: the call returns, tsd_destroy with its slot cleared.
Return(t) ==
    /\ call[t].op = "dtor" /\ call[t].work = {}
    /\ call' = [call EXCEPT ![t] = Idle]
    /\ keyp' = IF call[t].by = "destroy" THEN [keyp EXCEPT ![call[t].slot] = 0] ELSE keyp
    /\ UNCHANGED <<table, ht_key, owed, loaded>>

------------------------------------------------------------------------------
(* Keys.                                                                     *)

\* The n-th candidate after k of "if (ht_key++ > TSD_KEYS_MAX) ht_key = 1".
Candidate(k, n) == ((k - 1 + n) % (TSD_KEYS_MAX + 1)) + 1

InUse(k) == <<k, DTOR_PID>> \in hash

\* tsd_create: an allocation that fails changes nothing, and a key is only
\* looked for when the slot holds none.
tsd_create(t, s) ==
    /\ loaded /\ MayManage
    /\ call[t] = Idle /\ keyp[s] = 0
    /\ LET free == {n \in 1 .. TSD_KEYS_MAX : ~InUse(Candidate(ht_key, n))}
           n    == IF free = {} THEN TSD_KEYS_MAX + 1 ELSE Min(free)
           key  == Candidate(ht_key, n)
       IN  /\ ht_key' = key
           /\ IF free = {}
              THEN UNCHANGED <<hash, keyp>>
              ELSE /\ keyp' = [keyp EXCEPT ![s] = key]
                   /\ hash' = hash \cup {<<key, DTOR_PID>>}
    /\ UNCHANGED <<key_list, pid_list, call, owed, loaded>>

\* tsd_destroy up to the unlock; it does nothing when the key is not there.
tsd_destroy(t, s) ==
    /\ loaded /\ MayManage
    /\ call[t] = Idle /\ keyp[s] # 0
    /\ SharedSlots \/ \A u \in Threads : ~Destroying(u, s)
    /\ InUse(keyp[s])
    /\ Unlink(t, key_list[keyp[s]] \cup {<<keyp[s], DTOR_PID>>}, "destroy", s)
    /\ UNCHANGED <<ht_key, keyp, owed, loaded>>

------------------------------------------------------------------------------
(* Data.                                                                     *)

Usable(s) == keyp[s] \in 1 .. TSD_KEYS_MAX

Search(k, t) == <<k, t>> \in hash

\* tsd_set of a new datum: is there a 'pid' entry?
tsd_set(t, s) ==
    /\ loaded /\ MayUse
    /\ call[t] = Idle /\ Usable(s) /\ ~Search(keyp[s], t)
    /\ call' = [call EXCEPT ![t] =
                   [op |-> IF Search(PID_KEY, t) THEN "add" ELSE "pid", key |-> keyp[s]]]
    /\ UNCHANGED <<table, ht_key, keyp, owed, loaded>>

\* tsd_set of NULL: the entry is found and is to be removed.
tsd_set_null(t, s) ==
    /\ loaded /\ MayUse
    /\ call[t] = Idle /\ Usable(s) /\ Search(keyp[s], t)
    /\ call' = [call EXCEPT ![t] = [op |-> "del", key |-> keyp[s]]]
    /\ UNCHANGED <<table, ht_key, keyp, owed, loaded>>

\* ENOMEM from tsd_hash_add_pid or tsd_hash_add; a 'pid' entry stays.
NoMemory(t) ==
    /\ call[t].op \in {"pid", "add"}
    /\ call' = [call EXCEPT ![t] = Idle]
    /\ UNCHANGED <<table, ht_key, keyp, owed, loaded>>

tsd_hash_add_pid(t) ==
    /\ call[t].op = "pid"
    /\ hash' = hash \cup {<<PID_KEY, t>>}
    /\ call' = [call EXCEPT ![t].op = "add"]
    /\ UNCHANGED <<key_list, pid_list, ht_key, keyp, owed, loaded>>

tsd_hash_add(t) ==
    /\ call[t].op = "add"
    /\ LET e == <<call[t].key, t>>
       IN  /\ hash' = hash \cup {e}
           /\ key_list' = [key_list EXCEPT ![call[t].key] = @ \cup {e}]
           /\ pid_list' = [pid_list EXCEPT ![t] = @ \cup {e}]
           /\ owed' = [owed EXCEPT ![e] = @ + 1]
    /\ call' = [call EXCEPT ![t] = Idle]
    /\ UNCHANGED <<ht_key, keyp, loaded>>

\* The entry next to the removed one on the list of the thread is its 'pid' entry
\* with an empty list when the removed one was alone there.
tsd_remove_entry(t) ==
    /\ call[t].op = "del"
    /\ LET e == <<call[t].key, t>>
       IN  Unlink(t, {e} \cup (IF pid_list[t] = {e} THEN {<<PID_KEY, t>>} ELSE {}), "set", 0)
    /\ UNCHANGED <<ht_key, keyp, owed, loaded>>

\* tsd_exit: all data of the thread and its 'pid' entry.  Its caller prevents
\* racing tsd_get()s.
tsd_exit(t) ==
    /\ loaded
    /\ call[t] = Idle /\ Search(PID_KEY, t)
    /\ \A u \in Threads : call[u].op # "read"
    /\ Unlink(t, pid_list[t] \cup {<<PID_KEY, t>>}, "exit", 0)
    /\ UNCHANGED <<ht_key, keyp, owed, loaded>>

\* tsd_get, and tsd_get_by_thread of u's datum: the search under hb_lock ...
tsd_get(t, u, s) ==
    /\ loaded /\ MayUse
    /\ u = t \/ ByThread
    /\ call[t] = Idle /\ Usable(s) /\ Search(keyp[s], u)
    /\ \A v \in Threads : ~(call[v].op = "dtor" /\ call[v].by = "exit")
    /\ call' = [call EXCEPT ![t] = [op |-> "read", entry |-> <<keyp[s], u>>]]
    /\ UNCHANGED <<table, ht_key, keyp, owed, loaded>>

\* ... and the read of he_value without it.
Read(t) ==
    /\ call[t].op = "read"
    /\ call' = [call EXCEPT ![t] = Idle]
    /\ UNCHANGED <<table, ht_key, keyp, owed, loaded>>

\* spl_tsd_fini, when nobody uses the module any more: every entry meets
\* tsd_hash_dtor.
spl_tsd_fini(t) ==
    /\ loaded
    /\ \A u \in Threads : call[u] = Idle
    /\ loaded' = FALSE
    /\ Unlink(t, hash, "fini", 0)
    /\ UNCHANGED <<ht_key, keyp, owed>>

Next ==
    \E t \in Threads :
        \/ \E s \in Slots : tsd_create(t, s) \/ tsd_destroy(t, s) \/ tsd_set(t, s) \/ tsd_set_null(t, s)
        \/ \E s \in Slots, u \in Threads : tsd_get(t, u, s)
        \/ NoMemory(t) \/ tsd_hash_add_pid(t) \/ tsd_hash_add(t) \/ tsd_remove_entry(t)
        \/ tsd_exit(t) \/ Read(t) \/ spl_tsd_fini(t) \/ tsd_hash_dtor(t) \/ Return(t)

Spec == Init /\ [][Next]_vars

------------------------------------------------------------------------------
Entries == Data \cup (Keys \X {DTOR_PID})

Working(t) == IF call[t].op = "dtor" THEN call[t].work ELSE {}

TypeOK ==
    /\ hash \subseteq Entries
    /\ key_list \in [Keys -> SUBSET Data] /\ pid_list \in [Threads -> SUBSET Data]
    /\ ht_key \in Keys
    /\ keyp \in [Slots -> 0 .. PID_KEY]
    /\ \A t \in Threads : Working(t) \subseteq Entries
    /\ loaded \in BOOLEAN

\* "Destructor entry must exist for all valid keys", "Process entry must exist for
\* all valid processes", and both are linked to exactly their data: what
\* tsd_destroy and tsd_exit walk is what the hash table holds, whoever removed
\* entries before them.
Anchored ==
    LET data == {e \in hash : e[1] # PID_KEY /\ e[2] # DTOR_PID}
    IN  /\ \A e \in data : <<e[1], DTOR_PID>> \in hash /\ <<PID_KEY, e[2]>> \in hash
        /\ \A k \in Keys : key_list[k] = {e \in data : e[1] = k}
        /\ \A t \in Threads : pid_list[t] = {e \in data : e[2] = t}

\* A datum meets its destructor once: when it is no longer in the hash table, it is
\* on the work list of one call, and after that nothing is owed to it.  This
\* covers tsd_destroy of its key racing with tsd_exit of its thread, and
\* spl_tsd_fini.
DtorOnce ==
    \A e \in Data :
        e[1] # PID_KEY =>
            owed[e] = (IF e \in hash THEN 1 ELSE 0) + Cardinality({t \in Threads : e \in Working(t)})

\* tsd_destroy "is safe from racing tsd_create(), tsd_destroy(), and tsd_exit()": a
\* key that nobody destroys through its slot stays.
SlotsValid ==
    \A s \in Slots :
        loaded /\ keyp[s] # 0 /\ (\A t \in Threads : ~Destroying(t, s)) => InUse(keyp[s])

\* tsd_hash_add_key: "Limited to TSD_KEYS_MAX concurrent unique keys".
KeysLimited == Cardinality({k \in Keys : InUse(k)}) <= TSD_KEYS_MAX

\* tsd_get_by_thread reads an entry that has not been freed, when its "Caller must
\* prevent racing tsd_create() or tsd_destroy()" is met.
ReadsAlive ==
    \A t \in Threads :
        call[t].op = "read" =>
            call[t].entry \in hash \/ \E u \in Threads : call[t].entry \in Working(u)

=============================================================================
