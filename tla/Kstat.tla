------------------------------- MODULE Kstat --------------------------------
(***************************************************************************)
(* The kstats of module/spl/spl-kstat.c under /proc/spl/kstat: modules are *)
(* directories that exist while they have kstats, and a kstat is a file    *)
(* that is read through a seq_file.  A kstat is created, installed and     *)
(* deleted by its provider; providers of different kstats run at the same  *)
(* time unless Serial.  The proc file system is external: a name that      *)
(* exists cannot be made again, making one can fail, and removing a file   *)
(* waits for the operations that are in progress on it.                    *)
(***************************************************************************)
EXTENDS Integers, Sequences, FiniteSets

CONSTANTS
    Kstats,     \* each created once
    ModuleOf,   \* ModuleOf[k]: ks_module
    NameOf,     \* NameOf[k]: ks_name
    PathOf,     \* PathOf[m]: <<m>>, or <<parent, leaf>> for a module parent/leaf
    Readers,    \* processes that read the files
    Serial,     \* the providers take turns
    RawMax      \* KSTAT_RAW_MAX in pages

\* One module object for every installation there can be.
Modules == 1 .. Cardinality(Kstats)

VARIABLES
    pc,         \* pc[k]: where the provider of k is
    modules,    \* kstat_module_list: the module objects in it
    made,       \* the module objects made so far; those not in the list are freed
    ksm_name,   \* ksm_name[m]
    ksm_list,   \* ksm_kstat_list[m]: the kstats of the module
    ks_owner,   \* ks_owner[k]: the module object, 0 for NULL
    ks_proc,    \* ks_proc[k]: the file has been made
    reader,     \* reader[r]: what it reads and how far it is
    ks_lock     \* ks_lock[k]: the reader that holds it

vars == <<pc, modules, made, ksm_name, ksm_list, ks_owner, ks_proc, reader, ks_lock>>
registry == <<modules, made, ksm_name>>
readers == <<reader, ks_lock>>

NoReader == "nobody"

Idle == [of |-> NoReader, at |-> "idle", bufsize |-> 0, need |-> 0]

Init ==
    /\ pc = [k \in Kstats |-> "new"]
    /\ modules = {} /\ made = 0
    /\ ksm_name = [m \in Modules |-> ""]
    /\ ksm_list = [m \in Modules |-> {}]
    /\ ks_owner = [k \in Kstats |-> 0]
    /\ ks_proc = [k \in Kstats |-> FALSE]
    /\ reader = [r \in Readers |-> Idle]
    /\ ks_lock = [k \in Kstats |-> NoReader]

InCall(k) == pc[k] \notin {"new", "installed", "gone"}

Turn(k) == Serial => \A j \in Kstats \ {k} : ~InCall(j)

------------------------------------------------------------------------------
(* __kstat_install.                                                          *)

kstat_find_module(name) == {m \in modules : ksm_name[m] = name}

\* The kstat of the parent module that has the last part of this module's name.
kstat_detect_collision(k) ==
    LET path == PathOf[ModuleOf[k]]
    IN  /\ Len(path) = 2
        /\ \E m \in kstat_find_module(path[1]) : \E j \in ksm_list[m] : NameOf[j] = path[2]

NameTaken(k, m) == \E j \in ksm_list[m] : NameOf[j] = NameOf[k]

\* The kstat goes on the list of module m and gets its file.
AddKstat(k, m) ==
    /\ ksm_list' = [ksm_list EXCEPT ![m] = @ \cup {k}]
    /\ ks_owner' = [ks_owner EXCEPT ![k] = m]
    /\ ks_proc' = [ks_proc EXCEPT ![k] = TRUE]
    /\ pc' = [pc EXCEPT ![k] = "installed"]

\* The module exists, and no kstat of the name.
InstallOld(k) ==
    /\ pc[k] = "new" /\ Turn(k)
    /\ \E m \in kstat_find_module(ModuleOf[k]) : ~NameTaken(k, m) /\ AddKstat(k, m)
    /\ UNCHANGED <<registry, readers>>

\* The module is made first.
InstallNew(k) ==
    /\ pc[k] = "new" /\ Turn(k)
    /\ kstat_find_module(ModuleOf[k]) = {} /\ ~kstat_detect_collision(k)
    /\ made' = made + 1
    /\ modules' = modules \cup {made'}
    /\ ksm_name' = [ksm_name EXCEPT ![made'] = ModuleOf[k]]
    /\ AddKstat(k, made')
    /\ UNCHANGED readers

\* Nothing is installed: a collision, a taken name, or proc_mkdir failed.
InstallRefused(k) ==
    /\ pc[k] = "new" /\ Turn(k)
    /\ \/ kstat_find_module(ModuleOf[k]) = {}
       \/ \E m \in kstat_find_module(ModuleOf[k]) : NameTaken(k, m)
    /\ pc' = [pc EXCEPT ![k] = "installed"]
    /\ UNCHANGED <<registry, ksm_list, ks_owner, ks_proc, readers>>

\* A failure that deletes the module without a look at its list.
MutInstallFails(k) ==
    /\ pc[k] = "new" /\ Turn(k)
    /\ \E m \in kstat_find_module(ModuleOf[k]) :
          ~NameTaken(k, m) /\ modules' = modules \ {m} /\ ks_owner' = [ks_owner EXCEPT ![k] = m]
    /\ pc' = [pc EXCEPT ![k] = "installed"]
    /\ UNCHANGED <<made, ksm_name, ksm_list, ks_proc, readers>>

\* proc_create_data failed: the kstat leaves the list again, and a module that has
\* become empty, as one made just now has, is deleted.  ks_owner stays.
InstallFails(k) ==
    /\ pc[k] = "new" /\ Turn(k)
    /\ \/ \E m \in kstat_find_module(ModuleOf[k]) :
             /\ ~NameTaken(k, m)
             /\ ks_owner' = [ks_owner EXCEPT ![k] = m]
             /\ modules' = IF ksm_list[m] = {} THEN modules \ {m} ELSE modules
             /\ UNCHANGED <<made, ksm_name>>
       \/ /\ kstat_find_module(ModuleOf[k]) = {} /\ ~kstat_detect_collision(k)
          /\ made' = made + 1
          /\ ksm_name' = [ksm_name EXCEPT ![made'] = ModuleOf[k]]
          /\ ks_owner' = [ks_owner EXCEPT ![k] = made']
          /\ UNCHANGED modules
    /\ pc' = [pc EXCEPT ![k] = "installed"]
    /\ UNCHANGED <<ksm_list, ks_proc, readers>>

------------------------------------------------------------------------------
(* __kstat_delete.                                                           *)

Step(k, from, to) == pc[k] = from /\ pc' = [pc EXCEPT ![k] = to]

\* list_del_init under kstat_module_lock.
DeleteUnlink(k) ==
    /\ Step(k, "installed", IF ks_proc[k] THEN "unlinked" ELSE "free") /\ Turn(k)
    /\ ksm_list' = [m \in Modules |-> ksm_list[m] \ {k}]
    /\ UNCHANGED <<registry, ks_owner, ks_proc, readers>>

\* remove_proc_entry returns when no operation on the file is in progress.
DeleteProc(k) ==
    /\ Step(k, "unlinked", "test")
    /\ \A r \in Readers : reader[r].of # k
    /\ ks_proc' = [ks_proc EXCEPT ![k] = FALSE]
    /\ UNCHANGED <<registry, ksm_list, ks_owner, readers>>

\* "Remove top level module directory if it's empty": the test, without the lock ...
DeleteTest(k) ==
    /\ Step(k, "test", IF ksm_list[ks_owner[k]] = {} THEN "empty" ELSE "free")
    /\ UNCHANGED <<registry, ksm_list, ks_owner, ks_proc, readers>>

\* ... and kstat_delete_module, without the lock.
kstat_delete_module(k) ==
    /\ Step(k, "empty", "free")
    /\ modules' = modules \ {ks_owner[k]}
    /\ UNCHANGED <<made, ksm_name, ksm_list, ks_owner, ks_proc, readers>>

Free(k) ==
    /\ Step(k, "free", "gone")
    /\ UNCHANGED <<registry, ksm_list, ks_owner, ks_proc, readers>>

------------------------------------------------------------------------------
(* Reading a file: kstat_seq_start, _show, _stop.                            *)

\* An operation on the open file begins; need is the room that the provider's raw
\* operation will ask for.
ReadStart(r, k) ==
    /\ reader[r] = Idle /\ ks_proc[k] /\ pc[k] = "installed"
    /\ \E n \in 1 .. RawMax + 1 :
          reader' = [reader EXCEPT ![r] = [of |-> k, at |-> "lock", bufsize |-> 0, need |-> n]]
    /\ UNCHANGED <<pc, registry, ksm_list, ks_owner, ks_proc, ks_lock>>

\* kstat_seq_start: the lock, and a buffer of one page.
ReadLock(r) ==
    /\ reader[r].at = "lock" /\ ks_lock[reader[r].of] = NoReader
    /\ ks_lock' = [ks_lock EXCEPT ![reader[r].of] = r]
    /\ reader' = [reader EXCEPT ![r].at = "show", ![r].bufsize = 1]
    /\ UNCHANGED <<pc, registry, ksm_list, ks_owner, ks_proc>>

\* The provider's operation needs more room: kstat_resize_raw and once more.
ReadResize(r) ==
    /\ reader[r].at = "show" /\ reader[r].bufsize < reader[r].need
    /\ reader[r].bufsize # RawMax
    /\ reader' = [reader EXCEPT ![r].bufsize = IF 2 * @ < RawMax THEN 2 * @ ELSE RawMax]
    /\ UNCHANGED <<pc, registry, ksm_list, ks_owner, ks_proc, ks_lock>>

\* All is shown, or the operation has failed with ENOMEM: kstat_seq_stop.
ReadStop(r) ==
    /\ reader[r].at = "show"
    /\ reader[r].bufsize >= reader[r].need \/ reader[r].bufsize = RawMax
    /\ ks_lock' = [ks_lock EXCEPT ![reader[r].of] = NoReader]
    /\ reader' = [reader EXCEPT ![r] = Idle]
    /\ UNCHANGED <<pc, registry, ksm_list, ks_owner, ks_proc>>

Install(k) == InstallOld(k) \/ InstallNew(k) \/ InstallRefused(k) \/ InstallFails(k)

Delete(k) == DeleteProc(k) \/ DeleteTest(k) \/ kstat_delete_module(k) \/ Free(k)

Reading(r) == ReadLock(r) \/ ReadResize(r) \/ ReadStop(r)

\* spl_kstat_fini, when every kstat is deleted.
spl_kstat_fini == (\A k \in Kstats : pc[k] = "gone") /\ UNCHANGED vars

Next ==
    \/ \E k \in Kstats : Install(k) \/ DeleteUnlink(k) \/ Delete(k)
    \/ \E r \in Readers : Reading(r) \/ \E k \in Kstats : ReadStart(r, k)
    \/ spl_kstat_fini

Spec == Init /\ [][Next]_vars

\* A call that has begun goes on, and a mutex is not kept from a reader for ever.
FairSpec ==
    /\ Spec
    /\ \A k \in Kstats : WF_vars(Delete(k))
    /\ \A r \in Readers : WF_vars(Reading(r)) /\ SF_vars(ReadLock(r))

------------------------------------------------------------------------------
TypeOK ==
    /\ pc \in [Kstats -> {"new", "installed", "unlinked", "test", "empty", "free", "gone"}]
    /\ modules \subseteq 1 .. made /\ made \in 0 .. Cardinality(Kstats)
    /\ ksm_list \in [Modules -> SUBSET Kstats]
    /\ ks_owner \in [Kstats -> 0 .. made]
    /\ ks_proc \in [Kstats -> BOOLEAN]
    /\ \A r \in Readers : reader[r].bufsize \in 0 .. RawMax
    /\ ks_lock \in [Kstats -> Readers \cup {NoReader}]

\* "Only one entry by this name per-module", and one module of a name.
NamesUnique ==
    /\ \A m, n \in modules : ksm_name[m] = ksm_name[n] => m = n
    /\ \A m \in modules : \A j, k \in ksm_list[m] : NameOf[j] = NameOf[k] => j = k

\* The module whose directory holds the file of a kstat has not been freed, whatever
\* other kstats of the module were refused, failed or deleted: __kstat_delete
\* reads it.
OwnersLive == \A k \in Kstats : ks_proc[k] => ks_owner[k] \in modules

\* A module in the list has a kstat, except while its last one is being deleted, so
\* that the list is empty when spl_kstat_fini asserts it.
NoEmptyModule ==
    \A m \in modules :
        \/ ksm_list[m] # {}
        \/ \E k \in Kstats : ks_owner[k] = m /\ pc[k] \in {"unlinked", "test", "empty"}

\* A kstat is not freed while it is being read, and one that is read has one
\* reader at a time between start and stop.
ReadersSafe ==
    \A r \in Readers :
        reader[r].of # NoReader =>
            /\ pc[reader[r].of] \in {"installed", "unlinked"}
            /\ reader[r].at = "show" => ks_lock[reader[r].of] = r

\* __kstat_delete returns, also when it has to wait for readers that resize.
DeleteReturns == \A k \in Kstats : []<>(pc[k] \in {"new", "installed", "gone"})

\* kstat_delete_module asserts list_empty(&module->ksm_kstat_list).
DeletesEmpty == \A k \in Kstats : pc[k] = "empty" => ksm_list[ks_owner[k]] = {}

=============================================================================
