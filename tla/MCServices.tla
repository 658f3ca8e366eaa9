----------------------------- MODULE MCServices -----------------------------
(* Thread specific data, kstats and their queue statistics, file objects,    *)
(* files of the kernel, kmem_alloc, the list of taskqs and the load of the   *)
(* module, each a system of its own that starts in its initial state; a      *)
(* behaviour runs the one that part names and leaves the others there.       *)
(* "vnode faulty", "alloc track", "alloc debug" and "init faulty" are the    *)
(* same systems with more failures or in another build.  Model values are    *)
(* shared between the systems: Three stands for key variables or taskqs, Two *)
(* for threads, descriptors, callers or walkers, Other for files or          *)
(* addresses of kmalloc.                                                     *)
EXTENDS KstatQueue, TLC

CONSTANTS Three, Two, Other, VAddrs, TSD_KEYS_MAX, None, MaxRef, Sizes, spl_kmem_alloc_max,
          MaxLoads, MaxInstance, RawMax, kx, ky, kz, kc

VARIABLES
    hash, key_list, pid_list, ht_key, keyp, tsd_call, owed, loaded,
    ks_pc, modules, made, ksm_name, ksm_list, ks_owner, ks_proc, reader, ks_lock,
    open, refs, file_list, cache, f_ref, f_fd, f_file, vn_held, getf, crashed,
    alloc_busy, alloc_held, kmem_alloc_used, kmem_alloc_max, kmem_table, nodes, alloc_call, failed,
    mode, at, got, res, uses, loads,
    sharing, umask, gfp, filps, vn_cache, v_file, v_gfp_mask, bufs, vn_call, vn_open, fstrans, wanted,
    tq_list, state, tq_name, tq_instance, readers, walk,
    part

Vnodes == {"vnode", "vnode faulty"}
Allocs == {"alloc", "alloc debug", "alloc track"}
Loads  == {"init", "init faulty"}
AllParts == {"tsd", "kstat", "queue", "files", "list"} \cup Vnodes \cup Allocs \cup Loads

T == INSTANCE Tsd WITH
    Threads <- Two, Slots <- Three, DTOR_PID <- None, SharedSlots <- FALSE, ByThread <- FALSE,
    call <- tsd_call

\* Two kstats x and y of module a, a third one that wants the name x as well, and one in
\* module a/y, which collides with kstat y.
K == INSTANCE Kstat WITH
    Kstats <- {kx, ky, kz, kc}, Readers <- {}, Serial <- TRUE,
    ModuleOf <- [k \in {kx, ky, kz, kc} |-> IF k = kc THEN "a/y" ELSE "a"],
    NameOf <- [k \in {kx, ky, kz, kc} |-> IF k = ky THEN "y" ELSE "x"],
    PathOf <- [m \in {"a", "a/y"} |-> IF m = "a" THEN <<"a">> ELSE <<"a", "y">>],
    pc <- ks_pc

V(c) == INSTANCE VnodeFile WITH
    Fds <- Two, Files <- Other, Objs <- {"o1", "o2"},
    MayFail <- (c # "vnode"), MayClose <- (c # "vnode"), held <- vn_held

A(c) == INSTANCE KmemAlloc WITH
    Callers <- Two, KAddrs <- Other, MayFail <- TRUE,
    Debug <- (c # "alloc"), Tracking <- (c = "alloc track"),
    busy <- alloc_busy, held <- alloc_held, call <- alloc_call

\* Registering a shrinker and setting up a lock cannot fail.  "init" leaves out the
\* failures that the init functions do not look for.
L(c) == INSTANCE SplInit WITH
    Reliable <- {"shrinker", "kstat_module_lock"}
                    \cup (IF c = "init" THEN {"spl_kmem_cache_taskq", "vn_cache", "vn_file_cache"}
                          ELSE {})

F == INSTANCE VnodeOps WITH
    Threads <- Two, Paths <- Other, Vnodes <- {"v1", "v2"}, Sharings <- {"none", "fs", "path"},
    call <- vn_call, held <- vn_open

Q == INSTANCE TaskqList WITH
    Taskqs <- Three \cup {"system"}, system_taskq <- "system", ListHead <- None,
    Names <- {"a", "b"}, Walkers <- Two

tsd == <<hash, key_list, pid_list, ht_key, keyp, tsd_call, owed, loaded>>
kst == <<ks_pc, modules, made, ksm_name, ksm_list, ks_owner, ks_proc, reader, ks_lock>>
vno == <<open, refs, file_list, cache, f_ref, f_fd, f_file, vn_held, getf, crashed>>
alc == <<alloc_busy, alloc_held, kmem_alloc_used, kmem_alloc_max, kmem_table, nodes, alloc_call,
         failed>>
ini == <<mode, at, got, res, uses, loads>>
fil == <<sharing, umask, gfp, filps, vn_cache, v_file, v_gfp_mask, bufs, vn_call, vn_open, fstrans,
         wanted>>
lst == <<tq_list, state, tq_name, tq_instance, readers, walk>>

\* A part that does not run has one initial state.
AllInit ==
    \E c \in AllParts :
        /\ part = c
        /\ c \notin Vnodes => open = [fd \in Two |-> None]
        /\ c # "queue" => now = 0
        /\ c # "files" => sharing = "none" /\ wanted = [t \in Two |-> FALSE]
        /\ c # "list" => tq_name = [q \in Three \cup {"system"} |-> "a"]
        /\ T!Init /\ K!Init /\ Init /\ V(c)!Init /\ A(c)!Init /\ L(c)!Init
        /\ F!Init /\ Q!Init

AllNext ==
    \/ part = "tsd" /\ T!Next /\ UNCHANGED <<kst, vars, vno, alc, ini, fil, lst, part>>
    \/ part = "kstat" /\ K!Next /\ UNCHANGED <<tsd, vars, vno, alc, ini, fil, lst, part>>
    \/ part = "queue" /\ Next /\ UNCHANGED <<tsd, kst, vno, alc, ini, fil, lst, part>>
    \/ part = "files" /\ F!Next /\ UNCHANGED <<tsd, kst, vars, vno, alc, ini, lst, part>>
    \/ part = "list" /\ Q!Next /\ UNCHANGED <<tsd, kst, vars, vno, alc, ini, fil, part>>
    \/ \E c \in Vnodes :
          part = c /\ V(c)!Next /\ UNCHANGED <<tsd, kst, vars, alc, ini, fil, lst, part>>
    \/ \E c \in Allocs :
          part = c /\ A(c)!Next /\ UNCHANGED <<tsd, kst, vars, vno, ini, fil, lst, part>>
    \/ \E c \in Loads :
          part = c /\ L(c)!Next /\ UNCHANGED <<tsd, kst, vars, vno, alc, fil, lst, part>>

AllSpec == AllInit /\ [][AllNext]_<<tsd, kst, vars, vno, alc, ini, fil, lst, part>>

Symmetry == Permutations(Three) \cup Permutations(Two)

------------------------------------------------------------------------------
\* The lists that tsd_destroy and tsd_exit walk hold exactly the data in the hash table,
\* a datum meets its destructor once, also when tsd_destroy of its key races with
\* tsd_exit of its thread, and a key that nobody destroys stays.
TsdExact == part = "tsd" => T!TypeOK /\ T!Anchored /\ T!DtorOnce /\ T!SlotsValid

\* The registry of kstats is sound, whatever other kstats of a module were refused,
\* failed or deleted: names are unique, the module whose directory holds the file of a
\* kstat has not been freed, and a module has a kstat except while its last one goes.
KstatRegistry == part = "kstat" => K!TypeOK /\ K!NamesUnique /\ K!OwnersLive /\ K!NoEmptyModule

\* The references to a struct file are those of the file_t objects that point to it and
\* of the vn_getf in progress, whichever way vn_getf fails and whatever user space does
\* with the descriptor; without failures a descriptor has one file_t, which counts its
\* callers and is freed with the last of them.
VnodeRefsExact ==
    /\ \A c \in Vnodes : part = c => V(c)!TypeOK /\ V(c)!FileRefsExact
    /\ part = "vnode" => V("vnode")!RefsExact

\* vn_open, vn_close, kobj_open_file and hostid_read leave no struct file, vnode or
\* _buf_t behind, whichever step fails, and the umask, the PF_FSTRANS flag and the
\* allocation mask of the file as they were, except where callers share the fs_struct
\* or the file.
FilesExact == part = "files" => F!TypeOK /\ F!FilesOwned /\ F!PutBack

\* Readers of /proc and the kick of all taskqs look at taskqs that are on tq_list and
\* alive, though taskqs are created and destroyed between two reads and the list gets
\* shorter than the position reached; and no two listed taskqs have name and instance
\* in common.
TaskqListExact == part = "list" => Q!WalksAlive /\ Q!InstancesUnique

\* An allocation that is held or being freed has one record, of its size, though the
\* address may be given out again at any time after it is freed; with no call in
\* progress the accounting, the records and the memory taken are what callers hold; and
\* unless allocations are tracked a KM_SLEEP request gets its memory.
AllocExact ==
    \A c \in Allocs : part = c =>
        /\ A(c)!TypeOK /\ A(c)!TrackExact /\ A(c)!QuietExact
        /\ c # "alloc track" => A(c)!SleepSucceeds

\* A module that is out, unloaded or refused at whatever step, leaves nothing behind, and
\* while a resource is created or destroyed what that relies on is up, for the failures
\* that the init functions look for.
LoadClean ==
    /\ \A c \in Loads : part = c => L(c)!TypeOK /\ L(c)!Clean
    /\ part = "init" => L("init")!Supported

=============================================================================
