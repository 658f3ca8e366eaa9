------------------------------ MODULE VnodeOps ------------------------------
(***************************************************************************)
(* Files opened by the kernel: vn_open, vn_close and vn_fsync of           *)
(* module/spl/spl-vnode.c, the _buf_t files of spl-kobj.c on top of them,  *)
(* and zone_get_hostid of spl-generic.c on top of those.  Three pieces of  *)
(* state that do not belong to a call are changed and put back by it: the  *)
(* umask of the thread's fs_struct, the allocation mask of the file's page *)
(* cache, and the PF_FSTRANS flag of the thread.                           *)
(***************************************************************************)
EXTENDS Integers, FiniteSets

CONSTANTS
    Threads, Paths,     \* a path is a file with its page cache
    Vnodes, None,
    Sharings            \* what callers share, a subset of {"none", "fs", "path"}:
                        \* the threads have one fs_struct (CLONE_FS), or a file may
                        \* be opened again while it is open

VARIABLES
    sharing,    \* of Sharings, for ever
    umask,      \* umask[t]: of the fs_struct of t; TRUE when it is the user's
    gfp,        \* gfp[f]: "full", or "nofs" without __GFP_IO and __GFP_FS
    filps,      \* filps[f]: the struct files open on f
    vn_cache,   \* the vnodes that are free
    v_file, v_gfp_mask,
    bufs,       \* the _buf_t allocated
    call,       \* call[t]: the call in progress
    held,       \* held[t]: the vnode that t has open
    fstrans,    \* fstrans[t]: PF_FSTRANS, and
    wanted      \* what t has set it to

shared == <<umask, gfp, filps>>
objects == <<vn_cache, v_file, v_gfp_mask, bufs>>
flags == <<fstrans, wanted, sharing>>
vars == <<shared, objects, call, held, flags>>

\* by: who has called vn_open. got: whether filp_open gave a file.
Idle == [pc |-> "idle", by |-> None, path |-> None, creat |-> FALSE, saved |-> TRUE,
         got |-> FALSE, vp |-> None, mask |-> "full"]

Callers == {"user", "kobj", "hostid"}

Init ==
    /\ sharing \in Sharings
    /\ umask = [t \in Threads |-> TRUE]
    /\ gfp = [f \in Paths |-> "full"]
    /\ filps = [f \in Paths |-> 0]
    /\ vn_cache = Vnodes
    /\ v_file = [v \in Vnodes |-> None]
    /\ v_gfp_mask = [v \in Vnodes |-> "full"]
    /\ bufs = 0
    /\ call = [t \in Threads |-> Idle]
    /\ held = [t \in Threads |-> [vp |-> None, by |-> None]]
    /\ wanted \in [Threads -> BOOLEAN] /\ fstrans = wanted

Go(t, pc) == call' = [call EXCEPT ![t].pc = pc]

\* xchg of current->fs->umask.
SetUmask(t, u) == umask' = [s \in Threads |-> IF s = t \/ sharing = "fs" THEN u ELSE umask[s]]

InUse(f) ==
    \/ \E v \in Vnodes \ vn_cache : v_file[v] = f
    \/ \E t \in Threads : call[t].path = f

------------------------------------------------------------------------------
(* vn_open.                                                                  *)

\* By its caller, of whom kobj_open_file has allocated a _buf_t, and hostid_read
\* comes through kobj_open_file.
vn_open(t, by, f, creat) ==
    /\ call[t] = Idle /\ held[t].vp = None
    /\ sharing = "path" \/ ~InUse(f)
    /\ by # "user" => ~creat
    /\ bufs' = bufs + (IF by = "user" THEN 0 ELSE 1)
    /\ call' = [call EXCEPT ![t] = [Idle EXCEPT
          !.pc = "open", !.by = by, !.path = f, !.creat = creat, !.saved = umask[t]]]
    /\ IF creat THEN SetUmask(t, FALSE) ELSE UNCHANGED umask
    /\ UNCHANGED <<gfp, filps, vn_cache, v_file, v_gfp_mask, held, flags>>

filp_open(t) ==
    /\ call[t].pc = "open"
    /\ \E ok \in BOOLEAN :
          /\ call' = [call EXCEPT ![t].pc = "opened", ![t].got = ok]
          /\ filps' = [filps EXCEPT ![call[t].path] = @ + (IF ok THEN 1 ELSE 0)]
    /\ UNCHANGED <<umask, gfp, objects, held, flags>>

\* The error return of vn_open, and with it of kobj_open_file, which frees its
\* _buf_t, of hostid_read and of zone_get_hostid, which returns 0.
Fails(t) ==
    /\ call' = [call EXCEPT ![t] = Idle]
    /\ bufs' = bufs - (IF call[t].by = "user" THEN 0 ELSE 1)

\* The error is looked at before the umask comes back.
MutUmaskBack(t) ==
    /\ call[t].pc = "opened"
    /\ IF call[t].creat /\ call[t].got THEN SetUmask(t, call[t].saved) ELSE UNCHANGED umask
    /\ IF call[t].got
       THEN Go(t, "attr") /\ UNCHANGED bufs
       ELSE Fails(t)
    /\ UNCHANGED <<gfp, filps, vn_cache, v_file, v_gfp_mask, held, flags>>

\* The umask comes back before the error is looked at.
UmaskBack(t) ==
    /\ call[t].pc = "opened"
    /\ IF call[t].creat THEN SetUmask(t, call[t].saved) ELSE UNCHANGED umask
    /\ IF call[t].got
       THEN Go(t, "attr") /\ UNCHANGED bufs
       ELSE Fails(t)
    /\ UNCHANGED <<gfp, filps, vn_cache, v_file, v_gfp_mask, held, flags>>

\* vfs_getattr or vn_alloc fails, and the file is closed.
OpenFails(t) ==
    /\ call[t].pc = "attr"
    /\ filps' = [filps EXCEPT ![call[t].path] = @ - 1]
    /\ Fails(t)
    /\ UNCHANGED <<umask, gfp, vn_cache, v_file, v_gfp_mask, held, flags>>

\* The vnode, and the allocation mask as it is.
Opened(t) ==
    /\ call[t].pc = "attr"
    /\ \E v \in vn_cache :
          /\ vn_cache' = vn_cache \ {v}
          /\ v_file' = [v_file EXCEPT ![v] = None]
          /\ call' = [call EXCEPT
                ![t].pc = "mask", ![t].vp = v, ![t].mask = gfp[call[t].path]]
    /\ UNCHANGED <<shared, v_gfp_mask, bufs, held, flags>>

\* The mask is reduced, and the vnode is the caller's.
Publish(t) ==
    /\ call[t].pc = "mask"
    /\ gfp' = [gfp EXCEPT ![call[t].path] = "nofs"]
    /\ v_file' = [v_file EXCEPT ![call[t].vp] = call[t].path]
    /\ v_gfp_mask' = [v_gfp_mask EXCEPT ![call[t].vp] = call[t].mask]
    /\ held' = [held EXCEPT ![t] = [vp |-> call[t].vp, by |-> call[t].by]]
    /\ call' = [call EXCEPT ![t] = [Idle EXCEPT
          !.pc = IF call[t].by = "hostid" THEN "size" ELSE "idle"]]
    /\ UNCHANGED <<umask, filps, vn_cache, bufs, flags>>

------------------------------------------------------------------------------
(* vn_close, and kobj_close_file, which calls it and frees the _buf_t.       *)

\* What is left in a freed vnode is not looked at: vn_open sets it anew.
vn_close(t) ==
    /\ gfp' = [gfp EXCEPT ![v_file[held[t].vp]] = v_gfp_mask[held[t].vp]]
    /\ filps' = [filps EXCEPT ![v_file[held[t].vp]] = @ - 1]
    /\ vn_cache' = vn_cache \cup {held[t].vp}
    /\ bufs' = bufs - (IF held[t].by = "user" THEN 0 ELSE 1)
    /\ held' = [held EXCEPT ![t] = [vp |-> None, by |-> None]]
    /\ v_file' = [v_file EXCEPT ![held[t].vp] = None]
    /\ v_gfp_mask' = [v_gfp_mask EXCEPT ![held[t].vp] = "full"]
    /\ UNCHANGED umask

Close(t) ==
    /\ call[t] = Idle /\ held[t].vp # None
    /\ vn_close(t)
    /\ UNCHANGED <<call, flags>>

------------------------------------------------------------------------------
(* vn_fsync, and the hole punched by vn_space, which treats the flag alike.  *)

Fsync(t) ==
    /\ call[t] = Idle /\ held[t].by = "user"
    /\ call' = [call EXCEPT ![t] = [Idle EXCEPT !.pc = "sync", !.saved = fstrans[t]]]
    /\ fstrans' = [fstrans EXCEPT ![t] = FALSE]
    /\ UNCHANGED <<shared, objects, held, wanted, sharing>>

\* The flag is set again only if it was set.
Fsynced(t) ==
    /\ call[t].pc = "sync"
    /\ call' = [call EXCEPT ![t] = Idle]
    /\ fstrans' = [fstrans EXCEPT ![t] = @ \/ call[t].saved]
    /\ UNCHANGED <<shared, objects, held, wanted, sharing>>

------------------------------------------------------------------------------
(* hostid_read, by zone_get_hostid when the module option is not set.        *)

\* hostid_read leaves with the file closed.
Leave(t) ==
    /\ vn_close(t)
    /\ call' = [call EXCEPT ![t] = Idle]
    /\ UNCHANGED flags

\* kobj_get_filesize fails, or the file has less than the four bytes of a hostid.
HostidTooShort(t) == call[t].pc = "size" /\ Leave(t)

HostidSize(t) ==
    /\ call[t].pc = "size"
    /\ Go(t, "read")
    /\ UNCHANGED <<shared, objects, held, flags>>

\* "Short reads are okay"; after an error, too, the file is closed.
HostidRead(t) == call[t].pc = "read" /\ Leave(t)

Next ==
    \E t \in Threads :
        \/ \E by \in Callers, f \in Paths, creat \in BOOLEAN : vn_open(t, by, f, creat)
        \/ filp_open(t) \/ UmaskBack(t) \/ OpenFails(t) \/ Opened(t) \/ Publish(t)
        \/ Close(t) \/ Fsync(t) \/ Fsynced(t)
        \/ HostidTooShort(t) \/ HostidSize(t) \/ HostidRead(t)

Spec == Init /\ [][Next]_vars

------------------------------------------------------------------------------
TypeOK ==
    /\ umask \in [Threads -> BOOLEAN]
    /\ gfp \in [Paths -> {"full", "nofs"}]
    /\ filps \in [Paths -> Nat] /\ bufs \in Nat
    /\ vn_cache \subseteq Vnodes
    /\ v_file \in [Vnodes -> Paths \cup {None}]

\* Whichever step of vn_open or of a caller of it fails, the struct files, the vnodes
\* and the _buf_t in being are those of the files that threads hold and of the calls
\* in progress: nothing is leaked on an error path and nothing is closed twice.
FilesOwned ==
    /\ \A f \in Paths :
          filps[f] = Cardinality({t \in Threads : held[t].vp # None /\ v_file[held[t].vp] = f})
                         + Cardinality({t \in Threads : call[t].path = f /\ call[t].got})
    /\ Vnodes \ vn_cache = UNION {{held[t].vp, call[t].vp} : t \in Threads} \ {None}
    /\ \A t, u \in Threads : t # u /\ held[t].vp # None => held[t].vp # held[u].vp
    /\ bufs = Cardinality({t \in Threads : {held[t].by, call[t].by} \cap {"kobj", "hostid"} # {}})

\* A thread that is in no call has the umask and the PF_FSTRANS flag it had before,
\* as long as no other thread has its fs_struct.  A file that nobody has open has its
\* allocation mask back, and reads, writes and fsync of an open one never run with a
\* page cache that may enter the file system to reclaim memory, as long as no file
\* is opened twice.
PutBack ==
    /\ \A t \in Threads :
          /\ call[t].pc # "sync" => fstrans[t] = wanted[t]
          /\ sharing # "fs" =>
                umask[t] = ~(call[t].creat /\ call[t].pc \in {"open", "opened"})
    /\ sharing # "path" =>
          /\ \A f \in Paths : ~InUse(f) => gfp[f] = "full"
          /\ \A t \in Threads : held[t].vp # None => gfp[v_file[held[t].vp]] = "nofs"

\* What saving and restoring is for, whatever callers share: once all files are closed
\* nothing of them is left.  The code gives it only to callers that share nothing.
AllPutBack ==
    (\A t \in Threads : call[t] = Idle /\ held[t].vp = None)
        => /\ \A t \in Threads : umask[t]
           /\ \A f \in Paths : gfp[f] = "full"

=============================================================================
