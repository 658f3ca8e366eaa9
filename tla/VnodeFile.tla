----------------------------- MODULE VnodeFile ------------------------------
(***************************************************************************)
(* The file references of module/spl/spl-vnode.c: vn_getf gives a task a   *)
(* file_t for one of its descriptors, vn_areleasef takes a reference back, *)
(* and user space opens, reopens and closes the descriptor meanwhile.  A   *)
(* critical section of vn_file_lock is one step.  file_t objects come from *)
(* vn_file_cache, whose constructor runs when an object is first made and  *)
(* not when it is used again.                                              *)
(***************************************************************************)
EXTENDS Integers, FiniteSets

CONSTANTS
    Fds,        \* descriptors, each of one task
    Files,      \* struct file
    Objs,       \* file_t objects
    None,       \* NULL
    MayFail,    \* vn_alloc and vfs_getattr may fail
    MayClose,   \* a descriptor may be closed and not be in use again
    MaxRef      \* bound of the references

VARIABLES
    open,       \* open[fd]: the file behind the descriptor, or None
    refs,       \* refs[f]: references that fget gave to this code
    file_list,  \* vn_file_list
    cache,      \* the objects in vn_file_cache
    f_ref, f_fd, f_file,    \* of each object
    held,       \* held[fd]: references that callers of vn_getf hold
    getf,       \* getf[fd]: the task's vn_getf in progress
    crashed     \* a NULL file has been put

vars == <<open, refs, file_list, cache, f_ref, f_fd, f_file, held, getf, crashed>>
objects == <<file_list, cache, f_ref, f_fd, f_file>>

Idle == [pc |-> "idle", obj |-> None, lfp |-> None]

Init ==
    /\ open \in [Fds -> Files \cup (IF MayClose THEN {None} ELSE {})]
    /\ refs = [f \in Files |-> 0]
    /\ file_list = {} /\ cache = Objs
    /\ f_ref = [o \in Objs |-> 0]
    /\ f_fd = [o \in Objs |-> None]
    /\ f_file = [o \in Objs |-> None]
    /\ held = [fd \in Fds |-> 0]
    /\ getf = [fd \in Fds |-> Idle]
    /\ crashed = FALSE

\* fget of f, and fput of g, either of which may be None.
fget_fput(f, g) ==
    refs' = [h \in Files |-> refs[h] + (IF h = f THEN 1 ELSE 0) - (IF h = g THEN 1 ELSE 0)]

file_find(fd) == {o \in file_list : f_fd[o] = fd}

------------------------------------------------------------------------------
(* User space.                                                               *)

Open(fd, f) ==
    /\ open[fd] # f
    /\ open' = [open EXCEPT ![fd] = f]
    /\ UNCHANGED <<refs, objects, held, getf, crashed>>

Close(fd) ==
    /\ MayClose /\ open[fd] # None
    /\ open' = [open EXCEPT ![fd] = None]
    /\ UNCHANGED <<refs, objects, held, getf, crashed>>

------------------------------------------------------------------------------
(* vn_getf.                                                                  *)

\* "Already open just take an extra reference": the file of the object is replaced
\* by what the descriptor stands for now.
GetfFound(fd) ==
    /\ getf[fd] = Idle /\ held[fd] < MaxRef
    /\ \E o \in file_find(fd) :
          /\ fget_fput(open[fd], f_file[o])
          /\ f_file' = [f_file EXCEPT ![o] = open[fd]]
          /\ crashed' = (crashed \/ f_file[o] = None)
          /\ f_ref' = [f_ref EXCEPT ![o] = @ + 1]
    /\ held' = [held EXCEPT ![fd] = @ + 1]
    /\ UNCHANGED <<open, file_list, cache, f_fd, getf>>

\* An object is taken from the cache and gets its first reference.
GetfNew(fd) ==
    /\ getf[fd] = Idle /\ file_find(fd) = {}
    /\ \E o \in cache :
          /\ f_ref[o] < MaxRef
          /\ cache' = cache \ {o}
          /\ f_fd' = [f_fd EXCEPT ![o] = fd]
          /\ f_ref' = [f_ref EXCEPT ![o] = @ + 1]
          /\ getf' = [getf EXCEPT ![fd] = [pc |-> "fget", obj |-> o, lfp |-> None]]
    /\ UNCHANGED <<open, refs, file_list, f_file, held, crashed>>

GetfFget(fd) ==
    /\ getf[fd].pc = "fget" /\ open[fd] # None
    /\ fget_fput(open[fd], None)
    /\ getf' = [getf EXCEPT ![fd].pc = "attr", ![fd].lfp = open[fd]]
    /\ UNCHANGED <<open, objects, held, crashed>>

\* An error path that forgets the file.
MutGetfFails(fd) ==
    /\ \/ getf[fd].pc = "fget" /\ open[fd] = None
       \/ getf[fd].pc = "attr" /\ MayFail
    /\ cache' = cache \cup {getf[fd].obj}
    /\ getf' = [getf EXCEPT ![fd] = Idle]
    /\ UNCHANGED <<open, refs, file_list, f_ref, f_fd, f_file, held, crashed>>

\* fget found nothing, or vn_alloc or vfs_getattr failed: the object goes back as
\* it is.
GetfFails(fd) ==
    /\ \/ getf[fd].pc = "fget" /\ open[fd] = None
       \/ getf[fd].pc = "attr" /\ MayFail
    /\ fget_fput(None, getf[fd].lfp)
    /\ cache' = cache \cup {getf[fd].obj}
    /\ getf' = [getf EXCEPT ![fd] = Idle]
    /\ UNCHANGED <<open, file_list, f_ref, f_fd, f_file, held, crashed>>

\* "Put it on the tracking list".
GetfLink(fd) ==
    /\ getf[fd].pc = "attr"
    /\ LET o == getf[fd].obj
       IN  /\ file_list' = file_list \cup {o}
           /\ f_file' = [f_file EXCEPT ![o] = getf[fd].lfp]
    /\ held' = [held EXCEPT ![fd] = @ + 1]
    /\ getf' = [getf EXCEPT ![fd] = Idle]
    /\ UNCHANGED <<open, refs, cache, f_ref, f_fd, crashed>>

------------------------------------------------------------------------------
(* vn_areleasef, by the task or by another one on its behalf.                *)

\* releasef_locked of an object that has left the list.
releasef_locked(o) ==
    /\ fget_fput(None, f_file[o])
    /\ cache' = cache \cup {o}
    /\ crashed' = (crashed \/ f_file[o] = None)

vn_areleasef(fd) ==
    /\ held[fd] > 0
    /\ \E o \in file_find(fd) :
          /\ f_ref' = [f_ref EXCEPT ![o] = @ - 1]
          /\ IF f_ref[o] - 1 > 0
             THEN UNCHANGED <<refs, file_list, cache, crashed>>
             ELSE file_list' = file_list \ {o} /\ releasef_locked(o)
    /\ held' = [held EXCEPT ![fd] = @ - 1]
    /\ UNCHANGED <<open, f_fd, f_file, getf>>

\* spl_vn_fini, which releases what callers forgot, and the spl_vn_init of the next
\* load, whose objects are constructed anew.
spl_vn_fini ==
    /\ \A fd \in Fds : getf[fd] = Idle
    /\ refs' = [f \in Files |-> refs[f] - Cardinality({o \in file_list : f_file[o] = f})]
    /\ crashed' = (crashed \/ \E o \in file_list : f_file[o] = None)
    /\ file_list' = {} /\ cache' = Objs
    /\ f_ref' = [o \in Objs |-> 0]
    /\ f_fd' = [o \in Objs |-> None]
    /\ f_file' = [o \in Objs |-> None]
    /\ held' = [fd \in Fds |-> 0]
    /\ UNCHANGED <<open, getf>>

Next ==
    \/ spl_vn_fini
    \/ \E fd \in Fds :
          \/ \E f \in Files : Open(fd, f)
          \/ Close(fd)
          \/ GetfFound(fd) \/ GetfNew(fd) \/ GetfFget(fd) \/ GetfFails(fd) \/ GetfLink(fd)
          \/ vn_areleasef(fd)

Spec == Init /\ [][Next]_vars

------------------------------------------------------------------------------
TypeOK ==
    /\ open \in [Fds -> Files \cup {None}]
    /\ refs \in [Files -> Nat]
    /\ file_list \subseteq Objs /\ cache \subseteq Objs /\ file_list \cap cache = {}
    /\ f_ref \in [Objs -> 0 .. 2 * MaxRef]
    /\ f_fd \in [Objs -> Fds \cup {None}] /\ f_file \in [Objs -> Files \cup {None}]
    /\ held \in [Fds -> 0 .. MaxRef]

\* Whatever user space does with the descriptor and whichever path vn_getf takes,
\* the references to a struct file are those of the objects that point to it and
\* of the calls in progress: none is leaked, none is put twice.
FileRefsExact ==
    \A f \in Files :
        refs[f] = Cardinality({o \in file_list : f_file[o] = f})
                      + Cardinality({fd \in Fds : getf[fd].lfp = f})

\* A descriptor has one object, which counts the references that callers hold and
\* is freed with the last of them.
RefsExact ==
    \A fd \in Fds :
        /\ Cardinality(file_find(fd)) = (IF held[fd] > 0 THEN 1 ELSE 0)
        /\ \A o \in file_find(fd) : f_ref[o] = held[fd]

\* "no refs, safe to free": the objects in vn_file_cache have no references, as the
\* constructor left them, so that the next user's reference is the first.
FreedUnreferenced == \A o \in cache : f_ref[o] = 0

\* releasef_locked asserts that the object it releases has a file, and no file is
\* put that vn_getf did not get.
ReleaseAsserts == ~crashed

=============================================================================
