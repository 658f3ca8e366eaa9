------------------------------ MODULE SplInit ------------------------------
(***************************************************************************)
(* Loading and unloading the module (spl_init and spl_fini of              *)
(* module/spl/spl-generic.c with the init and fini functions they call):   *)
(* each part takes resources, any of which may fail to be had; a failed    *)
(* load takes down what is up in the reverse order.                        *)
(***************************************************************************)
EXTENDS Integers, Sequences

CONSTANTS
    Reliable,       \* the resources that are always to be had
    MaxLoads        \* bound: how often the module is loaded

VARIABLES
    mode,           \* "out", "loading", "loaded", "unloading" or "oops"
    at,             \* the part being brought up or taken down, an index of Parts
    got,            \* how many of its resources have been tried
    res,            \* the resources held
    uses,           \* the resources some other part relied on in the last step
    loads           \* loads so far

vars == <<mode, at, got, res, uses, loads>>

\* The parts in the order of spl_init, with the resources each takes in turn.
Parts == <<"tsd", "taskq", "kmem_cache", "vn", "proc", "kstat", "zlib">>
Takes == [tsd        |-> <<"tsd_hash_table">>,
          taskq      |-> <<"system_taskq", "system_delay_taskq", "dynamic_taskq">>,
          kmem_cache |-> <<"spl_kmem_cache_taskq", "shrinker">>,
          vn         |-> <<"vn_cache", "vn_file_cache">>,
          proc       |-> <<"spl_header", "proc_spl", "taskq-all", "taskq", "kmem", "slab", "proc_kstat">>,
          kstat      |-> <<"kstat_module_lock">>,
          zlib       |-> <<"zlib_workspace_cache">>]

\* Init functions that do not look at what they got.
Ignores == {"kmem_cache", "vn"}

Taskqs == {"system_taskq", "system_delay_taskq", "dynamic_taskq", "spl_kmem_cache_taskq"}
Caches == {"vn_cache", "vn_file_cache", "zlib_workspace_cache"}

\* What creating or destroying a resource relies on: the threads of a taskq use the
\* thread-specific data, a dynamic taskq waits for dynamic_taskq, a cache's age task
\* is dispatched to and cancelled in spl_kmem_cache_taskq, a proc entry needs its
\* directory.  The two system taskqs are created before dynamic_taskq and destroyed
\* after it.
Needs(r) == CASE r = "spl_kmem_cache_taskq" -> {"tsd_hash_table", "dynamic_taskq"}
              [] r \in Taskqs \ {"spl_kmem_cache_taskq"} -> {"tsd_hash_table"}
              [] r \in Caches -> {"spl_kmem_cache_taskq"}
              [] r \in {"taskq-all", "taskq", "kmem", "proc_kstat"} -> {"proc_spl"}
              [] r = "slab" -> {"kmem"}
              [] OTHER -> {}

All == UNION {{Takes[p][i] : i \in 1 .. Len(Takes[p])} : p \in {Parts[j] : j \in 1 .. Len(Parts)}}

TypeOK ==
    /\ mode \in {"out", "loading", "loaded", "unloading", "oops"}
    /\ at \in 0 .. Len(Parts) + 1 /\ got \in 0 .. 7
    /\ res \subseteq All /\ uses \subseteq All /\ loads \in 0 .. MaxLoads

Init == mode = "out" /\ at = 0 /\ got = 0 /\ res = {} /\ uses = {} /\ loads = 0

Insmod ==
    /\ mode = "out" /\ loads < MaxLoads
    /\ mode' = "loading" /\ at' = 1 /\ got' = 0 /\ loads' = loads + 1
    /\ UNCHANGED <<res, uses>>

Part == Parts[at]
Wanted == Takes[Part][got + 1]
Trying == mode = "loading" /\ at <= Len(Parts) /\ got < Len(Takes[Part])

Take ==
    /\ Trying
    /\ res' = res \cup {Wanted} /\ uses' = Needs(Wanted) /\ got' = got + 1
    /\ UNCHANGED <<mode, at, loads>>

\* Two of the init functions go on without.
Ignore ==
    /\ Trying /\ Wanted \notin Reliable /\ Part \in Ignores
    /\ uses' = Needs(Wanted) /\ got' = got + 1
    /\ UNCHANGED <<mode, at, res, loads>>

\* The taskqs already up are left.
MutFail ==
    /\ Trying /\ Wanted \notin Reliable /\ Part \notin Ignores
    /\ res' = IF Part = "taskq" THEN res ELSE res \ {Takes[Part][i] : i \in 1 .. got}
    /\ mode' = "unloading" /\ at' = at - 1 /\ uses' = {}
    /\ UNCHANGED <<got, loads>>

\* The others give back what they have and fail the load.
Fail ==
    /\ Trying /\ Wanted \notin Reliable /\ Part \notin Ignores
    /\ res' = res \ {Takes[Part][i] : i \in 1 .. got}
    /\ mode' = "unloading" /\ at' = at - 1 /\ uses' = {}
    /\ UNCHANGED <<got, loads>>

PartUp ==
    /\ mode = "loading" /\ at <= Len(Parts) /\ got = Len(Takes[Part])
    /\ IF at = Len(Parts) THEN mode' = "loaded" /\ UNCHANGED at
       ELSE at' = at + 1 /\ UNCHANGED mode
    /\ got' = 0 /\ UNCHANGED <<res, uses, loads>>

Rmmod ==
    /\ mode = "loaded"
    /\ mode' = "unloading" /\ UNCHANGED <<at, got, res, uses, loads>>

\* The fini function of a part destroys its taskqs and caches, NULL or not; proc
\* entries that do not exist are not missed.
Fini ==
    /\ mode = "unloading" /\ at > 0
    /\ LET all == {Takes[Part][i] : i \in 1 .. Len(Takes[Part])}
       IN  /\ uses' = (UNION {Needs(r) : r \in all}) \ all
           /\ res' = res \ all
           /\ mode' = IF all \cap (Taskqs \cup Caches) \subseteq res THEN mode ELSE "oops"
    /\ at' = at - 1
    /\ UNCHANGED <<got, loads>>

Gone ==
    /\ mode = "unloading" /\ at = 0
    /\ mode' = "out" /\ UNCHANGED <<at, got, res, uses, loads>>

Next == Insmod \/ Take \/ Ignore \/ Fail \/ PartUp \/ Rmmod \/ Fini \/ Gone

Spec == Init /\ [][Next]_vars

------------------------------------------------------------------------------
\* A module that is out, unloaded or refused at whatever step, leaves no taskq,
\* cache, shrinker, sysctl table or proc entry behind.
Clean == mode = "out" => res = {}

\* While a resource is created or destroyed what that relies on is up, on the way in,
\* on every way back and on the way out.
Supported == mode # "oops" => uses \subseteq res

\* taskq_destroy's ASSERT(tq): no init failure makes a fini function destroy a taskq
\* or a cache that was never created.
DestroysCreated == mode # "oops"

=============================================================================
