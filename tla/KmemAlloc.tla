----------------------------- MODULE KmemAlloc ------------------------------
(***************************************************************************)
(* kmem_alloc, vmem_alloc and kmem_free of module/spl/spl-kmem.c and       *)
(* spl-vmem.c in the three builds: plain, with the accounting of           *)
(* DEBUG_KMEM, and with the table of allocations of DEBUG_KMEM_TRACKING.   *)
(* Callers run concurrently and addresses are used again.                  *)
(***************************************************************************)
EXTENDS Integers, Sequences, FiniteSets, Functions, FiniteSetsExt

CONSTANTS
    Callers,
    KAddrs, VAddrs,     \* what kmalloc_node and __vmalloc may return
    Sizes,              \* sizes asked for
    spl_kmem_alloc_max, \* the largest size given to kmalloc_node
    Debug, Tracking,    \* DEBUG_KMEM, DEBUG_KMEM_TRACKING
    MayFail             \* kmalloc and __vmalloc may fail though memory is left

VARIABLES
    busy,               \* addresses that are allocated
    held,               \* allocations that callers have: [addr, size]
    kmem_alloc_used,
    kmem_alloc_max,
    kmem_table,         \* kmem_table[a]: sizes on record for address a
    nodes,              \* kmem_debug_t and their names that are allocated
    call,               \* what each caller is doing
    failed              \* the last request that returned NULL

vars == <<busy, held, kmem_alloc_used, kmem_alloc_max, kmem_table, nodes, call, failed>>

Addrs == KAddrs \cup VAddrs
Idle == [pc |-> "idle"]
Requests == [size : Sizes, sleep : BOOLEAN, vmem : BOOLEAN]

Init ==
    /\ busy = {} /\ held = {}
    /\ kmem_alloc_used = 0 /\ kmem_alloc_max = 0
    /\ kmem_table = [a \in Addrs |-> <<>>]
    /\ nodes = 0
    /\ call = [p \in Callers |-> Idle]
    /\ failed = {}

Goto(p, pc) == call' = [call EXCEPT ![p].pc = pc]

------------------------------------------------------------------------------
(* Allocation.                                                               *)

Alloc(p, r) ==
    /\ call[p] = Idle
    /\ call' = [call EXCEPT ![p] = [pc |-> IF Tracking THEN "node" ELSE "impl", req |-> r,
                                    use_vmem |-> FALSE]]
    /\ UNCHANGED <<busy, held, kmem_alloc_used, kmem_alloc_max, kmem_table, nodes, failed>>

\* The request fails, and its record is freed if there is one.
ReturnNull(p, node) ==
    /\ nodes' = nodes - node
    /\ failed' = {call[p].req}
    /\ call' = [call EXCEPT ![p] = Idle]
    /\ UNCHANGED <<busy, held, kmem_alloc_used, kmem_alloc_max, kmem_table>>

\* spl_kmem_alloc_track gets a record and the name of the caller ...
NodeOk(p) ==
    /\ call[p].pc = "node"
    /\ nodes' = nodes + 1
    /\ Goto(p, "impl")
    /\ UNCHANGED <<busy, held, kmem_alloc_used, kmem_alloc_max, kmem_table, failed>>

\* ... or one of them is not to be had.
NodeFails(p) ==
    /\ call[p].pc = "node" /\ MayFail
    /\ ReturnNull(p, 0)

TooLarge(c) == c.req.size > spl_kmem_alloc_max \/ c.use_vmem

\* One round of the loop of spl_kmem_alloc_impl that succeeds.
ImplOk(p) ==
    LET c == call[p] IN
    /\ c.pc = "impl"
    /\ TooLarge(c) => c.req.vmem
    /\ \E a \in (IF TooLarge(c) THEN VAddrs ELSE KAddrs) \ busy :
          /\ busy' = busy \cup {a}
          /\ IF Debug
             THEN /\ call' = [call EXCEPT ![p] = [pc |-> "used", addr |-> a, size |-> c.req.size]]
                  /\ UNCHANGED held
             ELSE /\ call' = [call EXCEPT ![p] = Idle]
                  /\ held' = held \cup {[addr |-> a, size |-> c.req.size]}
    /\ UNCHANGED <<kmem_alloc_used, kmem_alloc_max, kmem_table, nodes, failed>>

\* A request that must not use kmalloc, or may not wait.
ImplFails(p) ==
    LET c == call[p] IN
    /\ c.pc = "impl"
    /\ \/ TooLarge(c) /\ ~c.req.vmem
       \/ MayFail /\ ~c.req.sleep
    /\ ReturnNull(p, IF Tracking THEN 1 ELSE 0)

\* An allocation fails and is tried again, with __vmalloc if that is allowed.
ImplRetries(p) ==
    LET c == call[p] IN
    /\ c.pc = "impl"
    /\ MayFail /\ c.req.sleep
    /\ TooLarge(c) => c.req.vmem
    /\ call' = [call EXCEPT ![p].use_vmem = c.req.vmem]
    /\ UNCHANGED <<busy, held, kmem_alloc_used, kmem_alloc_max, kmem_table, nodes, failed>>

\* kmem_alloc_used_add of spl_kmem_alloc_debug.
AddUsed(p) ==
    /\ call[p].pc = "used"
    /\ kmem_alloc_used' = kmem_alloc_used + call[p].size
    /\ Goto(p, "max")
    /\ UNCHANGED <<busy, held, kmem_alloc_max, kmem_table, nodes, failed>>

\* The caller gets its memory.
Return(p) ==
    /\ held' = held \cup {[addr |-> call[p].addr, size |-> call[p].size]}
    /\ call' = [call EXCEPT ![p] = Idle]

\* kmem_alloc_max: the test, and the assignment of a value that is read again.
TestMax(p) ==
    /\ call[p].pc = "max"
    /\ IF kmem_alloc_used > kmem_alloc_max THEN Goto(p, "set") /\ UNCHANGED held
       ELSE IF Tracking THEN Goto(p, "track") /\ UNCHANGED held
       ELSE Return(p)
    /\ UNCHANGED <<busy, kmem_alloc_used, kmem_alloc_max, kmem_table, nodes, failed>>

SetMax(p) ==
    /\ call[p].pc = "set"
    /\ kmem_alloc_max' = kmem_alloc_used
    /\ IF Tracking THEN Goto(p, "track") /\ UNCHANGED held ELSE Return(p)
    /\ UNCHANGED <<busy, kmem_alloc_used, kmem_table, nodes, failed>>

\* The record goes to the head of its hash list and onto the list of all.
Track(p) ==
    /\ call[p].pc = "track"
    /\ kmem_table' = [kmem_table EXCEPT ![call[p].addr] = <<call[p].size>> \o @]
    /\ Return(p)
    /\ UNCHANGED <<busy, kmem_alloc_used, kmem_alloc_max, nodes, failed>>

------------------------------------------------------------------------------
(* Freeing.                                                                  *)

\* The memory goes first, its record later.
MutFree(p, h) ==
    /\ call[p] = Idle
    /\ held' = held \ {h}
    /\ call' = [call EXCEPT ![p] = [pc |-> IF Tracking THEN "del" ELSE "sub",
                                    addr |-> h.addr, size |-> h.size]]
    /\ busy' = busy \ {h.addr}
    /\ UNCHANGED <<kmem_alloc_used, kmem_alloc_max, kmem_table, nodes, failed>>

Free(p, h) ==
    /\ call[p] = Idle
    /\ held' = held \ {h}
    /\ call' = [call EXCEPT ![p] = [pc |-> IF Tracking THEN "del" ELSE IF Debug THEN "sub" ELSE "free",
                                    addr |-> h.addr, size |-> h.size]]
    /\ UNCHANGED <<busy, kmem_alloc_used, kmem_alloc_max, kmem_table, nodes, failed>>

\* kmem_del_init finds the record, which is freed ("Must exist in hash").
Delete(p) ==
    LET a == call[p].addr IN
    /\ call[p].pc = "del"
    /\ kmem_table' = [kmem_table EXCEPT ![a] = IF @ = <<>> THEN @ ELSE Tail(@)]
    /\ nodes' = nodes - 1
    /\ Goto(p, "sub")
    /\ UNCHANGED <<busy, held, kmem_alloc_used, kmem_alloc_max, failed>>

SubUsed(p) ==
    /\ call[p].pc = "sub"
    /\ kmem_alloc_used' = kmem_alloc_used - call[p].size
    /\ Goto(p, "free")
    /\ UNCHANGED <<busy, held, kmem_alloc_max, kmem_table, nodes, failed>>

\* spl_kmem_free_impl: vfree or kfree, by the address.
FreeImpl(p) ==
    /\ call[p].pc = "free"
    /\ busy' = busy \ {call[p].addr}
    /\ call' = [call EXCEPT ![p] = Idle]
    /\ UNCHANGED <<held, kmem_alloc_used, kmem_alloc_max, kmem_table, nodes, failed>>

Step(p) ==
    \/ NodeOk(p) \/ NodeFails(p) \/ ImplOk(p) \/ ImplFails(p) \/ ImplRetries(p)
    \/ AddUsed(p) \/ TestMax(p) \/ SetMax(p) \/ Track(p)
    \/ Delete(p) \/ SubUsed(p) \/ FreeImpl(p)

Next ==
    \E p \in Callers :
        \/ \E r \in Requests : Alloc(p, r)
        \/ \E h \in held : Free(p, h)
        \/ Step(p)

Spec == Init /\ [][Next]_vars

------------------------------------------------------------------------------
TypeOK ==
    /\ busy \subseteq Addrs
    /\ held \subseteq [addr : Addrs, size : Sizes]
    /\ kmem_alloc_used \in Nat /\ kmem_alloc_max \in Nat /\ nodes \in Nat
    /\ kmem_table \in [Addrs -> Seq(Sizes)]
    /\ failed \subseteq Requests

\* The assertions of spl_kmem_free_track: an allocation that is being freed has
\* one record, and it is of its size, though the address may be given out again
\* at any time after it is freed.
TrackExact ==
    Tracking =>
        /\ \A h \in held : kmem_table[h.addr] = <<h.size>>
        /\ \A p \in Callers : call[p].pc = "del" => kmem_table[call[p].addr] = <<call[p].size>>

\* With no call in progress the memory allocated is what callers hold, the
\* accounting says how much that is, and there is one record for each.
QuietExact ==
    (\A p \in Callers : call[p] = Idle) =>
        /\ busy = {h.addr : h \in held} /\ Cardinality(busy) = Cardinality(held)
        /\ Debug => kmem_alloc_used = MapThenSumSet(LAMBDA h : h.size, held)
        /\ Tracking => nodes = Cardinality(held)

\* KM_SLEEP: "can block for memory; success guaranteed".  A request returns NULL
\* only if it may not wait or is a kmem_alloc that is too large for kmalloc.
SleepSucceeds ==
    \A r \in failed : ~r.sleep \/ (r.size > spl_kmem_alloc_max /\ ~r.vmem)

=============================================================================
