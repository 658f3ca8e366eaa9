------------------------------ MODULE KmemSize ------------------------------
(***************************************************************************)
(* The layout spl_kmem_cache_create chooses (module/spl/spl-kmem-cache.c): *)
(* the kind of cache, the size of its slabs and the objects on each.       *)
(* Sizes are uint32_t of Bits bits; a page, a megabyte and the headers are *)
(* scaled down with them.                                                  *)
(***************************************************************************)
EXTENDS Integers

CONSTANTS
    Bits,               \* of a uint32_t
    Page,               \* PAGE_SIZE, a power of two
    MB,                 \* bytes in a megabyte
    SlabHeader,         \* sizeof (spl_kmem_slab_t)
    ObjHeader,          \* sizeof (spl_kmem_obj_t)
    MaxOrderPages,      \* SPL_MAX_ORDER_NR_PAGES
    Sizes, Aligns,      \* the arguments of kmem_cache_create
    PerSlab, PerSlabMin, MaxMB, KmemLimit     \* the module's parameters: sets of values

VARIABLES
    req,        \* the arguments, the flags and the parameters in force
    out         \* the layout, once chosen

vars == <<req, out>>

u32(n) == n % 2 ^ Bits
ISP2(n) == \E k \in 0 .. Bits : n = 2 ^ k
P2ROUNDUP(n, a) == u32(((n + a - 1) \div a) * a)
Least(a, b) == IF a < b THEN a ELSE b
Most(a, b) == IF a > b THEN a ELSE b

\* get_order: the least order of pages that holds n bytes.
get_order(n) == CHOOSE k \in 0 .. Bits :
                    Page * 2 ^ k >= n /\ \A j \in 0 .. k - 1 : Page * 2 ^ j < n

fls64(n) == CHOOSE k \in 1 .. Bits + 1 : 2 ^ (k - 1) <= n /\ n < 2 ^ k

spl_sks_size(r) == P2ROUNDUP(SlabHeader, r.align)
spl_obj_size(r) == u32(P2ROUNDUP(r.size, r.align) + P2ROUNDUP(ObjHeader, r.align))
spl_offslab_size(r) == u32(2 ^ (fls64(spl_obj_size(r)) + 1))

\* The kind of a cache that asked for none depends on the size of its objects.
Kmem(r) == r.kind = "kmem" \/ (r.kind = "any" /\ spl_obj_size(r) <= r.kmem_limit)

NoSpace == [rc |-> "ENOSPC"]
\* spl_slab_size refuses a slab without objects.
Layout(objs, size) == IF objs = 0 THEN NoSpace ELSE [rc |-> "ok", objs |-> objs, size |-> size]

\* The objects are counted before the size is rounded to an order.
MutOnSlab(r) ==
    LET sks == spl_sks_size(r)
        obj == spl_obj_size(r)
        want == u32(r.per_slab * obj + sks)
        most == IF Kmem(r) THEN MaxOrderPages * Page ELSE u32(r.max_mb * MB)
        tgt == IF Kmem(r) THEN Least(most, Page * 2 ^ Most(get_order(want) - 1, 1)) ELSE want
        objs == u32(most - sks) \div obj
    IN  IF tgt <= most THEN Layout(u32(want - sks) \div obj, tgt)
        ELSE Layout(objs, u32(objs * obj + sks))

\* The part of spl_slab_size for objects that lie on the slab itself.
OnSlab(r) ==
    LET sks == spl_sks_size(r)
        obj == spl_obj_size(r)
        want == u32(r.per_slab * obj + sks)
        most == IF Kmem(r) THEN MaxOrderPages * Page ELSE u32(r.max_mb * MB)
        tgt == IF Kmem(r) THEN Least(most, Page * 2 ^ Most(get_order(want) - 1, 1)) ELSE want
        objs == u32(most - sks) \div obj
    IN  IF tgt <= most THEN Layout(u32(tgt - sks) \div obj, tgt)
        ELSE Layout(objs, u32(objs * obj + sks))

\* The slab holds the header alone, and every object has memory of its own.
OffSlab(r) ==
    IF Kmem(r) /\ spl_obj_size(r) > MaxOrderPages * Page THEN NoSpace
    ELSE Layout(r.per_slab, P2ROUNDUP(SlabHeader, Page))

spl_slab_size(r) == IF r.offslab THEN OffSlab(r) ELSE OnSlab(r)

Requests == [size : Sizes, align : Aligns, kind : {"any", "kmem", "vmem"}, offslab : BOOLEAN,
             per_slab : PerSlab, per_slab_min : PerSlabMin, max_mb : MaxMB, kmem_limit : KmemLimit]

Init == req \in Requests /\ out = [rc |-> "none"]

Create == out.rc = "none" /\ out' = spl_slab_size(req) /\ UNCHANGED req

Spec == Init /\ [][Create]_vars

------------------------------------------------------------------------------
\* The place of object i, from the start of the slab.
Place(i) == spl_sks_size(req) + i * spl_obj_size(req)

\* The slab header and the objects spl_slab_alloc lays out fit the slab without
\* wrapping, each object aligned and its header behind it inside its own space; an
\* object off the slab fits its own allocation.
Fits ==
    out.rc = "ok" =>
        /\ SlabHeader <= out.size /\ out.objs > 0
        /\ req.size + ObjHeader <= spl_obj_size(req)
        /\ ~req.offslab => /\ Place(out.objs) <= out.size
                           /\ \A i \in 0 .. out.objs - 1 : Place(i) % req.align = 0
        /\ req.offslab => spl_obj_size(req) <= spl_offslab_size(req)

\* kv_alloc's assertion: memory got with __get_free_pages is a power of two of bytes,
\* and no more than the allocator will give.
KvAllocAsserts ==
    out.rc = "ok" /\ Kmem(req) =>
        /\ ISP2(out.size) /\ out.size <= MaxOrderPages * Page
        /\ req.offslab => ISP2(spl_offslab_size(req))

\* "for very large objects we may use as few as spl_kmem_cache_obj_per_slab_min, lower
\* than this and we will fail".
AtLeastMin == out.rc = "ok" => out.objs >= req.per_slab_min

=============================================================================
