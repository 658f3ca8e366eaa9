------------------------------ MODULE KmemSlab ------------------------------
(* The slab layer of an SPL kmem cache: what spl-kmem-cache.c does to the   *)
(* slab lists, the free lists and the counters while it holds skc_lock.     *)
(* Every operator takes the locked state S and returns the new one:         *)
(*                                                                          *)
(*   S.partial     skc_partial_list, first element first                    *)
(*   S.complete    skc_complete_list; its order is never used               *)
(*   S.free[s]     sks_free_list of slab s                                  *)
(*   S.ref[s]      sks_ref of slab s                                        *)
(*   S.slab_total, S.slab_alloc, S.obj_total, S.obj_alloc, S.obj_emergency  *)
(*                 the counters                                             *)
(*                                                                          *)
(* An object is the pair of its slab and its position in the slab.          *)
EXTENDS Naturals, FiniteSets, SequencesExt

CONSTANTS
    Slabs,      \* the pieces of memory a slab can live in
    SlabObjs    \* skc_slab_objs, the objects of a slab

ASSUME SlabObjsAssumption == SlabObjs \in Nat \ {0}

Objs == Slabs \X (1..SlabObjs)

\* The slabs of the cache.
OnLists(S) == ToSet(S.partial) \cup S.complete

NoSlabs == [partial |-> <<>>, complete |-> {},
            free |-> [s \in Slabs |-> <<>>], ref |-> [s \in Slabs |-> 0],
            slab_total |-> 0, slab_alloc |-> 0, obj_total |-> 0, obj_alloc |-> 0,
            obj_emergency |-> 0]

\* list_del on a list that holds s at most once.
Without(list, s) == SelectSeq(list, LAMBDA x : x # s)

\* __spl_cache_grow with the slab spl_slab_alloc returned: counted, and linked
\* at the tail of the partial list with every object free.
LinkSlab(S, s) ==
    [S EXCEPT !.slab_total = @ + 1,
              !.obj_total  = @ + SlabObjs,
              !.partial    = Append(@, s),
              !.ref[s]     = 0,
              !.free[s]    = [i \in 1..SlabObjs |-> <<s, i>>]]

\* spl_cache_obj on the first partial slab, and the move of a slab that is now
\* full to the complete list.
TakeObj(S) ==
    LET s   == Head(S.partial)
        ref == S.ref[s] + 1
    IN  [S EXCEPT !.free[s]    = Tail(@),
                  !.ref[s]     = ref,
                  !.obj_alloc  = @ + 1,
                  !.slab_alloc = IF ref = 1 THEN @ + 1 ELSE @,
                  !.partial    = IF ref = SlabObjs THEN Without(@, s) ELSE @,
                  !.complete   = IF ref = SlabObjs THEN @ \cup {s} ELSE @]

\* The loop of spl_cache_refill: up to n objects, slab after slab, until the
\* partial list is empty.
Refill(S, n) ==
    FoldLeft(LAMBDA acc, i :
                 IF acc.slab.partial = <<>> THEN acc
                 ELSE [slab |-> TakeObj(acc.slab),
                       objs |-> Append(acc.objs, Head(acc.slab.free[Head(acc.slab.partial)]))],
             [slab |-> S, objs |-> <<>>],
             [i \in 1..n |-> i])

\* A shrink that forgets to put an empty slab at the end of the partial list.
MutShrinkInPlace(S, o) ==
    LET s   == o[1]
        ref == S.ref[s] - 1
    IN  [S EXCEPT !.free[s]    = <<o>> \o @,
                  !.ref[s]     = ref,
                  !.obj_alloc  = @ - 1,
                  !.partial    = IF ref = SlabObjs - 1 THEN <<s>> \o Without(@, s) ELSE @,
                  !.complete   = IF ref = SlabObjs - 1 THEN @ \ {s} ELSE @,
                  !.slab_alloc = IF ref = 0 THEN @ - 1 ELSE @]

\* spl_cache_shrink: object o goes back to its slab.
spl_cache_shrink(S, o) ==
    LET s      == o[1]
        ref    == S.ref[s] - 1
        unfull == ref = SlabObjs - 1
        list   == IF unfull THEN <<s>> \o Without(S.partial, s) ELSE S.partial
    IN  [S EXCEPT !.free[s]    = <<o>> \o @,
                  !.ref[s]     = ref,
                  !.obj_alloc  = @ - 1,
                  !.partial    = IF ref = 0 THEN Append(Without(list, s), s) ELSE list,
                  !.complete   = IF unfull THEN @ \ {s} ELSE @,
                  !.slab_alloc = IF ref = 0 THEN @ - 1 ELSE @]

\* __spl_cache_flush: the objects objs of a magazine go back, oldest first.
Flush(S, objs) == FoldLeft(spl_cache_shrink, S, objs)

\* The slabs spl_slab_reclaim meets from the tail before one in use.
EmptyTail(S) ==
    {S.partial[i] : i \in {k \in DOMAIN S.partial :
                              \A j \in k..Len(S.partial) : S.ref[S.partial[j]] = 0}}

\* spl_slab_reclaim, with spl_slab_free for each slab it finds: the slab and its
\* objects leave the cache and their memory is returned.
spl_slab_reclaim(S) ==
    [S EXCEPT !.partial    = SelectSeq(@, LAMBDA s : s \notin EmptyTail(S)),
              !.slab_total = @ - Cardinality(EmptyTail(S)),
              !.obj_total  = @ - SlabObjs * Cardinality(EmptyTail(S)),
              !.free       = [s \in Slabs |-> IF s \in EmptyTail(S) THEN <<>> ELSE @[s]]]

=============================================================================
