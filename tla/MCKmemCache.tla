---------------------------- MODULE MCKmemCache -----------------------------
(* Small instances of KmemCache for TLC; a behaviour runs the one in config. *)
(* "direct": a KMC_KMEM cache that grows in place.  "async": a KMC_VMEM      *)
(* cache that grows by its taskq.  "reap": reaping between the steps of the  *)
(* clients.  "age": ageing magazines instead.  "live": a KMC_VMEM cache that *)
(* is reaped and whose callers may wait.                                     *)
EXTENDS KmemCache

CONSTANTS Configs, p1, p2, s1, s2, x1

VARIABLE config

K(c) == INSTANCE KmemCache WITH
    Vmem <- (c \in {"async", "live"}),
    Emergency <- IF c \in {"async", "live"} THEN Emergency ELSE {},
    Expire <- IF c = "age" THEN {"age"} ELSE {"mem"},
    Waits <- CASE c = "async" -> {"sleep", "nosleep"} [] c = "direct" -> {"nosleep"}
               [] OTHER -> {"sleep"},
    Reaps <- (c \in {"reap", "live"}),
    MaxHeld <- IF c = "direct" THEN 2 ELSE 1

MCInit == config \in Configs /\ Init

MCNext == \E c \in Configs : config = c /\ K(c)!Next /\ UNCHANGED config

MCSpec == MCInit /\ [][MCNext]_<<vars, config>>

MCFairSpec == MCSpec /\ K("live")!Fairness

Symmetry == Permutations(Threads) \cup Permutations(Slabs)

=============================================================================
