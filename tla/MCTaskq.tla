------------------------------ MODULE MCTaskq ------------------------------
(* Small instances of Taskq for TLC. *)
EXTENDS TaskqInv, TLC

CONSTANTS c1, c2, t1, t2, e1, e2, e3, e4, q1

Symmetry == Permutations(Clients) \cup Permutations(Threads) \cup Permutations(HeapEnts)

=============================================================================
