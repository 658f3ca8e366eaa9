--------------------------- MODULE MCTaskqThreads ---------------------------
(* A small instance of TaskqThreads for TLC: tasks that wait for no other.  *)
EXTENDS TaskqThreads, TLC

CONSTANTS t1, t2, t3, NTasks

MCTasks == 1 .. NTasks
MCNeeds == [n \in 1 .. NTasks |-> {}]

Symmetry == Permutations(Threads)

=============================================================================
