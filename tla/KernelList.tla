----------------------------- MODULE KernelList -----------------------------
(***************************************************************************)
(* Doubly linked kernel lists as sequences: the operations of              *)
(* <linux/list.h> that the taskq uses beyond the built-in ones, and the    *)
(* insertion by id that spl-taskq.c writes out twice.                      *)
(***************************************************************************)
EXTENDS Integers, Sequences, Functions

\* The list without its i-th element, and with e as its new i-th element.
UnlinkAt(L, i) == SubSeq(L, 1, i - 1) \o SubSeq(L, i + 1, Len(L))
LinkAt(L, i, e) == SubSeq(L, 1, i - 1) \o <<e>> \o SubSeq(L, i, Len(L))

\* list_del: the list without e.
list_del(L, e) ==
    IF e \in Range(L) THEN UnlinkAt(L, CHOOSE i \in DOMAIN L : L[i] = e) ELSE L

\* Always at the head.
MutInsertHead(L, e, id) == <<e>> \o L

\* Scan from the tail and insert behind the first element with a smaller id.
InsertById(L, e, id) ==
    LET i == CHOOSE i \in 0 .. Len(L) :
                /\ i > 0 => id[L[i]] < id[e]
                /\ \A j \in i + 1 .. Len(L) : ~(id[L[j]] < id[e])
    IN  LinkAt(L, i + 1, e)

\* The smaller of n and the id of the first element of the list.
HeadOr(L, id, n) == IF L # <<>> /\ id[Head(L)] < n THEN id[Head(L)] ELSE n

\* No element twice.
Inj(L) == \A i, j \in DOMAIN L : L[i] = L[j] => i = j

\* In the order of the ids.
Sorted(L, id) == \A i, j \in DOMAIN L : i <= j => id[L[i]] <= id[L[j]]

=============================================================================
