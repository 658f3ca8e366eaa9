------------------------------- MODULE Groups -------------------------------
(***************************************************************************)
(* groupmember and its binary search (module/spl/spl-cred.c) over the      *)
(* sorted supplementary groups of a credential.  A gid is an unsigned int  *)
(* of which there are 2 * Half, and the search compares gids by the int    *)
(* that holds their difference.                                            *)
(***************************************************************************)
EXTENDS Integers, TLAPS

CONSTANTS
    Half,           \* half of the values of an unsigned int
    Gids,           \* the gids in use
    NGroups         \* the most groups a credential has

ASSUME GroupsAssumption ==
    /\ Half \in Nat \ {0} /\ NGroups \in Nat
    /\ Gids \subseteq 0 .. 2 * Half - 1

\* Every gid is in the lower half, where the difference of two fits an int.
SmallGids == \A g \in Gids : g < Half

VARIABLES
    ngroups, gid,   \* group_info: the number of groups and the array that holds them
    grp,            \* the gid asked for
    left, right,    \* the part of the array still to search
    rc              \* the answer, 2 while there is none

vars == <<ngroups, gid, grp, left, right, rc>>

Arrays(n) == [0 .. n - 1 -> Gids]
Sorted(a, n) == \A i, j \in 0 .. n - 1 : i < j => a[i] <= a[j]

TypeOK ==
    /\ ngroups \in 0 .. NGroups /\ gid \in Arrays(ngroups) /\ grp \in Gids
    /\ left \in 0 .. ngroups /\ right \in 0 .. ngroups
    /\ rc \in 0 .. 2

\* A difference of two unsigned ints, stored in an int.
toint(d) == IF d >= Half THEN d - 2 * Half ELSE IF d < -Half THEN d + 2 * Half ELSE d

mid == (left + right) \div 2
cmp == toint(grp - gid[mid])

\* The kernel keeps the groups of a credential sorted.
Init ==
    /\ ngroups \in 0 .. NGroups
    /\ gid \in {a \in Arrays(ngroups) : Sorted(a, ngroups)}
    /\ grp \in Gids
    /\ left = 0 /\ right = ngroups /\ rc = 2

Searching == rc = 2 /\ left < right

GoRight ==
    /\ Searching /\ cmp > 0
    /\ left' = mid + 1
    /\ UNCHANGED <<ngroups, gid, grp, right, rc>>

\* The bound that is not part of the range is taken to be.
MutGoLeft ==
    /\ Searching /\ cmp < 0
    /\ right' = IF mid = 0 THEN 0 ELSE mid - 1
    /\ UNCHANGED <<ngroups, gid, grp, left, rc>>

GoLeft ==
    /\ Searching /\ cmp < 0
    /\ right' = mid
    /\ UNCHANGED <<ngroups, gid, grp, left, rc>>

Found ==
    /\ Searching /\ cmp = 0
    /\ rc' = 1
    /\ UNCHANGED <<ngroups, gid, grp, left, right>>

NotFound ==
    /\ rc = 2 /\ ~(left < right)
    /\ rc' = 0
    /\ UNCHANGED <<ngroups, gid, grp, left, right>>

Next == GoRight \/ GoLeft \/ Found \/ NotFound

Spec == Init /\ [][Next]_vars

------------------------------------------------------------------------------
\* groupmember's answer is whether the gid is among the groups of the credential
\* (spl-cred.c: "Check if the passed gid is available in supplied credential").
Correct == rc # 2 => (rc = 1 <=> \E i \in 0 .. ngroups - 1 : gid[i] = grp)

\* The groups are sorted, and those outside the part still to search are not it.
Narrowed ==
    /\ TypeOK /\ Sorted(gid, ngroups)
    /\ \A i \in 0 .. ngroups - 1 : i < left => gid[i] < grp
    /\ \A i \in 0 .. ngroups - 1 : i >= right => grp < gid[i]
    /\ rc = 1 => \E i \in 0 .. ngroups - 1 : gid[i] = grp
    /\ rc = 0 => ~(left < right)

\* Gids are integers.
LEMMA GidsInt == Gids \subseteq Int
BY GroupsAssumption

\* Among gids of the lower half the difference has the sign of the comparison.
LEMMA CmpSign ==
    ASSUME SmallGids, NEW a \in Gids, NEW b \in Gids
    PROVE  toint(a - b) = a - b
BY GroupsAssumption DEF SmallGids, toint

\* A group that was not found lies on one side of the middle or the other, so that
\* each step of the search keeps the gid inside the part still to search.
THEOREM NarrowedInvariant ==
    ASSUME SmallGids
    PROVE  Spec => []Narrowed
<1>1. Init => Narrowed
  BY GroupsAssumption DEF Init, Narrowed, TypeOK, Arrays, Sorted
<1>2. Narrowed /\ [Next]_vars => Narrowed'
  <2> SUFFICES ASSUME Narrowed, [Next]_vars PROVE Narrowed'
    OBVIOUS
  <2> USE GroupsAssumption
  <2>1. Searching => /\ mid \in 0 .. ngroups - 1 /\ left <= mid /\ mid < right
                     /\ gid[mid] \in Gids /\ cmp = grp - gid[mid]
                     /\ gid[mid] \in Int /\ grp \in Int
    <3> SUFFICES ASSUME Searching PROVE
             /\ mid \in 0 .. ngroups - 1 /\ left <= mid /\ mid < right
             /\ gid[mid] \in Gids /\ cmp = grp - gid[mid]
             /\ gid[mid] \in Int /\ grp \in Int
      OBVIOUS
    <3>1. mid \in 0 .. ngroups - 1 /\ left <= mid /\ mid < right
      BY DEF Narrowed, TypeOK, Searching, mid
    <3>2. gid[mid] \in Gids /\ grp \in Gids
      BY <3>1 DEF Narrowed, TypeOK, Arrays
    <3>3. cmp = grp - gid[mid]
      BY Zenon, <3>2, CmpSign DEF cmp
    <3>4. gid[mid] \in Int /\ grp \in Int
      BY ONLY <3>2, GidsInt, Zenon
    <3> QED BY ONLY <3>1, <3>2, <3>3, <3>4, Zenon
  <2>2. CASE GoRight
    <3>1. /\ left' = mid + 1 /\ gid[mid] < grp
          /\ ngroups' = ngroups /\ gid' = gid /\ grp' = grp /\ right' = right /\ rc' = rc
          /\ rc = 2 /\ mid \in 0 .. ngroups - 1
      <4>1. Searching /\ cmp > 0 /\ rc = 2
        BY <2>2, Zenon DEF GoRight, Searching
      <4>2. gid[mid] \in Int /\ grp \in Int /\ grp - gid[mid] > 0
        BY ONLY <4>1, <2>1, Zenon
      <4>3. gid[mid] < grp
        BY ONLY <4>2, SMT
      <4> QED BY <4>1, <4>3, <2>1, <2>2, Zenon DEF GoRight
    <3>2. \A i \in 0 .. ngroups - 1 : i <= mid => gid[i] \in Int /\ gid[i] <= gid[mid]
      <4> SUFFICES ASSUME NEW i \in 0 .. ngroups - 1, i <= mid
          PROVE  gid[i] \in Int /\ gid[i] <= gid[mid]
        OBVIOUS
      <4>1. gid[i] \in Int /\ gid[mid] \in Int
        BY Zenon, <3>1, GidsInt DEF Narrowed, TypeOK, Arrays
      <4>2. i = mid \/ i < mid
        BY <3>1 DEF Narrowed, TypeOK
      <4>3. CASE i = mid
        BY <4>1, <4>3
      <4>4. CASE i < mid
        BY <3>1, <4>1, <4>4, Zenon DEF Narrowed, Sorted
      <4> QED BY <4>2, <4>3, <4>4
    <3>3. \A i \in 0 .. ngroups - 1 : i < mid + 1 => gid[i] < grp
      <4>1. mid \in Int /\ gid[mid] \in Int /\ grp \in Int /\ gid[mid] < grp
        <5>1. mid \in Int
          BY <3>1 DEF Narrowed, TypeOK
        <5> QED BY <5>1, <2>1, <2>2, <3>1, Zenon DEF GoRight
      <4> SUFFICES ASSUME NEW i \in 0 .. ngroups - 1, i < mid + 1 PROVE gid[i] < grp
        OBVIOUS
      <4>2. i \in Int /\ i <= mid
        BY <4>1 DEF Narrowed, TypeOK
      <4>3. gid[i] \in Int /\ gid[i] <= gid[mid]
        BY ONLY <3>2, <4>2, i \in 0 .. ngroups - 1, Zenon
      <4> QED BY ONLY <4>1, <4>3, SMT
    <3>4. TypeOK'
      BY <3>1 DEF Narrowed, TypeOK, Arrays
    <3> QED BY <3>1, <3>3, <3>4 DEF Narrowed, Sorted
  <2>3. CASE GoLeft
    <3>1. /\ right' = mid /\ grp < gid[mid]
          /\ ngroups' = ngroups /\ gid' = gid /\ grp' = grp /\ left' = left /\ rc' = rc
          /\ rc = 2 /\ mid \in 0 .. ngroups - 1
      <4>1. Searching /\ cmp < 0 /\ rc = 2
        BY <2>3, Zenon DEF GoLeft, Searching
      <4>2. gid[mid] \in Int /\ grp \in Int /\ grp - gid[mid] < 0
        BY ONLY <4>1, <2>1, Zenon
      <4>3. grp < gid[mid]
        BY ONLY <4>2, SMT
      <4> QED BY <4>1, <4>3, <2>1, <2>3, Zenon DEF GoLeft
    <3>2. \A i \in 0 .. ngroups - 1 : i >= mid => gid[i] \in Int /\ gid[mid] <= gid[i]
      <4> SUFFICES ASSUME NEW i \in 0 .. ngroups - 1, i >= mid
          PROVE  gid[i] \in Int /\ gid[mid] <= gid[i]
        OBVIOUS
      <4>1. gid[i] \in Int /\ gid[mid] \in Int
        BY Zenon, <3>1, GidsInt DEF Narrowed, TypeOK, Arrays
      <4>2. i = mid \/ mid < i
        BY <3>1 DEF Narrowed, TypeOK
      <4>3. CASE i = mid
        BY <4>1, <4>3
      <4>4. CASE mid < i
        BY <3>1, <4>1, <4>4, Zenon DEF Narrowed, Sorted
      <4> QED BY <4>2, <4>3, <4>4
    <3>3. \A i \in 0 .. ngroups - 1 : i >= mid => grp < gid[i]
      <4>1. mid \in Int /\ gid[mid] \in Int /\ grp \in Int /\ grp < gid[mid]
        <5>1. mid \in Int
          BY <3>1 DEF Narrowed, TypeOK
        <5> QED BY <5>1, <2>1, <2>3, <3>1, Zenon DEF GoLeft
      <4> SUFFICES ASSUME NEW i \in 0 .. ngroups - 1, i >= mid PROVE grp < gid[i]
        OBVIOUS
      <4>2. i \in Int /\ i >= mid
        BY <4>1 DEF Narrowed, TypeOK
      <4>3. gid[i] \in Int /\ gid[mid] <= gid[i]
        BY ONLY <3>2, <4>2, i \in 0 .. ngroups - 1, Zenon
      <4> QED BY ONLY <4>1, <4>3, SMT
    <3>4. TypeOK'
      BY <3>1 DEF Narrowed, TypeOK, Arrays
    <3> QED BY <3>1, <3>3, <3>4 DEF Narrowed, Sorted
  <2>4. CASE Found
    <3>1. gid[mid] = grp /\ mid \in 0 .. ngroups - 1
      BY <2>1, <2>4 DEF Found
    <3> QED BY <3>1, <2>4 DEF Found, Narrowed, TypeOK, Arrays, Sorted
  <2>5. CASE NotFound
    BY <2>5 DEF NotFound, Narrowed, TypeOK, Arrays, Sorted
  <2>6. CASE UNCHANGED vars
    BY <2>6 DEF vars, Narrowed, TypeOK, Arrays, Sorted
  <2> QED BY <2>2, <2>3, <2>4, <2>5, <2>6 DEF Next
<1> QED BY <1>1, <1>2, PTL DEF Spec

\* For every credential and every gid of the lower half the answer is right.
THEOREM SearchCorrect ==
    ASSUME SmallGids
    PROVE  Spec => []Correct
<1>1. Narrowed => Correct
  BY GroupsAssumption DEF Narrowed, Correct, TypeOK, Arrays
<1> QED BY <1>1, NarrowedInvariant, PTL

=============================================================================
