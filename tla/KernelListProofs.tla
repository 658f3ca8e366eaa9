-------------------------- MODULE KernelListProofs --------------------------
(* Facts about KernelList, for every list and every id function. *)
EXTENDS KernelList, WellFoundedInduction, TLAPS

\* Length, domain and elements of a list.
LEMMA LenFacts ==
  ASSUME NEW S, NEW L \in Seq(S)
  PROVE  /\ Len(L) \in Nat /\ DOMAIN L = 1 .. Len(L) /\ (L = <<>> <=> Len(L) = 0)
         /\ \A i \in 1 .. Len(L) : L[i] \in S
OBVIOUS

\* The part of a list from m to n.
LEMMA SubSeqFacts ==
  ASSUME NEW S, NEW L \in Seq(S), NEW m \in 1 .. Len(L) + 1, NEW n \in m - 1 .. Len(L)
  PROVE  /\ SubSeq(L, m, n) \in Seq(S) /\ Len(SubSeq(L, m, n)) = n - m + 1
         /\ \A i \in 1 .. n - m + 1 : SubSeq(L, m, n)[i] = L[m + i - 1]
OBVIOUS

\* One list after another.
LEMMA ConcatFacts ==
  ASSUME NEW S, NEW L \in Seq(S), NEW M \in Seq(S)
  PROVE  /\ L \o M \in Seq(S) /\ Len(L \o M) = Len(L) + Len(M)
         /\ \A i \in 1 .. Len(L) + Len(M) :
               (L \o M)[i] = IF i <= Len(L) THEN L[i] ELSE M[i - Len(L)]
OBVIOUS

\* A list with one more element at its tail.
LEMMA AppendElements ==
  ASSUME NEW S, NEW L \in Seq(S), NEW e \in S
  PROVE  /\ Append(L, e) \in Seq(S) /\ Len(Append(L, e)) = Len(L) + 1
         /\ \A i \in 1 .. Len(L) : Append(L, e)[i] = L[i]
         /\ Append(L, e)[Len(L) + 1] = e
OBVIOUS

\* A list taken apart at its head.
LEMMA HeadTailFacts ==
  ASSUME NEW S, NEW L \in Seq(S), L # <<>>
  PROVE  /\ Head(L) \in S /\ Head(L) = L[1]
         /\ Tail(L) \in Seq(S) /\ Len(Tail(L)) = Len(L) - 1
         /\ \A i \in 1 .. Len(L) - 1 : Tail(L)[i] = L[i + 1]
OBVIOUS

\* Removing position k shifts the later elements down by one.
LEMMA UnlinkAtFacts ==
  ASSUME NEW S, NEW L \in Seq(S), NEW k \in 1 .. Len(L)
  PROVE  /\ UnlinkAt(L, k) \in Seq(S)
         /\ Len(UnlinkAt(L, k)) = Len(L) - 1
         /\ \A j \in 1 .. Len(L) - 1 :
               UnlinkAt(L, k)[j] = IF j < k THEN L[j] ELSE L[j + 1]
<1> DEFINE A == SubSeq(L, 1, k - 1)
           B == SubSeq(L, k + 1, Len(L))
<1>1. Len(L) \in Nat /\ \A i \in 1 .. Len(L) : L[i] \in S
  BY LenFacts
<1>2. /\ A \in Seq(S) /\ Len(A) = k - 1
      /\ \A i \in 1 .. k - 1 : A[i] = L[i]
  <2>1. \A i \in 1 .. k - 1 : L[i] \in S
    BY <1>1
  <2> QED BY <1>1, <2>1, SubSeqFacts
<1>3. /\ B \in Seq(S) /\ Len(B) = Len(L) - k
      /\ \A i \in 1 .. Len(L) - k : B[i] = L[k + i]
  <2>1. \A i \in k + 1 .. Len(L) : L[i] \in S
    BY <1>1
  <2> HIDE DEF B
  <2>2. /\ B \in Seq(S)
        /\ Len(B) = IF k + 1 <= Len(L) THEN Len(L) - (k + 1) + 1 ELSE 0
        /\ \A i \in 1 .. Len(L) - (k + 1) + 1 : B[i] = L[(k + 1) + i - 1]
    BY <1>1, <2>1, SubSeqFacts DEF B
  <2>3. \A i \in 1 .. Len(L) - k : (k + 1) + i - 1 = k + i
    BY <1>1
  <2> QED BY <1>1, <2>2, <2>3
<1> HIDE DEF A, B
<1> DEFINE R == A \o B
<1>4. /\ R \in Seq(S) /\ Len(R) = Len(A) + Len(B)
      /\ \A i \in 1 .. Len(A) + Len(B) :
            R[i] = IF i <= Len(A) THEN A[i] ELSE B[i - Len(A)]
  BY Zenon, <1>2, <1>3, ConcatFacts
<1>5. UnlinkAt(L, k) = R
  BY DEF UnlinkAt, A, B
<1> HIDE DEF R
<1>6. Len(A) + Len(B) = Len(L) - 1
  BY <1>1, <1>2, <1>3
<1>7. ASSUME NEW j \in 1 .. Len(L) - 1
      PROVE  R[j] = IF j < k THEN L[j] ELSE L[j + 1]
  <2>1. R[j] = IF j <= k - 1 THEN A[j] ELSE B[j - (k - 1)]
    BY <1>2, <1>4, <1>6
  <2>2. CASE j < k
    BY <1>1, <2>1, <2>2, <1>2
  <2>3. CASE ~(j < k)
    <3>1. /\ j - (k - 1) \in 1 .. Len(L) - k
          /\ k + (j - (k - 1)) = j + 1
          /\ ~(j <= k - 1)
      BY <2>3, <1>1
    <3> QED BY <3>1, <2>1, <2>3, <1>3
  <2> QED BY <2>2, <2>3
<1> QED BY <1>4, <1>5, <1>6, <1>7

\* Inserting at position k shifts the later elements up by one.
LEMMA LinkAtFacts ==
  ASSUME NEW S, NEW L \in Seq(S), NEW e \in S, NEW k \in 1 .. Len(L) + 1
  PROVE  /\ LinkAt(L, k, e) \in Seq(S)
         /\ Len(LinkAt(L, k, e)) = Len(L) + 1
         /\ \A j \in 1 .. Len(L) + 1 :
               LinkAt(L, k, e)[j] = IF j < k THEN L[j] ELSE IF j = k THEN e ELSE L[j - 1]
<1> DEFINE A == SubSeq(L, 1, k - 1)
           B == SubSeq(L, k, Len(L))
           C == A \o <<e>>
<1>1. Len(L) \in Nat /\ \A i \in 1 .. Len(L) : L[i] \in S
  BY LenFacts
<1>2. /\ A \in Seq(S) /\ Len(A) = k - 1
      /\ \A i \in 1 .. k - 1 : A[i] = L[i]
  <2>1. \A i \in 1 .. k - 1 : L[i] \in S
    BY <1>1
  <2> QED BY <1>1, <2>1, SubSeqFacts
<1>3. /\ B \in Seq(S) /\ Len(B) = Len(L) - k + 1
      /\ \A i \in 1 .. Len(L) - k + 1 : B[i] = L[k + i - 1]
  <2>1. \A i \in k .. Len(L) : L[i] \in S
    BY <1>1
  <2> QED BY <1>1, <2>1, SubSeqFacts
<1>4. /\ <<e>> \in Seq(S) /\ Len(<<e>>) = 1 /\ <<e>>[1] = e
  OBVIOUS
<1> HIDE DEF A, B
<1>5. /\ C \in Seq(S) /\ Len(C) = k
      /\ \A i \in 1 .. k : C[i] = IF i < k THEN L[i] ELSE e
  <2>1. /\ C \in Seq(S) /\ Len(C) = Len(A) + 1
        /\ \A i \in 1 .. Len(A) + 1 :
              C[i] = IF i <= Len(A) THEN A[i] ELSE <<e>>[i - Len(A)]
    BY <1>2, <1>4, ConcatFacts
  <2> HIDE DEF C
  <2>2. ASSUME NEW i \in 1 .. k PROVE C[i] = IF i < k THEN L[i] ELSE e
    <3>1. CASE i < k
      BY <3>1, <2>1, <1>2
    <3>2. CASE i = k
      <4>1. i - Len(A) = 1 /\ ~(i <= Len(A)) /\ i \in 1 .. Len(A) + 1
        BY <3>2, <1>2
      <4>2. C[i] = <<e>>[1]
        BY <4>1, <2>1
      <4> QED BY <4>2, <1>4, <3>2
    <3> QED BY <3>1, <3>2
  <2> QED BY <2>1, <2>2, <1>2
<1> HIDE DEF C
<1> DEFINE R == C \o B
<1>6. /\ R \in Seq(S) /\ Len(R) = Len(C) + Len(B)
      /\ \A i \in 1 .. Len(C) + Len(B) :
            R[i] = IF i <= Len(C) THEN C[i] ELSE B[i - Len(C)]
  BY Zenon, <1>3, <1>5, ConcatFacts
<1>7. LinkAt(L, k, e) = R
  BY DEF LinkAt, A, B, C
<1> HIDE DEF R
<1>8. Len(C) + Len(B) = Len(L) + 1
  BY <1>1, <1>3, <1>5
<1>9. ASSUME NEW j \in 1 .. Len(L) + 1
      PROVE  R[j] = IF j < k THEN L[j] ELSE IF j = k THEN e ELSE L[j - 1]
  <2>1. R[j] = IF j <= k THEN C[j] ELSE B[j - k]
    BY <1>5, <1>6, <1>8
  <2>2. CASE j <= k
    BY <1>1, <2>1, <2>2, <1>5
  <2>3. CASE ~(j <= k)
    <3>1. /\ j - k \in 1 .. Len(L) - k + 1
          /\ k + (j - k) - 1 = j - 1
          /\ ~(j < k) /\ j # k
      BY <2>3, <1>1
    <3> QED BY SMTT(60), <3>1, <2>1, <2>3, <1>3
  <2> QED BY <2>2, <2>3
<1> QED BY <1>6, <1>7, <1>8, <1>9

\* list_del removes exactly e, and keeps a list without duplicates, and its
\* order, as they are.
LEMMA DelFacts ==
  ASSUME NEW S, NEW L \in Seq(S), Inj(L), NEW e
  PROVE  /\ list_del(L, e) \in Seq(S)
         /\ Inj(list_del(L, e))
         /\ Range(list_del(L, e)) = Range(L) \ {e}
         /\ \A id : Sorted(L, id) => Sorted(list_del(L, e), id)
<1>1. CASE e \notin Range(L)
  BY <1>1 DEF list_del, Range
<1>2. CASE e \in Range(L)
  <2> DEFINE k == CHOOSE i \in DOMAIN L : L[i] = e
             R == UnlinkAt(L, k)
  <2>1. k \in 1 .. Len(L) /\ L[k] = e
    BY <1>2 DEF Range
  <2>2. list_del(L, e) = R
    BY <1>2 DEF list_del
  <2> HIDE DEF k
  <2>3. /\ R \in Seq(S) /\ Len(R) = Len(L) - 1
        /\ \A j \in 1 .. Len(L) - 1 : R[j] = IF j < k THEN L[j] ELSE L[j + 1]
    BY <2>1, UnlinkAtFacts
  <2> HIDE DEF R
  <2>4. /\ DOMAIN L = 1 .. Len(L) /\ DOMAIN R = 1 .. Len(L) - 1
        /\ Len(L) \in Nat
    BY <2>3, LenFacts
  <2> DEFINE f == [j \in DOMAIN R |-> IF j < k THEN j ELSE j + 1]
  <2>5. \A j \in DOMAIN R : f[j] \in DOMAIN L /\ f[j] # k /\ R[j] = L[f[j]]
    BY <2>1, <2>3, <2>4
  <2>6. /\ \A i, j \in DOMAIN R : f[i] = f[j] => i = j
        /\ \A i, j \in DOMAIN R : i <= j => f[i] <= f[j]
    BY <2>1, <2>4
  <2>7. \A i \in DOMAIN L : i # k => \E j \in DOMAIN R : f[j] = i
    <3> SUFFICES ASSUME NEW i \in DOMAIN L, i # k
                 PROVE  \E j \in DOMAIN R : f[j] = i
      OBVIOUS
    <3>1. CASE i < k
      BY <3>1, <2>1, <2>4
    <3>2. CASE i > k
      <4>1. i - 1 \in DOMAIN R /\ f[i - 1] = i
        BY <3>2, <2>1, <2>4
      <4> QED BY <4>1
    <3> QED BY <3>1, <3>2, <2>1, <2>4
  <2> HIDE DEF f
  <2>8. Inj(R)
    <3> SUFFICES ASSUME NEW i \in DOMAIN R, NEW j \in DOMAIN R, R[i] = R[j]
                 PROVE  i = j
      BY DEF Inj
    <3>1. L[f[i]] = L[f[j]] /\ f[i] \in DOMAIN L /\ f[j] \in DOMAIN L
      BY <2>5
    <3>2. f[i] = f[j]
      BY <3>1 DEF Inj
    <3> QED BY <3>2, <2>6
  <2>9. Range(R) = Range(L) \ {e}
    <3>1. ASSUME NEW j \in DOMAIN R PROVE R[j] \in Range(L) \ {e}
      BY <2>1, <2>4, <2>5 DEF Inj, Range
    <3>2. ASSUME NEW i \in DOMAIN L, L[i] # e PROVE \E j \in DOMAIN R : R[j] = L[i]
      BY <3>2, <2>1, <2>5, <2>7
    <3> QED BY <3>1, <3>2 DEF Range
  <2>10. \A id : Sorted(L, id) => Sorted(R, id)
    BY <2>5, <2>6 DEF Sorted
  <2> QED BY <2>2, <2>3, <2>8, <2>9, <2>10
<1> QED BY <1>1, <1>2

\* list_add_tail adds exactly e; the list stays sorted when e has the largest id.
LEMMA AppendFacts ==
  ASSUME NEW S, NEW L \in Seq(S), Inj(L), NEW e \in S, e \notin Range(L)
  PROVE  /\ Append(L, e) \in Seq(S)
         /\ Inj(Append(L, e))
         /\ Range(Append(L, e)) = Range(L) \cup {e}
         /\ \A id : /\ Sorted(L, id)
                    /\ id[e] <= id[e]
                    /\ \A x \in Range(L) : id[x] <= id[e]
                    => Sorted(Append(L, e), id)
<1> DEFINE R == Append(L, e)
           n == Len(L) + 1
<1>1. /\ R \in Seq(S) /\ R[n] = e
      /\ DOMAIN L = 1 .. Len(L) /\ DOMAIN R = 1 .. n /\ Len(L) \in Nat
      /\ \A i \in 1 .. Len(L) : R[i] = L[i]
  BY AppendElements, LenFacts
<1>2. /\ n \in DOMAIN R /\ n \notin DOMAIN L
      /\ \A i \in DOMAIN R : i = n \/ i \in DOMAIN L
      /\ \A i \in DOMAIN L : i \in DOMAIN R /\ i < n /\ R[i] = L[i] /\ L[i] # e
      /\ \A i \in DOMAIN L : ~(n <= i)
      /\ n <= n
  BY <1>1 DEF Range
<1> HIDE DEF R, n
<1>3. Inj(R)
  BY <1>1, <1>2 DEF Inj
<1>4. Range(R) = Range(L) \cup {e}
  <2>1. ASSUME NEW i \in DOMAIN R PROVE R[i] \in Range(L) \cup {e}
    BY <1>1, <1>2 DEF Range
  <2>2. ASSUME NEW i \in DOMAIN L PROVE L[i] \in Range(R)
    BY <1>2 DEF Range
  <2>3. e \in Range(R)
    BY <1>1, <1>2 DEF Range
  <2> QED BY <2>1, <2>2, <2>3 DEF Range
<1>5. ASSUME NEW id, Sorted(L, id), id[e] <= id[e],
             \A x \in Range(L) : id[x] <= id[e]
      PROVE  Sorted(R, id)
  <2> SUFFICES ASSUME NEW i \in DOMAIN R, NEW j \in DOMAIN R, i <= j
               PROVE  id[R[i]] <= id[R[j]]
    BY DEF Sorted
  <2>1. CASE j = n
    BY <2>1, <1>1, <1>2, <1>5 DEF Range
  <2>2. CASE j # n
    BY <2>2, <1>1, <1>2, <1>5 DEF Sorted
  <2> QED BY <2>1, <2>2
<1> QED BY <1>1, <1>3, <1>4, <1>5 DEF R

\* Taking the head off a list removes exactly the head, which in a sorted list
\* has the smallest id.
LEMMA TailFacts ==
  ASSUME NEW S, NEW L \in Seq(S), Inj(L), L # << >>
  PROVE  /\ Head(L) \in S /\ Head(L) \in Range(L)
         /\ Tail(L) \in Seq(S)
         /\ Inj(Tail(L))
         /\ Range(Tail(L)) = Range(L) \ {Head(L)}
         /\ \A id : Sorted(L, id) =>
               /\ Sorted(Tail(L), id)
               /\ \A x \in Range(L) : id[Head(L)] <= id[x]
<1> DEFINE R == Tail(L)
<1>1. /\ R \in Seq(S) /\ Head(L) = L[1] /\ Len(L) \in Nat \ {0}
      /\ DOMAIN L = 1 .. Len(L) /\ DOMAIN R = 1 .. Len(L) - 1
      /\ \A i \in 1 .. Len(L) - 1 : R[i] = L[i + 1]
  BY HeadTailFacts, LenFacts
<1>2. /\ 1 \in DOMAIN L
      /\ \A i \in DOMAIN R : i + 1 \in DOMAIN L /\ i + 1 # 1 /\ R[i] = L[i + 1]
      /\ \A i \in DOMAIN L : 1 <= i /\ (i # 1 => \E j \in DOMAIN R : j + 1 = i)
      /\ \A i, j \in DOMAIN R : /\ i + 1 = j + 1 => i = j
                               /\ i <= j => i + 1 <= j + 1
  <2>1. \A i \in DOMAIN L : i # 1 => i - 1 \in DOMAIN R /\ (i - 1) + 1 = i
    BY <1>1
  <2> QED BY <1>1, <2>1
<1>3. L[1] \in Range(L) /\ L[1] \in S
  BY <1>2, LenFacts, <1>1 DEF Range
<1> HIDE DEF R
<1>4. Inj(R)
  <2> SUFFICES ASSUME NEW i \in DOMAIN R, NEW j \in DOMAIN R, R[i] = R[j]
               PROVE  i = j
    BY DEF Inj
  <2>1. L[i + 1] = L[j + 1] /\ i + 1 \in DOMAIN L /\ j + 1 \in DOMAIN L
    BY <1>2
  <2>2. i + 1 = j + 1
    BY <2>1 DEF Inj
  <2> QED BY <2>2, <1>2
<1>5. Range(R) = Range(L) \ {L[1]}
  <2>1. ASSUME NEW j \in DOMAIN R PROVE R[j] \in Range(L) \ {L[1]}
    BY <1>2 DEF Inj, Range
  <2>2. ASSUME NEW i \in DOMAIN L, L[i] # L[1] PROVE \E j \in DOMAIN R : R[j] = L[i]
    BY <2>2, <1>2
  <2> QED BY <2>1, <2>2 DEF Range
<1>6. \A id : Sorted(L, id) => Sorted(R, id)
  BY <1>2 DEF Sorted
<1>7. \A id : Sorted(L, id) => \A x \in Range(L) : id[L[1]] <= id[x]
  BY <1>2 DEF Sorted, Range
<1> QED BY <1>1, <1>3, <1>4, <1>5, <1>6, <1>7 DEF R

\* A nonempty set of naturals has a least element.
LEMMA NatMin ==
  ASSUME NEW T \in SUBSET Nat, T # {}
  PROVE  \E m \in T : \A n \in T : m <= n
<1>1. PICK m \in T : \A n \in T : ~(<<n, m>> \in OpToRel(<, Nat))
  BY Zenon, WFMin, NatLessThanWellFounded
<1>2. \A n \in T : ~(n < m)
  BY Zenon, <1>1 DEF OpToRel
<1> QED BY <1>2

\* The scan from the tail stops somewhere.
LEMMA ScanStops ==
  ASSUME NEW S, NEW L \in Seq(S), NEW e, NEW id
  PROVE  \E i \in 0 .. Len(L) :
            /\ i > 0 => id[L[i]] < id[e]
            /\ \A j \in i + 1 .. Len(L) : ~(id[L[j]] < id[e])
<1> DEFINE N == Len(L)
           P(i) == i = 0 \/ id[L[i]] < id[e]
           T == {n \in 0 .. N : P(N - n)}
<1>1. N \in Nat
  BY LenFacts
<1> HIDE DEF N
<1>2. T \in SUBSET Nat /\ N \in T
  BY <1>1
<1>3. PICK m \in T : \A n \in T : m <= n
  BY Zenon, <1>2, NatMin
<1>4. /\ N - m \in 0 .. N
      /\ N - m > 0 => id[L[N - m]] < id[e]
  BY <1>1, <1>3
<1>5. ASSUME NEW j \in (N - m) + 1 .. N PROVE ~(id[L[j]] < id[e])
  <2>1. N - j \in 0 .. N /\ ~(m <= N - j) /\ N - (N - j) = j
    BY <1>1, <1>3
  <2>2. N - j \notin T
    BY <2>1, <1>3
  <2> QED BY <2>1, <2>2
<1> QED BY <1>4, <1>5 DEF N

\* The insertion of taskq_insert_in_order and task_expire adds exactly e and
\* keeps a sorted list sorted.
LEMMA InsertFacts ==
  ASSUME NEW S, NEW L \in Seq(S), Inj(L), NEW e \in S, e \notin Range(L), NEW id
  PROVE  /\ InsertById(L, e, id) \in Seq(S)
         /\ Inj(InsertById(L, e, id))
         /\ Range(InsertById(L, e, id)) = Range(L) \cup {e}
         /\ Sorted(L, id) /\ id \in [S -> Nat] => Sorted(InsertById(L, e, id), id)
<1> DEFINE p == CHOOSE i \in 0 .. Len(L) :
                  /\ i > 0 => id[L[i]] < id[e]
                  /\ \A j \in i + 1 .. Len(L) : ~(id[L[j]] < id[e])
           q == p + 1
           R == LinkAt(L, q, e)
<1>1. /\ p \in 0 .. Len(L)
      /\ p > 0 => id[L[p]] < id[e]
      /\ \A j \in p + 1 .. Len(L) : ~(id[L[j]] < id[e])
  BY Zenon, ScanStops
<1>2. InsertById(L, e, id) = R
  BY DEF InsertById
<1> HIDE DEF p
<1>3. Len(L) \in Nat /\ DOMAIN L = 1 .. Len(L) /\ \A i \in DOMAIN L : L[i] \in S
  BY LenFacts
<1>4. q \in 1 .. Len(L) + 1
  BY <1>1, <1>3
<1> HIDE DEF q
<1>5. /\ R \in Seq(S) /\ Len(R) = Len(L) + 1
      /\ \A j \in 1 .. Len(L) + 1 :
            R[j] = IF j < q THEN L[j] ELSE IF j = q THEN e ELSE L[j - 1]
  BY <1>4, LinkAtFacts
<1> HIDE DEF R
<1>6. DOMAIN R = 1 .. Len(L) + 1
  BY <1>5, LenFacts
<1> DEFINE g == [j \in DOMAIN R |-> IF j < q THEN j ELSE j - 1]
<1>7. /\ q \in DOMAIN R /\ R[q] = e
      /\ \A j \in DOMAIN R : j # q => g[j] \in DOMAIN L /\ R[j] = L[g[j]]
  BY <1>1, <1>3, <1>5, <1>6 DEF q
<1>8. \A i, j \in DOMAIN R : i # q /\ j # q =>
         /\ g[i] = g[j] => i = j
         /\ i <= j => g[i] <= g[j]
  BY <1>1, <1>3, <1>6 DEF q
<1>9. \A i \in DOMAIN L : \E j \in DOMAIN R : j # q /\ g[j] = i
  <2> SUFFICES ASSUME NEW i \in DOMAIN L
               PROVE  \E j \in DOMAIN R : j # q /\ g[j] = i
    OBVIOUS
  <2>1. CASE i < q
    <3>1. i \in DOMAIN R /\ i # q /\ g[i] = i
      BY <2>1, <1>1, <1>3, <1>6 DEF q
    <3> QED BY <3>1
  <2>2. CASE ~(i < q)
    <3>1. i + 1 \in DOMAIN R /\ i + 1 # q /\ g[i + 1] = i
      BY SMTT(60), <2>2, <1>1, <1>3, <1>6 DEF q
    <3> QED BY <3>1
  <2> QED BY <2>1, <2>2
<1>10. /\ \A j \in DOMAIN R : q <= j /\ j # q => g[j] \in q .. Len(L)
       /\ \A i \in DOMAIN R : i <= q /\ i # q => p > 0 /\ p \in DOMAIN L /\ g[i] <= p
  BY <1>1, <1>3, <1>6 DEF q
<1> HIDE DEF g
<1>11. Inj(R)
  <2> SUFFICES ASSUME NEW i \in DOMAIN R, NEW j \in DOMAIN R, R[i] = R[j]
               PROVE  i = j
    BY DEF Inj
  <2>1. CASE i = q \/ j = q
    BY <2>1, <1>7 DEF Range
  <2>2. CASE i # q /\ j # q
    <3>1. L[g[i]] = L[g[j]] /\ g[i] \in DOMAIN L /\ g[j] \in DOMAIN L
      BY <2>2, <1>7
    <3>2. g[i] = g[j]
      BY <3>1 DEF Inj
    <3> QED BY <3>2, <2>2, <1>8
  <2> QED BY <2>1, <2>2
<1>12. Range(R) = Range(L) \cup {e}
  <2>1. ASSUME NEW i \in DOMAIN R PROVE R[i] \in Range(L) \cup {e}
    BY <1>7 DEF Range
  <2>2. ASSUME NEW i \in DOMAIN L PROVE L[i] \in Range(R)
    BY <1>7, <1>9 DEF Range
  <2>3. e \in Range(R)
    BY <1>7 DEF Range
  <2> QED BY <2>1, <2>2, <2>3 DEF Range
<1>13. ASSUME Sorted(L, id), id \in [S -> Nat] PROVE Sorted(R, id)
  <2> SUFFICES ASSUME NEW i \in DOMAIN R, NEW j \in DOMAIN R, i <= j
               PROVE  id[R[i]] <= id[R[j]]
    BY DEF Sorted
  <2>0. \A x \in S : id[x] \in Nat
    BY <1>13
  <2>1. CASE i = q /\ j = q
    BY <2>0, <2>1, <1>7
  <2>2. CASE i = q /\ j # q
    <3>1. g[j] \in q .. Len(L) /\ g[j] \in DOMAIN L /\ R[j] = L[g[j]]
      BY <2>2, <1>7, <1>10
    <3>2. ~(id[L[g[j]]] < id[e])
      BY <3>1, <1>1 DEF q
    <3> QED BY <2>0, <2>2, <3>1, <3>2, <1>3, <1>7
  <2>3. CASE i # q /\ j = q
    <3>1. p > 0 /\ p \in DOMAIN L /\ g[i] <= p /\ g[i] \in DOMAIN L /\ R[i] = L[g[i]]
      BY <2>3, <1>7, <1>10
    <3>2. id[L[g[i]]] <= id[L[p]] /\ id[L[p]] < id[e]
      BY <3>1, <1>1, <1>13 DEF Sorted
    <3> QED BY <2>0, <2>3, <3>1, <3>2, <1>3, <1>7
  <2>4. CASE i # q /\ j # q
    BY SMTT(60), <2>4, <1>7, <1>8, <1>13 DEF Sorted
  <2> QED BY <2>1, <2>2, <2>3, <2>4
<1> QED BY <1>2, <1>5, <1>11, <1>12, <1>13

\* On a sorted list, the head alone decides the minimum of the ids and n: the
\* step taskq_lowest_id takes for each list.
LEMMA HeadOrFacts ==
  ASSUME NEW S, NEW L \in Seq(S), Inj(L), NEW id \in [S -> Nat], Sorted(L, id),
         NEW n \in Nat
  PROVE  /\ HeadOr(L, id, n) \in Nat /\ HeadOr(L, id, n) <= n
         /\ \A x \in Range(L) : HeadOr(L, id, n) <= id[x]
         /\ HeadOr(L, id, n) = n \/ \E x \in Range(L) : HeadOr(L, id, n) = id[x]
<1>1. Range(L) \subseteq S
  BY LenFacts DEF Range
<1>2. CASE L = << >>
  BY <1>2 DEF HeadOr, Range
<1>3. CASE L # << >>
  <2>1. /\ Head(L) \in S /\ Head(L) \in Range(L)
        /\ \A x \in Range(L) : id[Head(L)] <= id[x]
    BY <1>3, TailFacts
  <2> QED BY <1>1, <1>3, <2>1 DEF HeadOr
<1> QED BY <1>2, <1>3

\* Whether a list is sorted depends on the ids of its elements only.
LEMMA SortedLocal ==
  ASSUME NEW S, NEW L \in Seq(S), NEW f, NEW g, Sorted(L, f),
         \A x \in Range(L) : f[x] = g[x]
  PROVE  Sorted(L, g)
BY DEF Sorted, Range

\* list_del and InsertById return lists of what they were given, whatever the
\* state of the list.
LEMMA DelInSeq ==
  ASSUME NEW S, NEW L \in Seq(S), NEW e
  PROVE  list_del(L, e) \in Seq(S)
<1> DEFINE k == CHOOSE i \in DOMAIN L : L[i] = e
<1>1. CASE e \in Range(L)
  <2>1. k \in 1 .. Len(L)
    BY <1>1 DEF Range
  <2> HIDE DEF k
  <2>2. UnlinkAt(L, k) \in Seq(S)
    BY <2>1, UnlinkAtFacts
  <2> QED BY <1>1, <2>2 DEF list_del, k
<1> QED BY <1>1 DEF list_del

\* The list with a new element inserted by id holds elements of the same set.
LEMMA InsertInSeq ==
  ASSUME NEW S, NEW L \in Seq(S), NEW e \in S, NEW id
  PROVE  InsertById(L, e, id) \in Seq(S)
<1> DEFINE p == CHOOSE i \in 0 .. Len(L) :
                  /\ i > 0 => id[L[i]] < id[e]
                  /\ \A j \in i + 1 .. Len(L) : ~(id[L[j]] < id[e])
           q == p + 1
<1>1. p \in 0 .. Len(L)
  BY Zenon, ScanStops
<1> HIDE DEF p
<1>2. q \in 1 .. Len(L) + 1
  BY <1>1, LenFacts
<1> HIDE DEF q
<1>3. LinkAt(L, q, e) \in Seq(S)
  BY <1>2, LinkAtFacts
<1> QED BY <1>3 DEF InsertById, p, q

=============================================================================
