------------------------------ MODULE Division ------------------------------
(***************************************************************************)
(* The 64-bit division that module/spl/spl-generic.c supplies for 32-bit   *)
(* machines, with a word of 2 * Half bits instead of 64 and its arithmetic *)
(* modulo the word.  Signed numbers are two's complement patterns.         *)
(***************************************************************************)
EXTENDS Integers

CONSTANTS Half      \* bits in half a word, a power of two (32 in the code)

VARIABLES
    u, v,           \* the operands, as patterns
    out             \* the results, once computed

vars == <<u, v, out>>

Bits == 2 * Half
Uint == 0 .. 2 ^ Bits - 1
uint(n) == n % 2 ^ Bits
shl(n, k) == uint(n * 2 ^ k)
shr(n, k) == n \div 2 ^ k
Signed(n) == IF n < 2 ^ (Bits - 1) THEN n ELSE n - 2 ^ Bits
Neg(n) == uint(-n)

\* nlz64: half a word, a quarter, ... down to one bit.
nlz64(n) ==
    LET steps == CHOOSE k \in 1 .. 6 : 2 ^ (k - 1) = Half
        Step(k, st) == LET s == 2 ^ (steps - k)
                       IN  IF st.x <= 2 ^ (Bits - s) - 1
                           THEN [n |-> st.n + s, x |-> shl(st.x, s)] ELSE st
        scan[k \in 0 .. steps] == IF k = 0 THEN [n |-> 0, x |-> n] ELSE Step(k, scan[k - 1])
    IN  IF n = 0 THEN Bits ELSE scan[steps].n

\* The estimate is taken as it is when it is zero or exact.
Mut_udivdi3(a, b) ==
    IF shr(b, Half) = 0
    THEN IF shr(a, Half) < b THEN a \div b
         ELSE LET q1 == shr(a, Half) \div b
                  k == uint(shr(a, Half) - q1 * b)
                  q0 == uint((a % 2 ^ Half) + shl(k, Half)) \div b
              IN  uint(shl(q1, Half) + q0)
    ELSE LET n == nlz64(b)
             v1 == shr(shl(b, n), Half)
             q1 == shr(a, 1) \div v1
             q0 == shr(shl(q1, n), Half - 1)
         IN  IF uint(a - q0 * b) >= b THEN uint(q0 + 1) ELSE q0

__udivdi3(a, b) ==
    IF shr(b, Half) = 0
    THEN IF shr(a, Half) < b THEN a \div b
         ELSE LET q1 == shr(a, Half) \div b
                  k == uint(shr(a, Half) - q1 * b)
                  q0 == uint((a % 2 ^ Half) + shl(k, Half)) \div b
              IN  uint(shl(q1, Half) + q0)
    ELSE LET n == nlz64(b)
             v1 == shr(shl(b, n), Half)
             q1 == shr(a, 1) \div v1
             est == shr(shl(q1, n), Half - 1)
             q0 == IF est # 0 THEN est - 1 ELSE est
         IN  IF uint(a - q0 * b) >= b THEN uint(q0 + 1) ELSE q0

\* abs64, and the negation of a quotient by xor and subtraction of a mask.
abs64(n) == IF Signed(n) < 0 THEN Neg(n) ELSE n
Differ(a, b) == (Signed(a) < 0) # (Signed(b) < 0)

__divdi3(a, b) ==
    LET q == __udivdi3(abs64(a), abs64(b)) IN IF Differ(a, b) THEN Neg(q) ELSE q

__umoddi3(a, b) == uint(a - b * __udivdi3(a, b))

\* The quotient and the remainder of __divmoddi4.
__divmoddi4(a, b) ==
    LET q == __udivdi3(abs64(a), abs64(b))
        r == uint(abs64(a) - abs64(b) * q)
    IN  <<IF Differ(a, b) THEN Neg(q) ELSE q, IF Signed(a) < 0 THEN Neg(r) ELSE r>>

__aeabi_ldivmod(a, b) == <<__divdi3(a, b), __umoddi3(a, b)>>

Init == u \in Uint /\ v \in Uint \ {0} /\ out = <<>>

Divide ==
    /\ out = <<>>
    /\ out' = [udiv |-> __udivdi3(u, v), umod |-> __umoddi3(u, v), div |-> __divdi3(u, v),
               divmod |-> __divmoddi4(u, v), ldivmod |-> __aeabi_ldivmod(u, v)]
    /\ UNCHANGED <<u, v>>

Spec == Init /\ [][Divide]_vars

------------------------------------------------------------------------------
\* The quotient of |a| and |b|, cut off at zero, as C divides.
Quot(a, b) ==
    LET abs(n) == IF n < 0 THEN -n ELSE n
        q == abs(a) \div abs(b)
    IN  IF (a < 0) # (b < 0) THEN -q ELSE q

\* __udivdi3, __umoddi3 and __udivmoddi4 are division and remainder, though the
\* algorithm estimates the quotient from the leading half of the divisor and works
\* in one word: its estimate, less one, is right or one too small.
UnsignedExact == out # <<>> => out.udiv = u \div v /\ out.umod = u % v

\* __divdi3 and __divmoddi4 are the division of C for every pair of signs; the one
\* quotient that does not fit, of the least number by -1, wraps.
SignedExact ==
    out # <<>> =>
        LET q == Quot(Signed(u), Signed(v))
        IN  /\ out.div = uint(q)
            /\ out.divmod = <<uint(q), uint(Signed(u) - q * Signed(v))>>

\* __aeabi_ldivmod returns "the quotient in {r0, r1}, and the remainder in {r2, r3}"
\* of the same division.
LdivmodExact ==
    out # <<>> =>
        LET q == Quot(Signed(u), Signed(v))
        IN  out.ldivmod = <<uint(q), uint(Signed(u) - q * Signed(v))>>

=============================================================================
