------------------------------ MODULE MCLibrary -----------------------------
(* The library functions: XDR streams, 64-bit division, string to integer,   *)
(* the group search and the layout of a slab.  A behaviour runs the one that *)
(* part names; the variables of the others stay 0, those of Groups in a      *)
(* state with no groups.                                                     *)
EXTENDS Groups, Sequences

CONSTANTS
    Base, Size, MaxItems,                   \* of Xdr
    DivHalf,                                \* Half of Division
    Width, Bases, Chars, MaxLen,            \* of Strtol: the alphabet and the longest string
    SizeBits, Page, MB, SlabHeader, ObjHeader, MaxOrderPages, MaxSize, Aligns,
    PerSlab, PerSlabMin, MaxMB, KmemLimit   \* of KmemSize: the largest object

VARIABLES
    phase, xdrs, items, decoded, damaged,
    u, v, quot,
    str, signed, asked, start, base, ptr, value, st_rc, result, endptr,
    req, layout,
    part

Type(t, n, max, el) == [t |-> t, n |-> n, max |-> max, el |-> el]
Scalar(t, vals) == {[type |-> Type(t, 0, 0, ""), val |-> val] : val \in vals}
Opaque(vals) == {[type |-> Type("opaque", Len(val), 0, ""), val |-> val] : val \in vals}
String(max, vals) == {[type |-> Type("string", 0, max, ""), val |-> val] : val \in vals}
Array(max, el, vals) == {[type |-> Type("array", 0, max, el), val |-> val] : val \in vals}
Ones(n) == [i \in 1 .. n |-> 1]
Top == Base ^ 4 - 1

\* Sizes around a word, at the limits of the caller, and near UINT_MAX.
ItemsOfAllTypes ==
    Scalar("char", {0, 1}) \cup Scalar("ushort", {2}) \cup Scalar("uint", {Top})
        \cup Scalar("ulonglong", {2 * Top})
        \cup Opaque({<<>>, <<1>>, <<0, 1, 0, 1>>, Ones(Top)})
        \cup String(5, {<<>>, Ones(3), Ones(5), Ones(6)})
        \cup Array(2, "char", {<<>>, <<1, 0>>, <<1, 1, 1>>})
        \cup Array(Top, "ulonglong", {<<2 * Top>>})
        \cup Array(Top, "uint", {<<3, 1>>})

X == INSTANCE Xdr WITH Items <- ItemsOfAllTypes, Damage <- 1 .. Size

D == INSTANCE Division WITH Half <- DivHalf, out <- quot

S == INSTANCE Strtol WITH
    Strings <- UNION {[1 .. n -> Chars] : n \in 0 .. MaxLen}, rc <- st_rc

Z == INSTANCE KmemSize WITH Bits <- SizeBits, Sizes <- 1 .. MaxSize, out <- layout

xdr == <<phase, xdrs, items, decoded, damaged>>
div == <<u, v, quot>>
strtol == <<str, signed, asked, start, base, ptr, value, st_rc, result, endptr>>
slab == <<req, layout>>

XdrInit ==
    IF part = "xdr" THEN X!Init
    ELSE phase = 0 /\ xdrs = 0 /\ items = 0 /\ decoded = 0 /\ damaged = 0
DivInit == IF part = "division" THEN D!Init ELSE u = 0 /\ v = 0 /\ quot = 0
StrtolInit ==
    IF part = "strtol" THEN S!Init
    ELSE /\ str = 0 /\ signed = 0 /\ asked = 0 /\ start = 0 /\ base = 0
         /\ ptr = 0 /\ value = 0 /\ st_rc = 0 /\ result = 0 /\ endptr = 0
GroupsInit == (part # "groups" => ngroups = 0 /\ grp = 0) /\ Init
SlabInit == IF part = "slab" THEN Z!Init ELSE req = 0 /\ layout = 0

LibInit ==
    /\ part \in {"xdr", "division", "strtol", "groups", "slab"}
    /\ XdrInit /\ DivInit /\ StrtolInit /\ GroupsInit /\ SlabInit

LibNext ==
    \/ part = "xdr" /\ X!Next /\ UNCHANGED <<div, strtol, vars, slab, part>>
    \/ part = "division" /\ D!Divide /\ UNCHANGED <<xdr, strtol, vars, slab, part>>
    \/ part = "strtol" /\ S!Next /\ UNCHANGED <<xdr, div, vars, slab, part>>
    \/ part = "groups" /\ Next /\ UNCHANGED <<xdr, div, strtol, slab, part>>
    \/ part = "slab" /\ Z!Create /\ UNCHANGED <<xdr, div, strtol, vars, part>>

LibSpec == LibInit /\ [][LibNext]_<<xdr, div, strtol, vars, slab, part>>

------------------------------------------------------------------------------
\* What XDR encoded is decoded again, item by item, up to the operation that failed
\* first; encoding fails only for lack of room or for an item larger than the caller
\* allows, and takes exactly the room of the items.  Whatever is decoded from a buffer,
\* changed or not, encodes to the bytes it was decoded from, and the memory that
\* decoding has allocated is what its successful operations returned, though lengths
\* come from the stream.
XdrExact ==
    part = "xdr" => X!TypeOK /\ X!EncodeExact /\ X!RoundTrip /\ X!Canonical /\ X!MemoryExact

\* __udivdi3, __umoddi3, __udivmoddi4, __divdi3 and __divmoddi4 are the division of C for
\* every pair of operands and signs; the conversion of a string whose number fits the
\* type gives that number and leaves endptr at the first character that is no digit.
NumbersExact ==
    /\ part = "division" => D!UnsignedExact /\ D!SignedExact
    /\ part = "strtol" => S!TypeOK /\ S!Exact

\* The slab header and the objects that spl_slab_size counts fit the slab, each object
\* aligned, though the sizes are computed in the width of a uint32_t; and the memory of a
\* KMC_KMEM slab is a power of two of bytes that the allocator gives, as kv_alloc asserts.
SlabFits == part = "slab" => Z!Fits /\ Z!KvAllocAsserts

=============================================================================
