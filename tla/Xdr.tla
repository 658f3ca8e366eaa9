-------------------------------- MODULE Xdr ---------------------------------
(***************************************************************************)
(* The memory streams of module/spl/spl-xdr.c: a caller encodes items into *)
(* a buffer until it is done or an operation fails, the buffer may change  *)
(* on its way, and another caller decodes items of the same types.         *)
(*                                                                         *)
(* A byte has Base values instead of 256, a word is still four bytes, so   *)
(* that UINT_MAX is Base^4 - 1 and the sizes near it are within reach.     *)
(***************************************************************************)
EXTENDS Integers, Sequences, SequencesExt

CONSTANTS
    Base,       \* values of a byte
    Size,       \* bytes in the buffer
    Items,      \* what may be encoded: [type, val]
    MaxItems,   \* bound of the items in a stream
    Damage      \* bytes that may be changed between encoding and decoding

VARIABLES
    phase,      \* "encode", "decode"
    xdrs,       \* the stream: [ok, pos, buf], and what decoding allocated
    items,      \* the items that were encoded, and last the one that failed
    decoded,    \* the values decoded, each with whether memory was allocated for it
    damaged     \* the buffer has changed

vars == <<phase, xdrs, items, decoded, damaged>>

Byte == 0 .. Base - 1
UINT_MAX == Base ^ 4 - 1
uint(n) == n % (UINT_MAX + 1)
roundup4(n) == (uint(n + 3) \div 4) * 4
be32(n) == <<n \div Base^3, (n \div Base^2) % Base, (n \div Base) % Base, n % Base>>
value(b) == b[1] * Base^3 + b[2] * Base^2 + b[3] * Base + b[4]
Zeros(n) == [i \in 1 .. n |-> 0]
sizeof(t) == CASE t = "char" -> 1 [] t = "uint" -> 4 [] t = "ulonglong" -> 8

Fail(st) == [st EXCEPT !.ok = FALSE]
NoMemory(st) == [Fail(st) EXCEPT !.nomem = TRUE]

\* The bytes b are stored at the position, which moves on.
Put(st, b) ==
    [st EXCEPT !.pos = @ + Len(b),
               !.buf = [i \in DOMAIN @ |->
                           IF i - st.pos \in DOMAIN b THEN b[i - st.pos] ELSE @[i]]]

------------------------------------------------------------------------------
(* Encoding.                                                                 *)

xdrmem_enc_uint32(st, n) == IF st.pos + 4 > Size THEN Fail(st) ELSE Put(st, be32(n))

xdrmem_enc_bytes(st, b) ==
    LET size == roundup4(Len(b))
    IN  IF size < Len(b) \/ st.pos > Size \/ Size - st.pos < size THEN Fail(st)
        ELSE Put(st, b \o Zeros(size - Len(b)))

xdrmem_enc_ulonglong(st, n) ==
    LET high == xdrmem_enc_uint32(st, n \div (UINT_MAX + 1))
    IN  IF high.ok THEN xdrmem_enc_uint32(high, n % (UINT_MAX + 1)) ELSE high

\* xdr_char, xdr_u_short and xdr_u_int take a word each.
EncScalar(st, t, n) ==
    IF t = "ulonglong" THEN xdrmem_enc_ulonglong(st, n) ELSE xdrmem_enc_uint32(st, n)

xdr_enc_array(st, a, maxsize, el) ==
    IF Len(a) > maxsize \/ Len(a) > UINT_MAX \div sizeof(el) THEN Fail(st)
    ELSE FoldLeft(LAMBDA s, n : IF s.ok THEN EncScalar(s, el, n) ELSE s,
                  xdrmem_enc_uint32(st, Len(a)), a)

xdr_enc_string(st, s, maxsize) ==
    IF Len(s) > maxsize THEN Fail(st)
    ELSE LET len == xdrmem_enc_uint32(st, Len(s))
         IN  IF len.ok THEN xdrmem_enc_bytes(len, s) ELSE len

Enc(st, type, val) ==
    CASE type.t = "opaque" -> xdrmem_enc_bytes(st, val)
      [] type.t = "string" -> xdr_enc_string(st, val, type.max)
      [] type.t = "array"  -> xdr_enc_array(st, val, type.max, type.el)
      [] OTHER             -> EncScalar(st, type.t, val)

------------------------------------------------------------------------------
(* Decoding: st.val is what the last operation decoded.                      *)

xdrmem_dec_uint32(st) ==
    IF st.pos + 4 > Size THEN Fail(st)
    ELSE [st EXCEPT !.val = value(SubSeq(st.buf, st.pos + 1, st.pos + 4)), !.pos = @ + 4]

xdrmem_dec_bytes(st, cnt) ==
    LET size == roundup4(cnt)
        data == SubSeq(st.buf, st.pos + 1, st.pos + cnt)
    IN  IF size < cnt \/ st.pos > Size \/ Size - st.pos < size THEN Fail(st)
        ELSE IF SubSeq(st.buf, st.pos + cnt + 1, st.pos + size) # Zeros(size - cnt)
             THEN Fail([st EXCEPT !.pos = @ + cnt])
             ELSE [st EXCEPT !.val = data, !.pos = @ + size]

\* xdrmem_dec_char and xdrmem_dec_ushort refuse a word that is too large.
DecSmall(st, max) ==
    LET w == xdrmem_dec_uint32(st) IN IF w.ok /\ w.val > max THEN Fail(w) ELSE w

xdrmem_dec_ulonglong(st) ==
    LET high == xdrmem_dec_uint32(st)
        low == xdrmem_dec_uint32(high)
    IN  IF ~high.ok THEN high
        ELSE IF ~low.ok THEN low
             ELSE [low EXCEPT !.val = high.val * (UINT_MAX + 1) + low.val]

DecScalar(st, t) ==
    CASE t = "char"      -> DecSmall(st, Base - 1)
      [] t = "ushort"    -> DecSmall(st, Base^2 - 1)
      [] t = "uint"      -> xdrmem_dec_uint32(st)
      [] t = "ulonglong" -> xdrmem_dec_ulonglong(st)

\* Memory of room bytes is there for the result, of which need are going to be
\* written: the caller's, or allocated if his pointer is NULL.
Memory(st, null, room, need, callers) ==
    [st EXCEPT !.live = IF null THEN @ + 1 ELSE @,
               !.spilt = @ \/ need > (IF null THEN room ELSE callers)]

\* What was allocated is freed on failure.
Release(st, null) == IF st.ok \/ ~null THEN st ELSE [st EXCEPT !.live = @ - 1]

xdr_dec_array(st, maxsize, el, null, nomem) ==
    LET len == xdrmem_dec_uint32(st)
        size == len.val
        mem == Memory([len EXCEPT !.val = <<>>], null, uint(size * sizeof(el)),
                      size * sizeof(el), maxsize * sizeof(el))
        Element(s, i) == LET r == DecScalar(s, el)
                         IN  IF ~s.ok THEN s ELSE IF ~r.ok THEN r
                             ELSE [r EXCEPT !.val = Append(s.val, @)]
    IN  IF ~len.ok THEN len
        ELSE IF size > maxsize \/ size > UINT_MAX \div sizeof(el) THEN Fail(len)
        ELSE IF null /\ nomem THEN NoMemory(len)
        ELSE Release(FoldLeft(Element, mem, [i \in 1 .. size |-> i]), null)

\* The memory is not freed when the string has a zero byte.
MutDecString(st, maxsize, null, nomem) ==
    LET len == xdrmem_dec_uint32(st)
        size == len.val
        mem == Memory(len, null, uint(size + 1), size + 1, maxsize + 1)
        data == xdrmem_dec_bytes(mem, size)
    IN  IF ~len.ok THEN len
        ELSE IF size > maxsize \/ size > UINT_MAX - 1 THEN Fail(len)
        ELSE IF null /\ nomem THEN NoMemory(len)
        ELSE IF data.ok /\ Contains(data.val, 0) THEN Fail(data) ELSE Release(data, null)

xdr_dec_string(st, maxsize, null, nomem) ==
    LET len == xdrmem_dec_uint32(st)
        size == len.val
        mem == Memory(len, null, uint(size + 1), size + 1, maxsize + 1)
        data == xdrmem_dec_bytes(mem, size)
    IN  IF ~len.ok THEN len
        ELSE IF size > maxsize \/ size > UINT_MAX - 1 THEN Fail(len)
        ELSE IF null /\ nomem THEN NoMemory(len)
        ELSE Release(IF data.ok /\ Contains(data.val, 0) THEN Fail(data) ELSE data, null)

Dec(st, type, null, nomem) ==
    CASE type.t = "opaque" -> xdrmem_dec_bytes(st, type.n)
      [] type.t = "string" -> xdr_dec_string(st, type.max, null, nomem)
      [] type.t = "array"  -> xdr_dec_array(st, type.max, type.el, null, nomem)
      [] OTHER             -> DecScalar(st, type.t)

------------------------------------------------------------------------------
\* xdrmem_create on a buffer that holds anything.
xdrmem_create(buf) ==
    [ok |-> TRUE, pos |-> 0, buf |-> buf, val |-> 0, live |-> 0, spilt |-> FALSE, nomem |-> FALSE]

Init ==
    /\ phase = "encode"
    /\ \E junk \in Byte : xdrs = xdrmem_create([i \in 1 .. Size |-> junk])
    /\ items = <<>> /\ decoded = <<>> /\ damaged = FALSE

Encode(it) ==
    /\ phase = "encode" /\ xdrs.ok /\ Len(items) < MaxItems
    /\ xdrs' = Enc(xdrs, it.type, it.val)
    /\ items' = Append(items, it)
    /\ UNCHANGED <<phase, decoded, damaged>>

\* The buffer is handed over, as it is or with a byte changed.
HandOver ==
    /\ phase = "encode"
    /\ phase' = "decode"
    /\ \/ xdrs' = xdrmem_create(xdrs.buf) /\ UNCHANGED damaged
       \/ \E i \in Damage \cap 1 .. Size, b \in Byte :
             /\ b # xdrs.buf[i]
             /\ xdrs' = xdrmem_create([xdrs.buf EXCEPT ![i] = b])
             /\ damaged' = TRUE
    /\ UNCHANGED <<items, decoded>>

Decode(null, nomem) ==
    /\ phase = "decode" /\ xdrs.ok /\ Len(decoded) < Len(items)
    /\ LET type == items[Len(decoded) + 1].type
       IN  /\ type.t \notin {"string", "array"} => ~null
           /\ nomem => null
           /\ xdrs' = Dec(xdrs, type, null, nomem)
    /\ decoded' = IF xdrs'.ok THEN Append(decoded, [val |-> xdrs'.val, alloc |-> null])
                  ELSE decoded
    /\ UNCHANGED <<phase, items, damaged>>

Next ==
    \/ \E it \in Items : Encode(it)
    \/ HandOver
    \/ \E null, nomem \in BOOLEAN : Decode(null, nomem)

Spec == Init /\ [][Next]_vars

------------------------------------------------------------------------------
\* The stream is a buffer of Size bytes and its position stays within it, in every
\* operation that succeeds and in those that fail half-way.
TypeOK ==
    /\ phase \in {"encode", "decode"}
    /\ xdrs.ok \in BOOLEAN /\ xdrs.pos \in 0 .. Size
    /\ xdrs.buf \in Seq(Byte) /\ Len(xdrs.buf) = Size
    /\ damaged \in BOOLEAN

\* The room that an item needs, and whether it may be encoded at all.
Words(type, val) ==
    CASE type.t = "ulonglong" -> 2
      [] type.t = "opaque"    -> (Len(val) + 3) \div 4
      [] type.t = "string"    -> 1 + (Len(val) + 3) \div 4
      [] type.t = "array"     -> 1 + Len(val) * (IF type.el = "ulonglong" THEN 2 ELSE 1)
      [] OTHER                -> 1
Allowed(type, val) == type.t \in {"string", "array"} => Len(val) <= type.max
Room(s) == FoldLeft(LAMBDA n, it : n + 4 * Words(it.type, it.val), 0, s)

\* Encoding fails only for lack of room or for an item larger than the caller
\* allows, and takes exactly the room of the items.
EncodeExact ==
    phase = "encode" =>
        /\ xdrs.ok => xdrs.pos = Room(items)
        /\ ~xdrs.ok => \/ Room(items) > Size
                       \/ ~Allowed(Last(items).type, Last(items).val)

\* What was encoded is decoded again, item by item, up to the operation that
\* failed first ("the stream should be considered valid only up to the encoding
\* operation previous to the one that first failed").
RoundTrip ==
    ~damaged /\ phase = "decode" =>
        LET Valid(k) == Room(SubSeq(items, 1, k)) <= Size /\ Allowed(items[k].type, items[k].val)
        IN  /\ \A k \in DOMAIN decoded : Valid(k) => decoded[k].val = items[k].val
            /\ ~xdrs.ok => xdrs.nomem \/ ~Valid(Len(decoded) + 1)

\* Only one encoding of a value is accepted: whatever is decoded from a buffer,
\* damaged or not, encodes to the bytes it was decoded from, so that padding, the
\* high bytes of small integers and lengths are all tested.
Canonical ==
    phase = "decode" /\ xdrs.ok =>
        LET st == FoldLeft(LAMBDA s, k : Enc(s, items[k].type, decoded[k].val),
                           xdrmem_create(Zeros(Size)), [k \in DOMAIN decoded |-> k])
        IN  /\ st.ok /\ st.pos = xdrs.pos
            /\ SubSeq(st.buf, 1, st.pos) = SubSeq(xdrs.buf, 1, xdrs.pos)

\* The memory that decoding has allocated is what its successful operations
\* returned: a decode that fails half-way has freed its own, and nothing is
\* written beyond it, though lengths come from the stream and products of them
\* may be larger than an unsigned int.
MemoryExact ==
    /\ xdrs.live = Len(SelectSeq(decoded, LAMBDA d : d.alloc))
    /\ ~xdrs.spilt

=============================================================================
