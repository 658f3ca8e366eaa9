------------------------------- MODULE Strtol -------------------------------
(***************************************************************************)
(* ddi_strtoul and ddi_strtol (module/spl/spl-generic.c) on a word of      *)
(* Width bits.  A string is a sequence of ASCII codes and ends in NUL.     *)
(***************************************************************************)
EXTENDS Integers, Sequences

CONSTANTS
    Width,          \* bits of the result's type
    Strings,        \* the strings to convert
    Bases           \* the bases asked for, 0 to detect it

VARIABLES
    str, signed, asked,     \* the arguments: the string, whether the call is ddi_strtol, the base
    start,                  \* where ddi_strtou* was told to begin
    base, ptr, value,       \* the locals of the loop
    rc,                     \* the code returned, "none" before
    result, endptr          \* what was stored through the pointers

vars == <<str, signed, asked, start, base, ptr, value, rc, result, endptr>>

word(n) == n % 2 ^ Width

\* str[i], counted from 1; the byte after the last is NUL.
At(i) == IF i <= Len(str) THEN str[i] ELSE 0

isdigit(c) == c \in 48 .. 57
isupper(c) == c \in 65 .. 90
isalpha(c) == isupper(c) \/ c \in 97 .. 122
tolower(c) == IF isupper(c) THEN c + 32 ELSE c
isxdigit(c) == isdigit(c) \/ tolower(c) \in 97 .. 102

NoDigit == 99
Digit(c) == CASE isdigit(c) -> c - 48
              [] isalpha(c) -> tolower(c) - 97 + 10
              [] OTHER      -> NoDigit

TypeOK ==
    /\ str \in Strings /\ signed \in BOOLEAN /\ asked \in Bases /\ start \in 1 .. 2
    /\ base \in {0} \cup 2 .. 36 /\ ptr \in start .. Len(str) + 1
    /\ value \in 0 .. 2 ^ Width - 1
    /\ rc \in {"none", "ok", "EINVAL", "ERANGE"}
    /\ result \in 0 .. 2 ^ Width - 1 /\ endptr \in 0 .. Len(str) + 1

\* ddi_strtol skips a minus sign before it calls ddi_strtoul.
Init ==
    /\ str \in Strings /\ signed \in BOOLEAN /\ asked \in Bases
    /\ start = IF signed /\ At(1) = 45 THEN 2 ELSE 1
    /\ base = 0 /\ ptr = start /\ value = 0
    /\ rc = "none" /\ result = 0 /\ endptr = 0

Fail(code) ==
    /\ rc' = code
    /\ UNCHANGED <<str, signed, asked, start, base, ptr, value, result, endptr>>

Empty == rc = "none" /\ base = 0 /\ At(start) = 0 /\ Fail("EINVAL")

UseBase(b, skip) ==
    /\ base' = b /\ ptr' = ptr + skip
    /\ UNCHANGED <<str, signed, asked, start, value, rc, result, endptr>>

IsHex == tolower(At(start + 1)) = 120 /\ isxdigit(At(start + 2))
\* The test compares the character, not the digit, with eight.
IsOctal == At(start + 1) >= 48 /\ At(start + 1) < 8

DetectBase ==
    /\ rc = "none" /\ base = 0 /\ At(start) # 0
    /\ CASE asked # 0                   -> UseBase(asked, 0)
         [] asked = 0 /\ At(start) # 48 -> UseBase(10, 0)
         [] asked = 0 /\ At(start) = 48 /\ IsHex -> UseBase(16, 2)
         [] asked = 0 /\ At(start) = 48 /\ ~IsHex /\ IsOctal -> UseBase(8, 1)
         [] OTHER -> Fail("EINVAL")

More == rc = "none" /\ base # 0 /\ Digit(At(ptr)) < base
Next_value == word(value * base + Digit(At(ptr)))

Accumulate ==
    /\ More /\ value <= Next_value
    /\ value' = Next_value /\ ptr' = ptr + 1
    /\ UNCHANGED <<str, signed, asked, start, base, rc, result, endptr>>

Overflow == More /\ value > Next_value /\ Fail("ERANGE")

\* The end of ddi_strtou*, and what ddi_strto* does with it: a minus sign negates
\* the value, and without a digit the string counts as unread.
Store ==
    /\ rc = "none" /\ base # 0 /\ ~More
    /\ rc' = "ok"
    /\ IF start = 2 /\ ptr = start
       THEN endptr' = 1 /\ result' = value
       ELSE endptr' = ptr /\ result' = IF start = 2 THEN word(-value) ELSE value
    /\ UNCHANGED <<str, signed, asked, start, base, ptr, value>>

Next == Empty \/ DetectBase \/ Accumulate \/ Overflow \/ Store

Spec == Init /\ [][Next]_vars

------------------------------------------------------------------------------
\* What the call should compute, from the string alone: the base, the place of the
\* first digit, the place after the last and the number they spell.
TrueBase == IF asked # 0 THEN asked
            ELSE IF At(start) # 48 THEN 10 ELSE IF IsHex THEN 16 ELSE 8
First == IF asked = 0 /\ TrueBase = 16 THEN start + 2 ELSE start
Last == CHOOSE e \in First .. Len(str) + 1 :
            /\ \A i \in First .. e - 1 : Digit(str[i]) < TrueBase
            /\ Digit(At(e)) >= TrueBase
Number ==
    LET upto[i \in First - 1 .. Last - 1] ==
            IF i < First THEN 0 ELSE upto[i - 1] * TrueBase + Digit(str[i])
    IN  upto[Last - 1]
Fits == Number < 2 ^ Width

\* A string whose number fits is converted to it, with the sign, and endptr is left
\* at the first character that is no digit of the base; only the prefixes the code
\* refuses are an error.
Exact ==
    rc # "none" /\ At(start) # 0 /\ Fits /\ rc # "EINVAL" =>
        /\ rc = "ok"
        /\ result = IF start = 2 THEN word(-Number) ELSE Number
        /\ endptr = IF start = 2 /\ Last = 2 THEN 1 ELSE Last

\* The check marked "Overflow" finds every number too large for the type.
OverflowFound == rc = "ok" => Fits

\* "Auto-detect base based on prefix": a zero and an octal digit are octal.
OctalFound == rc = "EINVAL" => ~(asked = 0 /\ At(start) = 48 /\ At(start + 1) \in 48 .. 55)

=============================================================================
