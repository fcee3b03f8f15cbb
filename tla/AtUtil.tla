------------------------------- MODULE AtUtil --------------------------------
(***************************************************************************)
(* The pure functions of at_util.c: powers of two in Bits-bit unsigned     *)
(* arithmetic, and the tests and cuts on texts.  A text is the sequence of *)
(* its bytes; callers pass ASCII and UTF-8 characters of three bytes, for  *)
(* which no function looks outside the text.                               *)
(*                                                                         *)
(* An operator that stands directly before a definition and that nothing   *)
(* uses is a mutant of that definition.                                    *)
(***************************************************************************)
EXTENDS Integers, Sequences

CONSTANTS Bits       \* width of unsigned int; 32 in the C program

ASSUME AtUtilAssumption == Bits \in Nat \ {0}

\* 1 << k
Power[k \in 0..Bits] == IF k = 0 THEN 1 ELSE 2 * Power[k - 1]

UInt == 0..Power[Bits] - 1

\* n & (n - 1): n without its lowest bit.
LowestBitOff[n \in UInt] ==
    IF n = 0 THEN 0
    ELSE IF n % 2 = 1 THEN n - 1 ELSE 2 * LowestBitOff[n \div 2]

\* 0 for 0 and for the powers of two.
is2n(n) == LowestBitOff[n]

\* The loop that shifts ret left for every bit of n.
ShiftedPer[n \in UInt] ==
    IF n = 0 THEN 1 ELSE (2 * ShiftedPer[n \div 2]) % Power[Bits]

max2n(n) == IF is2n(n) = 0 THEN n ELSE ShiftedPer[n \div 2]

min2nOfZero(n) == IF is2n(n) = 0 THEN n ELSE ShiftedPer[n]

min2n(n) == IF n = 0 THEN 1 ELSE IF is2n(n) = 0 THEN n ELSE ShiftedPer[n]

-----------------------------------------------------------------------------

IsBlank(ch) == ch \in {32, 9}
IsDigitChar(ch) == ch \in 48..57
is_CN(ch) == ch >= 128

\* Whether the ideographic space, U+3000, begins at s[i].
is_full_blank(s, i) ==
    /\ is_CN(s[i])
    /\ (s[i] % 16) * 4096 + (s[i + 1] % 64) * 64 + (s[i + 2] % 64) = 12288

\* is_digit: blanks, a sign, then digits with one point at most.
Unsigned(s) == IF s # <<>> /\ Head(s) \in {43, 45} THEN Tail(s) ELSE s
NoBlanks(s) ==
    LET from[i \in 1..Len(s) + 1] ==
            IF i <= Len(s) /\ IsBlank(s[i]) THEN from[i + 1] ELSE i
    IN SubSeq(s, from[1], Len(s))
ManyPoints(str) ==
    LET s == Unsigned(NoBlanks(str))
    IN \A i \in DOMAIN s : s[i] = 46 \/ IsDigitChar(s[i])

is_digit(str) ==
    LET s == Unsigned(NoBlanks(str))
        points == {i \in DOMAIN s : s[i] = 46}
    IN /\ \A i, j \in points : i = j
       /\ \A i \in DOMAIN s \ points : IsDigitChar(s[i])

CutEndAscii(str) ==
    LET len[n \in 0..Len(str)] ==
            IF n > 0 /\ IsBlank(str[n]) THEN len[n - 1] ELSE n
    IN len[Len(str)]

\* trim's first loop: the length that is left when blanks at the end of the
\* first n bytes are gone.
CutEnd(str) ==
    LET len[n \in 0..Len(str)] ==
            IF n > 0 /\ IsBlank(str[n]) THEN len[n - 1]
            ELSE IF n > 2 /\ is_CN(str[n]) /\ is_full_blank(str, n - 2)
                 THEN len[n - 3] ELSE n
    IN len[Len(str)]

\* Its second loop, over the len bytes that are left: how many bytes are cut at
\* the start.  It counts i up and len down, so it ends half-way.
CutStart(str, len) ==
    LET i[n \in 0..len + 2] ==
            IF n >= len - n THEN n
            ELSE IF IsBlank(str[n + 1]) THEN i[n + 1]
            ELSE IF is_full_blank(str, n + 1) THEN i[n + 3] ELSE n
    IN i[0]

trim(str) ==
    SubSeq(str, CutStart(str, CutEnd(str)) + 1, CutEnd(str))
=============================================================================
