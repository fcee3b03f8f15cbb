------------------------------ MODULE TextTools ------------------------------
(***************************************************************************)
(* The functions of AtUtil on the texts that an AtString comes to hold:    *)
(* what they compute is compared with definitions that have no loops.      *)
(***************************************************************************)
EXTENDS AtString, AtUtil

\* A text of ASCII characters and of UTF-8 characters of three bytes.
IsLead(ch) == ch \in 224..239
IsTrail(ch) == ch \in 128..191
IsUtf8(s) ==
    \A i \in DOMAIN s :
       /\ s[i] \in 1..127 \/ IsLead(s[i]) \/ IsTrail(s[i])
       /\ IsLead(s[i]) =>
             i + 2 <= Len(s) /\ IsTrail(s[i + 1]) /\ IsTrail(s[i + 2])
       /\ IsTrail(s[i]) =>
             \/ i > 1 /\ IsLead(s[i - 1])
             \/ i > 2 /\ IsTrail(s[i - 1]) /\ IsLead(s[i - 2])

ASSUME TextToolsAssumption == \A p \in Piece : IsUtf8(p)

-----------------------------------------------------------------------------
(* What the functions of AtUtil are for, without their loops.               *)

PowersOfTwo == {Power[k] : k \in 0..Bits - 1}

\* The places where a blank of one or three bytes begins or ends the text.
Wide == <<227, 128, 128>>
StartsBlank(s) ==
    s # <<>> /\ (IsBlank(s[1]) \/ (Len(s) > 2 /\ SubSeq(s, 1, 3) = Wide))
EndsBlank(s) ==
    s # <<>> /\ (IsBlank(s[Len(s)]) \/
                 (Len(s) > 2 /\ SubSeq(s, Len(s) - 2, Len(s)) = Wide))
AllBlank(s) ==
    LET blank[i \in 1..Len(s) + 1] ==
            \/ i = Len(s) + 1
            \/ i <= Len(s) /\ IsBlank(s[i]) /\ blank[i + 1]
            \/ i + 2 <= Len(s) /\ SubSeq(s, i, i + 2) = Wide /\ blank[i + 3]
    IN blank[1]

\* A number in decimal notation: a sign perhaps, digits, and a point perhaps.
IsDecimal(s) ==
    \E sign \in {<<>>, <<43>>, <<45>>}, point \in {<<>>, <<46>>} :
    \E i \in 0..Len(s) : \E j \in i..Len(s) :
        LET whole == SubSeq(s, Len(sign) + 1, i)
            fraction == SubSeq(s, j + 1, Len(s))
        IN /\ s = sign \o whole \o point \o fraction
           /\ whole \o fraction # <<>>
           /\ \A k \in DOMAIN whole : IsDigitChar(whole[k])
           /\ \A k \in DOMAIN fraction : IsDigitChar(fraction[k])

-----------------------------------------------------------------------------
(* Properties.                                                              *)

\* trim cuts off blanks only, all those at the end, and all those at the start
\* unless they are more than half of what is then left: its second loop stops
\* half-way, as it counts the offset up and the length down.
TrimExact ==
    LET s == Bytes(str)
        t == trim(s)
        n == CutEnd(s)
        blanks == n - Len(t)
    IN live =>
       /\ \E i, j \in 0..Len(s) :
             /\ s = SubSeq(s, 1, i) \o t \o SubSeq(s, j + 1, Len(s))
             /\ AllBlank(SubSeq(s, 1, i)) /\ AllBlank(SubSeq(s, j + 1, Len(s)))
       /\ ~EndsBlank(t)
       /\ StartsBlank(t) => 2 * blanks >= n

\* is_digit accepts every decimal number behind blanks, and of all other texts
\* only those without any digit: the empty one, a sign, a point.
NumbersRecognised ==
    LET s == Bytes(str)
    IN live =>
       /\ IsDecimal(NoBlanks(s)) => is_digit(s)
       /\ is_digit(s) /\ ~IsDecimal(NoBlanks(s)) =>
             \A i \in DOMAIN s : ~IsDigitChar(s[i])

\* min2n, on which the mask of a hash map's buckets rests, rounds up to the next
\* power of two, and max2n down to the last one, on the lengths and capacities
\* that come up.  Of min2n this holds up to the highest power of two of the word;
\* what the comment at at_util.c:99-102 promises above it no unsigned int can be.
RoundingExact ==
    \A n \in {str.size, str.capcity} \cap UInt :
       /\ n <= Power[Bits - 1] =>
             /\ min2n(n) \in PowersOfTwo /\ min2n(n) >= n
             /\ \A p \in PowersOfTwo : p >= n => min2n(n) <= p
       /\ n > 0 => /\ max2n(n) \in PowersOfTwo
                   /\ max2n(n) <= n /\ n < 2 * max2n(n)
=============================================================================
