---------------------------- MODULE BufferProofs ----------------------------
(***************************************************************************)
(* Proofs about the three arrays that grow, for every first capacity:      *)
(* AtString is a text, and how far string_cstr can be relied on; AtVector  *)
(* is a list, and its iterator keeps in step with it; Stack is a last-in   *)
(* first-out stack, its cursor and its size agree, and no pop returns a    *)
(* slot that was never written.                                            *)
(*                                                                         *)
(* And about what AtUtil computes from the texts and the lengths of an     *)
(* AtString, for every text and every width of the machine's words: the    *)
(* roundings to powers of two, the test for numbers, the cutting of        *)
(* blanks.  Their loops are recursive functions, which are unfolded with   *)
(* one theorem on recursion along parents, resting on the order of the     *)
(* numbers.                                                                *)
(***************************************************************************)
EXTENDS AtString, AtVector, Stack, TextTools, SequenceTheorems, FiniteSetsExt,
        WellFoundedInduction, TLAPS

-----------------------------------------------------------------------------
(* Least numbers, induction and recursion.                                  *)

Less == {ss \in Nat \X Nat : ss[1] < ss[2]}

\* The order of the numbers, as a relation, is well-founded.
LEMMA LessWellFounded == IsWellFoundedOn(Less, Nat)
  BY NatLessThanWellFounded, Zenon DEF OpToRel, Less

\* A set of natural numbers that is not empty has a least element.
LEMMA LeastNumber ==
    ASSUME NEW S \in SUBSET Nat, S # {}
    PROVE  Min(S) \in S /\ \A m \in S : Min(S) <= m
  <1>1. PICK n \in S : \A m \in S : <<m, n>> \notin Less
    BY LessWellFounded, WFMin
  <1>2. ASSUME NEW m \in S, m < n PROVE FALSE
    <2>1. <<m, n>> \in Nat \X Nat /\ <<m, n>>[1] < <<m, n>>[2]
      BY <1>2
    <2>2. QED BY <1>1, <2>1 DEF Less
  <1>3. \E k \in S : \A m \in S : k <= m
    BY <1>2
  <1>4. QED BY <1>3 DEF Min

\* A set that has every number all of whose predecessors it has has them all.
LEMMA NumbersBelow ==
    ASSUME NEW S \in SUBSET Nat,
           \A n \in Nat : (\A m \in 0..n - 1 : m \in S) => n \in S
    PROVE  S = Nat
  <1> SUFFICES ASSUME Nat \ S # {} PROVE FALSE
    OBVIOUS
  <1> DEFINE n == Min(Nat \ S)
  <1>1. n \in Nat \ S /\ \A m \in Nat \ S : n <= m
    BY LeastNumber
  <1> HIDE DEF n
  <1>2. \A m \in 0..n - 1 : m \in S
    BY <1>1
  <1>3. QED BY <1>1, <1>2

\* A set of numbers with zero and every successor has them all.
LEMMA SetInduction ==
    ASSUME NEW S \in SUBSET Nat, 0 \in S, \A n \in S : n + 1 \in S
    PROVE  S = Nat
  <1>1. ASSUME NEW n \in Nat, \A m \in 0..n - 1 : m \in S PROVE n \in S
    <2>1. CASE n = 0
      BY <2>1
    <2>2. CASE n # 0
      <3>1. n - 1 \in 0..n - 1 /\ n - 1 + 1 = n
        BY <2>2
      <3>2. QED BY <1>1, <3>1
    <2>3. QED BY <2>1, <2>2
  <1>2. QED BY <1>1, NumbersBelow

\* Recursion along parents that come first.
Solution(f, N, par, T, base, step) ==
    /\ f \in [1..N -> T]
    /\ \A k \in 1..N : f[k] = step[<<k, IF par[k] = 0 THEN base ELSE f[par[k]]>>]

Solvable(N, par, T, base, step) == \E f : Solution(f, N, par, T, base, step)

\* Such a recursion has a solution.
LEMMA Recursion ==
    ASSUME NEW N \in Nat, NEW par \in [1..N -> Nat],
           \A n \in 1..N : par[n] < n,
           NEW T, NEW base \in T, NEW step \in [(1..N) \X T -> T]
    PROVE  Solvable(N, par, T, base, step)
  <1> DEFINE Is(f, n) ==
               /\ f \in [1..n -> T]
               /\ \A k \in 1..n :
                    f[k] = step[<<k, IF par[k] = 0 THEN base ELSE f[par[k]]>>]
             Defined == {n \in Nat : n <= N => \E f : Is(f, n)}
  <1>1. 0 \in Defined
    <2>1. Is([k \in 1..0 |-> base], 0)
      OBVIOUS
    <2>2. QED BY <2>1
  <1>2. ASSUME NEW n \in Defined PROVE n + 1 \in Defined
    <2> SUFFICES ASSUME n + 1 <= N PROVE \E f : Is(f, n + 1)
      OBVIOUS
    <2>1. PICK f : Is(f, n)
      OBVIOUS
    <2>2. n \in Nat /\ n + 1 \in 1..N
      OBVIOUS
    <2> DEFINE below(g, k) == IF par[k] = 0 THEN base ELSE g[par[k]]
               g == [k \in 1..n + 1 |->
                       IF k <= n THEN f[k] ELSE step[<<k, below(f, k)>>]]
    <2>3. ASSUME NEW k \in 1..n + 1 PROVE below(f, k) \in T
      <3>1. par[k] = 0 \/ par[k] \in 1..n
        BY <2>2
      <3>2. QED BY <2>1, <3>1
    <2>4. ASSUME NEW k \in 1..n + 1 PROVE g[k] \in T
      <3>1. CASE k <= n
        BY <2>1, <3>1
      <3>2. CASE ~(k <= n)
        <4>1. k \in 1..N
          BY <2>2
        <4>2. below(f, k) \in T
          BY <2>3
        <4> HIDE DEF below
        <4>3. QED BY <3>2, <4>1, <4>2
      <3>3. QED BY <3>1, <3>2
    <2>5. ASSUME NEW k \in 1..n + 1 PROVE below(g, k) = below(f, k)
      <3>1. par[k] = 0 \/ par[k] \in 1..n
        BY <2>2
      <3>2. QED BY <2>2, <3>1
    <2>6. ASSUME NEW k \in 1..n + 1 PROVE g[k] = step[<<k, below(g, k)>>]
      <3>1. CASE k <= n
        <4>1. k \in 1..n
          BY <2>2, <3>1
        <4>2. f[k] = step[<<k, below(f, k)>>]
          BY <2>1, <4>1
        <4>3. QED BY <2>5, <3>1, <4>2
      <3>2. CASE ~(k <= n)
        BY <2>5, <3>2
      <3>3. QED BY <3>1, <3>2
    <2>7. Is(g, n + 1)
      <3>1. g \in [1..n + 1 -> T]
        BY <2>4
      <3>2. QED BY <2>6, <3>1
    <2>8. QED BY <2>7
  <1>3. Defined = Nat
    <2>1. Defined \in SUBSET Nat
      OBVIOUS
    <2> HIDE DEF Defined
    <2>2. QED BY <1>1, <1>2, <2>1, SetInduction
  <1>4. N \in Defined /\ N <= N
    <2> HIDE DEF Defined
    <2>1. QED BY <1>3
  <1>5. PICK f : Is(f, N)
    BY <1>4
  <1>6. QED BY <1>5 DEF Solvable, Solution

\* The same with the start at zero.
FromZero(f, N, par, T, base, step) ==
    /\ f \in [0..N -> T] /\ f[0] = base
    /\ \A k \in 1..N : f[k] = step[<<k, f[par[k]]>>]

WellDefined(N, par, T, base, step) == \E f : FromZero(f, N, par, T, base, step)

\* Such a recursion has a solution, too.
LEMMA RecursionFromZero ==
    ASSUME NEW N \in Nat, NEW par \in [1..N -> Nat],
           \A n \in 1..N : par[n] < n,
           NEW T, NEW base \in T, NEW step \in [(1..N) \X T -> T]
    PROVE  WellDefined(N, par, T, base, step)
  <1>1. Solvable(N, par, T, base, step)
    BY Recursion
  <1>2. PICK g : Solution(g, N, par, T, base, step)
    BY <1>1 DEF Solvable
  <1> DEFINE f == [k \in 0..N |-> IF k = 0 THEN base ELSE g[k]]
  <1>3. g \in [1..N -> T]
    BY <1>2 DEF Solution
  <1>4. f \in [0..N -> T] /\ f[0] = base
    BY <1>3
  <1>5. ASSUME NEW k \in 1..N PROVE f[k] = step[<<k, f[par[k]]>>]
    <2>1. par[k] \in 0..N /\ k # 0 /\ k \in 0..N
      OBVIOUS
    <2>2. f[par[k]] = IF par[k] = 0 THEN base ELSE g[par[k]]
      BY <2>1
    <2>3. f[k] = g[k]
      BY <2>1
    <2>4. g[k] = step[<<k, IF par[k] = 0 THEN base ELSE g[par[k]]>>]
      BY <1>2 DEF Solution
    <2> HIDE DEF f
    <2>5. QED BY <2>2, <2>3, <2>4
  <1> HIDE DEF f
  <1>6. FromZero(f, N, par, T, base, step)
    BY <1>4, <1>5 DEF FromZero
  <1>7. QED BY <1>6 DEF WellDefined

\* A recursion that goes upwards, along nxt, ends at N.
ToTop(f, N, nxt, T, base, step) ==
    /\ f \in [0..N -> T] /\ f[N] = base
    /\ \A k \in 0..N - 1 : f[k] = step[<<k, f[nxt[k]]>>]

Ends(N, nxt, T, base, step) == \E f : ToTop(f, N, nxt, T, base, step)

\* A recursion upwards has a solution: turned around, it goes downwards.
LEMMA RecursionToTop ==
    ASSUME NEW N \in Nat, NEW nxt \in [0..N - 1 -> Nat],
           \A k \in 0..N - 1 : k < nxt[k] /\ nxt[k] <= N,
           NEW T, NEW base \in T, NEW step \in [(0..N - 1) \X T -> T]
    PROVE  Ends(N, nxt, T, base, step)
  <1> DEFINE par == [j \in 1..N |-> N - nxt[N - j]]
             st == [jt \in (1..N) \X T |-> step[<<N - jt[1], jt[2]>>]]
  <1>1. \A j \in 1..N : N - j \in 0..N - 1
    OBVIOUS
  <1>2. par \in [1..N -> Nat] /\ \A j \in 1..N : par[j] < j
    <2>1. \A j \in 1..N : N - nxt[N - j] \in Nat /\ N - nxt[N - j] < j
      BY <1>1
    <2>2. QED BY <2>1
  <1>3. st \in [(1..N) \X T -> T]
    <2>1. ASSUME NEW j \in 1..N, NEW t \in T PROVE step[<<N - j, t>>] \in T
      <3>1. <<N - j, t>> \in (0..N - 1) \X T
        BY <1>1
      <3>2. QED BY <3>1
    <2>2. QED BY <2>1
  <1>4. WellDefined(N, par, T, base, st)
    <2> HIDE DEF par, st
    <2>1. QED BY <1>2, <1>3, RecursionFromZero
  <1>5. PICK g : FromZero(g, N, par, T, base, st)
    BY <1>4 DEF WellDefined
  <1> DEFINE f == [k \in 0..N |-> g[N - k]]
  <1>6. g \in [0..N -> T] /\ g[0] = base
    BY <1>5 DEF FromZero
  <1>7. f \in [0..N -> T] /\ f[N] = base
    <2>1. \A k \in 0..N : N - k \in 0..N
      OBVIOUS
    <2>2. N - N = 0 /\ N \in 0..N
      OBVIOUS
    <2>3. QED BY <1>6, <2>1, <2>2
  <1>8. ASSUME NEW k \in 0..N - 1 PROVE f[k] = step[<<k, f[nxt[k]]>>]
    <2>1. PICK j \in 1..N : j = N - k
      OBVIOUS
    <2>2. N - j = k /\ nxt[k] \in 0..N /\ par[j] \in 0..N /\ k \in 0..N
      BY <1>2, <2>1
    <2>3. par[j] = N - nxt[k]
      BY <2>2
    <2>4. f[nxt[k]] = g[par[j]] /\ f[k] = g[j]
      BY <2>1, <2>2, <2>3
    <2>5. g[j] = st[<<j, g[par[j]]>>] /\ g[par[j]] \in T
      BY <1>5, <1>6, <2>2 DEF FromZero
    <2>6. ASSUME NEW t \in T PROVE st[<<j, t>>] = step[<<k, t>>]
      BY <2>2
    <2> HIDE DEF f, st, par
    <2>7. QED BY <2>4, <2>5, <2>6
  <1> HIDE DEF f
  <1>9. ToTop(f, N, nxt, T, base, step)
    BY <1>7, <1>8 DEF ToTop
  <1>10. QED BY <1>9 DEF Ends

-----------------------------------------------------------------------------
(* The string.                                                              *)

Byte == Nat \cup {Junk}
Buffers == UNION {[0..c - 1 -> Byte] : c \in Nat}

\* A string between two calls: a buffer of capcity bytes, more than are in use,
\* and zeros behind the text in its lower half.
WellFormed(s) ==
    /\ s \in [buffer : Buffers, size : Nat, capcity : Nat]
    /\ s.buffer \in [0..s.capcity - 1 -> Byte]
    /\ s.size < s.capcity
    /\ \A i \in 0..s.capcity - 1 :
          i >= s.size /\ 2 * i < s.capcity => s.buffer[i] = 0

\* The numbers and the buffer of a string between two calls.
LEMMA Numbers ==
    ASSUME NEW s, WellFormed(s)
    PROVE  /\ s.size \in Nat /\ s.capcity \in Nat /\ s.size < s.capcity
           /\ s.buffer \in [0..s.capcity - 1 -> Byte]
  BY DEF WellFormed

IInv == WellFormed(str) /\ live \in BOOLEAN

\* What Written makes of a buffer that has room for the bytes.
LEMMA WrittenBytes ==
    ASSUME NEW c \in Nat, NEW b \in [0..c - 1 -> Byte],
           NEW i \in Nat, NEW p \in Seq(Nat), i + Len(p) <= c
    PROVE  /\ Written(b, i, p) \in [0..c - 1 -> Byte]
           /\ \A j \in 0..c - 1 :
                 Written(b, i, p)[j] = IF j \in i..i + Len(p) - 1
                                       THEN p[j - i + 1] ELSE b[j]
  <1>. DEFINE d == 0..c - 1
              f == [j \in d |-> IF j \in i..i + Len(p) - 1
                                THEN p[j - i + 1] ELSE b[j]]
  <1>1. DOMAIN b = d
    OBVIOUS
  <1>2. d \cup i..i + Len(p) - 1 = d
    BY LenProperties
  <1>3. Written(b, i, p) = f
    BY <1>1, <1>2 DEF Written
  <1>4. ASSUME NEW j \in d PROVE f[j] \in Byte
    <2>1. CASE j \in i..i + Len(p) - 1
      <3>1. j - i + 1 \in 1..Len(p)
        BY <2>1, LenProperties
      <3>. QED  BY <2>1, <3>1, ElementOfSeq DEF Byte
    <2>2. CASE j \notin i..i + Len(p) - 1
      BY <2>2
    <2>. QED  BY <2>1, <2>2
  <1>. QED  BY <1>3, <1>4

\* A buffer of c bytes is a buffer.
LEMMA BufferType ==
    ASSUME NEW c \in Nat, NEW b \in [0..c - 1 -> Byte]
    PROVE  b \in Buffers
  BY DEF Buffers

\* A buffer that at least doubles is cleared far enough: nothing below its
\* middle is left as realloc delivered it.
LEMMA ExpandKeeps ==
    ASSUME NEW s, WellFormed(s), NEW c \in Nat, c >= 2 * s.capcity
    PROVE  LET e == expand_buffer(s, c)
           IN /\ WellFormed(e) /\ e.size = s.size /\ e.capcity = c
              /\ \A i \in 0..s.size - 1 : e.buffer[i] = s.buffer[i]
  <1>. DEFINE f == [i \in 0..c - 1 |-> IF i \in Cleared(s, c) THEN 0
                                       ELSE IF i < s.capcity THEN s.buffer[i]
                                       ELSE Junk]
              e == [s EXCEPT !.capcity = c, !.buffer = f]
  <1>1. f \in [0..c - 1 -> Byte]
    BY DEF WellFormed, Byte
  <1>a. ASSUME NEW i \in 0..c - 1, i >= s.size, 2 * i < c
        PROVE  f[i] = 0
    BY <1>a, Numbers, SMTT(30) DEF Cleared
  <1>b. ASSUME NEW i \in 0..s.size - 1
        PROVE  f[i] = s.buffer[i]
    BY Numbers DEF Cleared
  <1>2. /\ \A i \in 0..c - 1 : i >= s.size /\ 2 * i < c => f[i] = 0
        /\ \A i \in 0..s.size - 1 : f[i] = s.buffer[i]
    BY <1>a, <1>b
  <1>3. expand_buffer(s, c) = e
    BY DEF expand_buffer
  <1>. HIDE DEF f
  <1>4. /\ e \in [buffer : Buffers, size : Nat, capcity : Nat]
        /\ e.buffer = f /\ e.size = s.size /\ e.capcity = c
    BY <1>1, BufferType DEF WellFormed
  <1>. HIDE DEF e
  <1>5. WellFormed(e)
    BY <1>1, <1>2, <1>4 DEF WellFormed
  <1>. QED  BY <1>2, <1>3, <1>4, <1>5

\* What string_append and string_appendch have after they made room.
Fits(r, s, n) ==
    /\ WellFormed(r) /\ r.size = s.size /\ r.size + n < r.capcity
    /\ \A i \in 0..s.size - 1 : r.buffer[i] = s.buffer[i]

\* string_append makes enough room.
LEMMA RoomFits ==
    ASSUME NEW s, WellFormed(s), NEW n \in Nat
    PROVE  Fits(Room(s, n), s, n)
  <1>1. CASE s.size + n + 1 > s.capcity
    <2>1. /\ Enough(s, n) \in Nat /\ Enough(s, n) >= 2 * s.capcity
          /\ Enough(s, n) >= s.size + n + 1
      BY DEF Enough, BUFFER_INCREASE_RATIO, WellFormed
    <2>2. Room(s, n) = expand_buffer(s, Enough(s, n))
      BY <1>1 DEF Room
    <2>3. s.size \in Nat
      BY DEF WellFormed
    <2>. QED  BY <2>1, <2>2, <2>3, ExpandKeeps DEF Fits
  <1>2. CASE ~(s.size + n + 1 > s.capcity)
    BY <1>2 DEF Room, Fits, WellFormed
  <1>. QED  BY <1>1, <1>2

\* string_appendch makes room for one byte and the zero behind it.
LEMMA RoomOneFits ==
    ASSUME NEW s, WellFormed(s)
    PROVE  Fits(RoomOne(s), s, 1)
  <1>1. CASE s.size + 2 > s.capcity
    <2>1. /\ 2 * s.capcity \in Nat /\ 2 * s.capcity >= 2 * s.capcity
          /\ s.size \in Nat /\ s.size + 1 < 2 * s.capcity
      BY DEF WellFormed
    <2>2. RoomOne(s) = expand_buffer(s, 2 * s.capcity)
      BY <1>1 DEF RoomOne, BUFFER_INCREASE_RATIO
    <2>. QED  BY <2>1, <2>2, ExpandKeeps DEF Fits
  <1>2. CASE ~(s.size + 2 > s.capcity)
    BY <1>2 DEF RoomOne, Fits, WellFormed
  <1>. QED  BY <1>1, <1>2

\* A function from 1..n is a sequence.
LEMMA FunctionIsSeq ==
    ASSUME NEW S, NEW n \in Nat, NEW f \in [1..n -> S]
    PROVE  f \in Seq(S) /\ Len(f) = n
  OBVIOUS

\* The bytes p behind the text of s, in its buffer r with room for them.
PutInto(r, s, p) == [r EXCEPT !.buffer = Written(@, s.size, p),
                              !.size = @ + Len(p)]

\* Bytes that are put behind the text make it longer by themselves.
LEMMA PutKeeps ==
    ASSUME NEW r, NEW s, NEW p \in Seq(Nat), WellFormed(s), Fits(r, s, Len(p))
    PROVE  /\ WellFormed(PutInto(r, s, p))
           /\ Bytes(PutInto(r, s, p)) = Bytes(s) \o p
  <1>. DEFINE w == Written(r.buffer, s.size, p)
              q == PutInto(r, s, p)
  <1>1. /\ s.size \in Nat /\ r.size = s.size /\ r.capcity \in Nat
        /\ Len(p) \in Nat /\ s.size + Len(p) < r.capcity
        /\ r.buffer \in [0..r.capcity - 1 -> Byte]
    BY DEF Fits, WellFormed
  <1>2. /\ w \in [0..r.capcity - 1 -> Byte]
        /\ \A j \in 0..r.capcity - 1 :
              w[j] = IF j \in s.size..s.size + Len(p) - 1
                     THEN p[j - s.size + 1] ELSE r.buffer[j]
    <2>1. s.size + Len(p) <= r.capcity
      BY <1>1
    <2>. QED  BY <1>1, <2>1, WrittenBytes, ZenonT(40)
  <1>. HIDE DEF w
  <1>3. q = [r EXCEPT !.buffer = w, !.size = @ + Len(p)]
    BY DEF w, PutInto
  <1>4. /\ q \in [buffer : Buffers, size : Nat, capcity : Nat]
        /\ q.buffer = w /\ q.size = s.size + Len(p) /\ q.capcity = r.capcity
    <2>0. w \in Buffers
      BY <1>1, <1>2, BufferType, Zenon
    <2>1. w \in Buffers /\ r.size + Len(p) \in Nat
      BY <1>1, <2>0
    <2>2. r \in [buffer : Buffers, size : Nat, capcity : Nat]
      BY DEF Fits, WellFormed
    <2>. QED  BY <1>1, <1>3, <2>1, <2>2
  <1>. HIDE DEF q
  <1>5. WellFormed(q)
    <2>1. ASSUME NEW i \in 0..q.capcity - 1, i >= q.size, 2 * i < q.capcity
          PROVE  q.buffer[i] = 0
      <3>1. i \notin s.size..s.size + Len(p) - 1 /\ i >= r.size
        BY <2>1, <1>1, <1>4
      <3>2. r.buffer[i] = 0
        BY <2>1, <3>1, <1>4 DEF Fits, WellFormed
      <3>. QED  BY <3>1, <3>2, <1>2, <1>4
    <2>. QED  BY <1>1, <1>2, <1>4, <2>1 DEF WellFormed
  <1>6. Bytes(q) = Bytes(s) \o p
    <2>1. Bytes(s) \in Seq(Byte) /\ Len(Bytes(s)) = s.size
      <3>1. ASSUME NEW i \in 1..s.size PROVE s.buffer[i - 1] \in Byte
        <4>1. /\ s.size \in Nat /\ s.capcity \in Nat /\ s.size < s.capcity
              /\ s.buffer \in [0..s.capcity - 1 -> Byte]
          BY Numbers, Zenon
        <4>2. i - 1 \in 0..s.capcity - 1
          BY <4>1
        <4>. QED  BY <4>1, <4>2
      <3>2. Bytes(s) \in [1..s.size -> Byte]
        BY <3>1 DEF Bytes
      <3>3. s.size \in Nat
        BY <1>1
      <3>. QED  BY <3>2, <3>3, FunctionIsSeq, Zenon
    <2>2. /\ \A i \in 1..s.size + Len(p) :
                (Bytes(s) \o p)[i] = IF i <= s.size THEN Bytes(s)[i]
                                     ELSE p[i - s.size]
          /\ \A i \in 1..s.size : Bytes(s)[i] = s.buffer[i - 1]
      <3>1. p \in Seq(Byte)
        BY DEF Byte
      <3>. QED  BY <1>1, <2>1, <3>1, ConcatProperties DEF Bytes
    <2>3. Bytes(s) \o p = [i \in 1..s.size + Len(p) |-> (Bytes(s) \o p)[i]]
      <3>1. p \in Seq(Byte)
        BY DEF Byte
      <3>2. Bytes(s) \o p \in Seq(Byte) /\ Len(Bytes(s) \o p) = s.size + Len(p)
        BY <1>1, <2>1, <3>1, ConcatProperties, SMTT(30)
      <3>3. Bytes(s) \o p \in [1..s.size + Len(p) -> Byte]
        BY <3>2, LenProperties
      <3>. QED  BY <3>3
    <2>4. \A i \in 1..s.size + Len(p) : q.buffer[i - 1] = (Bytes(s) \o p)[i]
      <3>. SUFFICES ASSUME NEW i \in 1..s.size + Len(p)
                    PROVE  w[i - 1] = (Bytes(s) \o p)[i]
        BY <1>4
      <3>0. i - 1 \in 0..r.capcity - 1 /\ i \in Nat
        BY <1>1
      <3>1. CASE i <= s.size
        <4>1. i \in 1..s.size /\ i - 1 \in 0..s.size - 1
              /\ i - 1 \notin s.size..s.size + Len(p) - 1
          BY <3>1, <3>0, <1>1
        <4>2. w[i - 1] = r.buffer[i - 1]
          BY <3>0, <4>1, <1>2
        <4>3. r.buffer[i - 1] = s.buffer[i - 1]
          BY <4>1 DEF Fits
        <4>. QED  BY <3>1, <4>1, <4>2, <4>3, <2>2
      <3>2. CASE i > s.size
        <4>1. i - 1 \in s.size..s.size + Len(p) - 1 /\ (i - 1) - s.size + 1 = i - s.size
          BY <3>2, <3>0, <1>1
        <4>2. w[i - 1] = p[i - s.size]
          BY <3>0, <4>1, <1>2
        <4>3. ~(i <= s.size)
          BY <3>2, <3>0, <1>1
        <4>. QED  BY <4>2, <4>3, <2>2
      <3>3. i <= s.size \/ i > s.size
        BY <3>0, <1>1
      <3>. QED  BY <3>1, <3>2, <3>3, Zenon
    <2>. QED  BY <1>4, <2>3, <2>4 DEF Bytes
  <1>. QED  BY <1>5, <1>6 DEF q

\* string_append appends.
LEMMA AppendKeeps ==
    ASSUME NEW s, WellFormed(s), NEW p \in Seq(Nat)
    PROVE  /\ WellFormed(string_append(s, p))
           /\ Bytes(string_append(s, p)) = Bytes(s) \o p
  <1>1. Len(p) \in Nat
    BY LenProperties
  <1>2. Fits(Room(s, Len(p)), s, Len(p))
    BY <1>1, RoomFits
  <1>3. string_append(s, p) = PutInto(Room(s, Len(p)), s, p)
    BY DEF string_append, PutInto
  <1>. QED  BY <1>2, <1>3, PutKeeps

\* string_appendch appends one byte.
LEMMA AppendChKeeps ==
    ASSUME NEW s, WellFormed(s), NEW ch \in Nat
    PROVE  /\ WellFormed(string_appendch(s, ch))
           /\ Bytes(string_appendch(s, ch)) = Bytes(s) \o <<ch>>
  <1>1. <<ch>> \in Seq(Nat) /\ Len(<<ch>>) = 1
    OBVIOUS
  <1>2. Fits(RoomOne(s), s, Len(<<ch>>))
    BY <1>1, RoomOneFits
  <1>3. string_appendch(s, ch) = PutInto(RoomOne(s), s, <<ch>>)
    BY <1>1 DEF string_appendch, PutInto
  <1>. QED  BY <1>1, <1>2, <1>3, PutKeeps

\* A string of size 0 has no bytes.
LEMMA NoBytes ==
    ASSUME NEW s, s.size = 0
    PROVE  Bytes(s) = <<>>
  <1>1. Bytes(s) = [i \in 1..0 |-> s.buffer[i - 1]]
    BY DEF Bytes
  <1>. QED  BY <1>1

\* string_reset empties the text and clears what it had used.
LEMMA ResetKeeps ==
    ASSUME NEW s, WellFormed(s)
    PROVE  WellFormed(string_reset(s)) /\ Bytes(string_reset(s)) = <<>>
  <1>. DEFINE z == [i \in 1..s.size |-> 0]
              w == Written(s.buffer, 0, z)
              q == string_reset(s)
  <1>1. z \in Seq(Nat) /\ Len(z) = s.size /\ s.size \in Nat /\ s.capcity \in Nat
        /\ s.size < s.capcity
    BY DEF WellFormed
  <1>z. \A i \in 1..s.size : z[i] = 0
    OBVIOUS
  <1>. HIDE DEF z
  <1>2. /\ w \in [0..s.capcity - 1 -> Byte]
        /\ \A j \in 0..s.capcity - 1 :
              w[j] = IF j \in 0..0 + Len(z) - 1 THEN z[j - 0 + 1]
                     ELSE s.buffer[j]
    <2>1. 0 \in Nat /\ 0 + Len(z) <= s.capcity
      BY <1>1
    <2>2. s.buffer \in [0..s.capcity - 1 -> Byte]
      BY DEF WellFormed
    <2>. QED  BY <1>1, <2>1, <2>2, WrittenBytes, ZenonT(40)
  <1>3. q = [s EXCEPT !.buffer = w, !.size = 0]
    BY DEF string_reset, z
  <1>. HIDE DEF w
  <1>. HIDE DEF q
  <1>4. /\ q \in [buffer : Buffers, size : Nat, capcity : Nat]
        /\ q.buffer = w /\ q.size = 0 /\ q.capcity = s.capcity
    <2>1. w \in Buffers
      BY <1>1, <1>2, BufferType, Zenon
    <2>2. s \in [buffer : Buffers, size : Nat, capcity : Nat]
      BY DEF WellFormed
    <2>. QED  BY <1>3, <2>1, <2>2
  <1>5. ASSUME NEW i \in 0..s.capcity - 1, 2 * i < s.capcity
        PROVE  w[i] = 0
    <2>1. CASE i < s.size
      <3>1. i \in 0..0 + Len(z) - 1 /\ i - 0 + 1 \in 1..s.size
        BY <2>1, <1>1
      <3>2. w[i] = z[i - 0 + 1]
        BY <3>1, <1>2, Zenon
      <3>. QED  BY <3>1, <3>2, <1>z, Zenon
    <2>2. CASE i >= s.size
      <3>1. i \notin 0..0 + Len(z) - 1
        BY <2>2, <1>1
      <3>2. w[i] = s.buffer[i]
        BY <3>1, <1>2
      <3>3. s.buffer[i] = 0
        BY <2>2, <1>5 DEF WellFormed
      <3>. QED  BY <3>2, <3>3
    <2>. QED  BY <2>1, <2>2, <1>1
  <1>6. WellFormed(q)
    BY <1>1, <1>2, <1>4, <1>5 DEF WellFormed
  <1>. QED  BY <1>4, <1>6, NoBytes DEF q

\* string_blank makes an empty text.
LEMMA BlankWellFormed ==
    ASSUME NEW c \in Nat \ {0}
    PROVE  WellFormed(string_blank(c)) /\ Bytes(string_blank(c)) = <<>>
  <1>. DEFINE b == [i \in 0..c - 1 |-> 0]
              s == string_blank(c)
  <1>1. b \in [0..c - 1 -> Byte] /\ \A i \in 0..c - 1 : b[i] = 0
    BY DEF Byte
  <1>2. s = [buffer |-> b, size |-> 0, capcity |-> c]
    BY DEF string_blank
  <1>. HIDE DEF b, s
  <1>3. b \in Buffers
    BY <1>1, BufferType
  <1>4. /\ s \in [buffer : Buffers, size : Nat, capcity : Nat]
        /\ s.buffer = b /\ s.size = 0 /\ s.capcity = c
    BY <1>2, <1>3
  <1>5. WellFormed(s)
    BY <1>1, <1>4 DEF WellFormed
  <1>. QED  BY <1>4, <1>5, NoBytes DEF s

\* string_new is the same as appending to a blank string of the right capacity.
LEMMA NewWellFormed ==
    ASSUME NEW p \in Seq(Nat)
    PROVE  WellFormed(string_new(p)) /\ Bytes(string_new(p)) = p
  <1>. DEFINE n == Len(p)
              r == string_blank(n + 1)
              s == string_new(p)
  <1>1. n \in Nat /\ n + 1 \in Nat \ {0}
    BY LenProperties
  <1>2. WellFormed(r) /\ Bytes(r) = <<>>
    BY <1>1, BlankWellFormed
  <1>3. r.size = 0 /\ r.capcity = n + 1
    BY DEF string_blank
  <1>4. Fits(r, r, n)
    BY <1>1, <1>2, <1>3 DEF Fits
  <1>5. WellFormed(PutInto(r, r, p)) /\ Bytes(PutInto(r, r, p)) = <<>> \o p
    BY <1>2, <1>4, PutKeeps
  <1>6. /\ PutInto(r, r, p).buffer = Written(r.buffer, 0, p)
        /\ PutInto(r, r, p).size = n /\ PutInto(r, r, p).capcity = n + 1
        /\ Written(r.buffer, 0, p) \in Buffers
    <2>1. r \in [buffer : Buffers, size : Nat, capcity : Nat]
      BY <1>2 DEF WellFormed
    <2>2. PutInto(r, r, p) \in [buffer : Buffers, size : Nat, capcity : Nat]
      BY <1>5 DEF WellFormed
    <2>3. 0 + n = n
      BY <1>1
    <2>. HIDE DEF r
    <2>4. PutInto(r, r, p).buffer = Written(r.buffer, 0, p)
          /\ PutInto(r, r, p).size = n /\ PutInto(r, r, p).capcity = n + 1
      BY <2>1, <2>3, <1>3 DEF PutInto
    <2>. QED  BY <2>2, <2>4
  <1>7. /\ s.buffer = Written(r.buffer, 0, p) /\ s.size = n /\ s.capcity = n + 1
        /\ s \in [buffer : Buffers, size : Nat, capcity : Nat]
    BY <1>1, <1>6 DEF string_new
  <1>. HIDE DEF s, r
  <1>8. WellFormed(s)
    BY <1>5, <1>6, <1>7 DEF WellFormed
  <1>9. Bytes(s) = p
    BY <1>5, <1>6, <1>7 DEF Bytes
  <1>. QED  BY <1>8, <1>9 DEF s

-----------------------------------------------------------------------------

\* Pieces are sequences of bytes.
LEMMA Pieces ==
    ASSUME NEW p \in Piece
    PROVE  p \in Seq(Nat)
  <1>1. p \in Seq(Nat \ {0})
    BY AtStringAssumption
  <1>2. Len(p) \in Nat /\ p \in [1..Len(p) -> Nat]
    BY <1>1, LenProperties
  <1>. QED  BY <1>2, FunctionIsSeq, Zenon

\* A piece of one byte is that byte.
LEMMA OneByte ==
    ASSUME NEW p \in Piece, Len(p) = 1
    PROVE  p[1] \in Nat /\ p = <<p[1]>>
  <1>1. p \in Seq(Nat)
    BY Pieces
  <1>2. p \in [1..1 -> Nat]
    BY <1>1, LenProperties
  <1>. QED  BY <1>1, <1>2

\* A new string is well-formed.
LEMMA InitIInv == Init => IInv
  <1>. SUFFICES ASSUME Init PROVE IInv
    OBVIOUS
  <1>1. ASSUME NEW p \in Piece, str = string_new(p) PROVE WellFormed(str)
    BY <1>1, Pieces, NewWellFormed
  <1>2. ASSUME NEW c \in Blanks, str = string_blank(c) PROVE WellFormed(str)
    BY <1>2, BlankWellFormed, AtStringAssumption
  <1>. QED  BY <1>1, <1>2 DEF Init, IInv

\* Every call leaves a well-formed string.
LEMMA StepKeeps == IInv /\ [Next]_vars => IInv'
  <1>. SUFFICES ASSUME IInv, [Next]_vars PROVE IInv'
    OBVIOUS
  <1>. USE DEF IInv
  <1>1. CASE UNCHANGED vars
    BY <1>1 DEF vars, WellFormed
  <1>2. ASSUME NEW p \in Piece, AppendText(p) PROVE IInv'
    BY <1>2, Pieces, AppendKeeps DEF AppendText
  <1>3. ASSUME NEW p \in Piece, Len(p) = 1, AppendCh(p[1]) PROVE IInv'
    <2>1. p[1] \in Nat
      BY <1>3, OneByte
    <2>. QED  BY <1>3, <2>1, AppendChKeeps DEF AppendCh
  <1>4. CASE Reset
    BY <1>4, ResetKeeps DEF Reset
  <1>5. CASE Free
    BY <1>5 DEF Free, WellFormed
  <1>. QED  BY <1>1, <1>2, <1>3, <1>4, <1>5 DEF Next, Over

\* The string is well-formed at every moment: the buffer is as long as
\* capcity says, the text is shorter, and what follows it in the lower half is
\* zero.
THEOREM AlwaysIInv == Spec => []IInv
  BY InitIInv, StepKeeps, PTL DEF Spec

\* Whatever is appended, no byte is written behind the buffer, and string_cstr
\* ends with the text while that fills less than half of the buffer.
THEOREM CStringBelowHalf == Spec => []HalfFullIsCString
  <1>1. IInv => HalfFullIsCString
    <2>. SUFFICES ASSUME WellFormed(str) PROVE HalfFullIsCString
      BY DEF IInv
    <2>. QED  BY Numbers DEF WellFormed, HalfFullIsCString
  <1>. QED  BY <1>1, AlwaysIInv, PTL

-----------------------------------------------------------------------------

AText == IF live THEN Bytes(str) ELSE <<>>

\* A new string is a new text.
LEMMA InitMaps == Init => Abstract!Init
  <1>. SUFFICES ASSUME Init PROVE AText \in {<<>>} \cup Piece /\ live = TRUE
    BY DEF Abstract!Init, AText
  <1>1. ASSUME NEW p \in Piece, str = string_new(p) PROVE Bytes(str) = p
    BY <1>1, Pieces, NewWellFormed
  <1>2. ASSUME NEW c \in Blanks, str = string_blank(c) PROVE Bytes(str) = <<>>
    BY <1>2, BlankWellFormed, AtStringAssumption
  <1>. QED  BY <1>1, <1>2 DEF Init, AText

\* Every call is a call of the text, or nothing that the text shows.
LEMMA StepMaps == IInv /\ [Next]_vars => [Abstract!Next]_(Abstract!vars)
  <1>. SUFFICES ASSUME IInv, [Next]_vars
                PROVE  \/ AText' = <<>> /\ live /\ live' = live
                       \/ live /\ AText' = <<>> /\ live' = FALSE
                       \/ \E p \in Piece : /\ live /\ AText' = AText \o p
                                           /\ live' = live
                       \/ AText' = AText /\ live' = live
    BY DEF Abstract!Next, Abstract!vars, Abstract!Clear, Abstract!Dispose,
           Abstract!Extend, AText
  <1>. USE DEF IInv, AText
  <1>1. CASE UNCHANGED vars
    BY <1>1 DEF vars, Bytes
  <1>2. ASSUME NEW p \in Piece, live, AppendText(p)
        PROVE  AText' = AText \o p /\ live' = live
    <2>1. p \in Seq(Nat)
      BY Pieces
    <2>2. str' = string_append(str, p) /\ Bytes(str)' = Bytes(str')
      BY <1>2 DEF AppendText, Bytes
    <2>3. Bytes(string_append(str, p)) = Bytes(str) \o p
      BY <2>1, AppendKeeps
    <2>. QED  BY <1>2, <2>2, <2>3 DEF AppendText
  <1>3. ASSUME NEW p \in Piece, live, Len(p) = 1, AppendCh(p[1])
        PROVE  AText' = AText \o p /\ live' = live
    <2>1. p[1] \in Nat /\ p = <<p[1]>>
      BY <1>3, OneByte
    <2>3. str' = string_appendch(str, p[1]) /\ Bytes(str)' = Bytes(str')
      BY <1>3 DEF AppendCh, Bytes
    <2>4. Bytes(string_appendch(str, p[1])) = Bytes(str) \o <<p[1]>>
      BY <2>1, AppendChKeeps
    <2>. QED  BY <1>3, <2>1, <2>3, <2>4 DEF AppendCh
  <1>4. ASSUME live, Reset PROVE AText' = <<>> /\ live' = live
    <2>1. Bytes(str)' = Bytes(str') /\ Bytes(str') = <<>>
      BY <1>4, ResetKeeps DEF Reset, Bytes
    <2>. QED  BY <1>4, <2>1 DEF Reset
  <1>5. ASSUME live, Free PROVE AText' = <<>> /\ live' = FALSE
    BY <1>5 DEF Free
  <1>. QED  BY <1>1, <1>2, <1>3, <1>4, <1>5 DEF Next, Over

\* For all pieces and capacities, the growing buffer is a text.
THEOREM Refinement == Spec => ImplementsText
  BY InitMaps, StepMaps, AlwaysIInv, PTL
  DEF Spec, ImplementsText, Abstract!Spec

-----------------------------------------------------------------------------
(* Powers of two.                                                           *)

\* The powers are defined as they look.
LEMMA PowerIs ==
    /\ Bits \in Nat \ {0} /\ Power[0] = 1
    /\ \A k \in 0..Bits : Power[k] \in Nat \ {0}
    /\ \A k \in 1..Bits : Power[k] = 2 * Power[k - 1]
  <1> DEFINE par == [k \in 1..Bits |-> k - 1]
             T == Nat \ {0}
             step == [kt \in (1..Bits) \X T |-> 2 * kt[2]]
             Is(f) == f = [k \in 0..Bits |-> IF k = 0 THEN 1 ELSE 2 * f[k - 1]]
  <1>1. Bits \in Nat /\ Bits # 0
    BY AtUtilAssumption
  <1>2. /\ par \in [1..Bits -> Nat] /\ \A k \in 1..Bits : par[k] < k
        /\ 1 \in T /\ step \in [(1..Bits) \X T -> T]
    BY <1>1
  <1>3. WellDefined(Bits, par, T, 1, step)
    <2> HIDE DEF par, T, step
    <2>1. QED BY <1>1, <1>2, RecursionFromZero
  <1>4. PICK f : FromZero(f, Bits, par, T, 1, step)
    BY <1>3 DEF WellDefined
  <1>5. f \in [0..Bits -> T] /\ f[0] = 1
    BY <1>4 DEF FromZero
  <1>6. ASSUME NEW k \in 1..Bits PROVE f[k] = 2 * f[k - 1]
    <2>1. f[k] = step[<<k, f[k - 1]>>] /\ f[k - 1] \in T
      <3>1. k - 1 \in 0..Bits /\ par[k] = k - 1
        BY <1>1
      <3>2. f[k] = step[<<k, f[par[k]]>>]
        BY <1>4 DEF FromZero
      <3> HIDE DEF par, step, T
      <3>3. QED BY <1>5, <3>1, <3>2
    <2> HIDE DEF T
    <2>2. QED BY <2>1
  <1>7. Is(f)
    BY <1>1, <1>5, <1>6
  <1> DEFINE F == CHOOSE g : Is(g)
  <1>8. Is(F)
    BY <1>7
  <1>9. Power = F
    BY DEF Power
  <1> HIDE DEF F
  <1>10. /\ Power[0] = 1 /\ \A k \in 1..Bits : Power[k] = 2 * Power[k - 1]
    BY <1>1, <1>8, <1>9
  <1>11. \A k \in 0..Bits : Power[k] \in Nat \ {0}
    <2> DEFINE S == {k \in Nat : k <= Bits => Power[k] \in Nat \ {0}}
    <2>1. 0 \in S
      BY <1>10
    <2>2. ASSUME NEW k \in S PROVE k + 1 \in S
      <3> SUFFICES ASSUME k + 1 <= Bits PROVE Power[k + 1] \in Nat \ {0}
        OBVIOUS
      <3>1. k \in Nat /\ Power[k] \in Nat \ {0} /\ k + 1 \in 1..Bits
        BY <1>1
      <3>2. Power[k + 1] = 2 * Power[(k + 1) - 1] /\ (k + 1) - 1 = k
        BY <1>10, <3>1
      <3>3. QED BY <3>1, <3>2
    <2>3. S \in SUBSET Nat
      OBVIOUS
    <2> HIDE DEF S
    <2>4. S = Nat
      BY <2>1, <2>2, <2>3, SetInduction
    <2>5. QED BY <1>1, <2>4 DEF S
  <1>12. QED BY <1>1, <1>10, <1>11

\* Each is at least twice every one before it.
LEMMA PowersGrow ==
    ASSUME NEW k \in 0..Bits, NEW j \in 0..Bits, j < k
    PROVE  2 * Power[j] <= Power[k]
  <1> DEFINE S == {n \in Nat : j + 1 + n <= Bits => 2 * Power[j] <= Power[j + 1 + n]}
  <1>1. Bits \in Nat /\ \A n \in 0..Bits : Power[n] \in Nat
    BY PowerIs
  <1>2. 0 \in S
    <2> SUFFICES ASSUME j + 1 <= Bits PROVE 2 * Power[j] <= Power[j + 1]
      OBVIOUS
    <2>1. PICK n \in 1..Bits : n = j + 1
      BY <1>1
    <2>2. Power[n] = 2 * Power[n - 1] /\ n - 1 = j
      BY <2>1, PowerIs
    <2>3. QED BY <1>1, <2>1, <2>2
  <1>3. ASSUME NEW n \in S PROVE n + 1 \in S
    <2> SUFFICES ASSUME j + 1 + (n + 1) <= Bits
                 PROVE  2 * Power[j] <= Power[j + 1 + (n + 1)]
      OBVIOUS
    <2>1. PICK m \in 1..Bits : m = j + 1 + (n + 1)
      BY <1>1
    <2>2. Power[m] = 2 * Power[m - 1] /\ m - 1 = j + 1 + n /\ m - 1 \in 0..Bits
      BY <1>1, <2>1, PowerIs
    <2>3. 2 * Power[j] <= Power[m - 1]
      BY <1>1, <2>1, <2>2
    <2>4. QED BY <1>1, <2>1, <2>2, <2>3
  <1>4. S \in SUBSET Nat
    OBVIOUS
  <1>5. PICK n \in Nat : k = j + 1 + n
    <2>1. k - j - 1 \in Nat
      BY <1>1
    <2>2. QED BY <1>1, <2>1
  <1> HIDE DEF S
  <1>6. S = Nat
    BY <1>2, <1>3, <1>4, SetInduction
  <1>7. n \in S
    BY <1>6
  <1>8. j + 1 + n <= Bits => 2 * Power[j] <= Power[j + 1 + n]
    BY <1>7 DEF S
  <1>9. QED BY <1>1, <1>5, <1>8

\* The size of a number: Power[k] <= n < 2 * Power[k].
Sized(n, k) == k \in 0..Bits - 1 /\ Power[k] <= n /\ n < 2 * Power[k]

\* Every number has a size in bits.
LEMMA SizeExists ==
    ASSUME NEW n \in UInt, n # 0
    PROVE  \E k \in Nat : Sized(n, k)
  <1> DEFINE S == {k \in 0..Bits : n < Power[k]}
             k == Min(S)
  <1>1. /\ Bits \in Nat \ {0} /\ Power[0] = 1
        /\ \A i \in 0..Bits : Power[i] \in Nat
        /\ \A i \in 1..Bits : Power[i] = 2 * Power[i - 1]
    BY PowerIs
  <1>2. Bits \in S /\ S \in SUBSET Nat /\ n \in Nat
    BY <1>1 DEF UInt
  <1>3. k \in S /\ \A m \in S : k <= m
    BY <1>2, LeastNumber
  <1> HIDE DEF k
  <1>4. k \in 1..Bits /\ n < Power[k]
    BY <1>1, <1>2, <1>3
  <1>5. k - 1 \notin S /\ k - 1 \in 0..Bits
    BY <1>1, <1>3, <1>4
  <1>6. Power[k] = 2 * Power[k - 1] /\ Power[k - 1] \in Nat
    BY <1>1, <1>4, <1>5
  <1>7. Sized(n, k - 1) /\ k - 1 \in Nat
    BY <1>1, <1>2, <1>4, <1>5, <1>6 DEF Sized
  <1>8. QED BY <1>7

\* Half of it.
LEMMA Half ==
    ASSUME NEW n \in UInt, n # 0
    PROVE  /\ n \div 2 \in UInt /\ n \div 2 < n /\ n \div 2 \in Nat
           /\ n = 2 * (n \div 2) + (n % 2) /\ n % 2 \in 0..1
           /\ \A k \in Nat : Sized(n, k) =>
                 IF k = 0 THEN n = 1 ELSE Sized(n \div 2, k - 1)
  <1>1. /\ Power[Bits] \in Nat /\ Power[0] = 1 /\ Bits \in Nat
        /\ \A i \in 0..Bits : Power[i] \in Nat
        /\ \A i \in 1..Bits : Power[i] = 2 * Power[i - 1]
    BY PowerIs
  <1>2. n \in Nat /\ n < Power[Bits]
    BY <1>1 DEF UInt
  <1>3. /\ n \div 2 \in Nat /\ n \div 2 < n /\ n = 2 * (n \div 2) + (n % 2)
        /\ n % 2 \in 0..1
    BY <1>2
  <1>4. ASSUME NEW k \in Nat, Sized(n, k)
        PROVE  IF k = 0 THEN n = 1 ELSE Sized(n \div 2, k - 1)
    <2>1. CASE k = 0
      BY <1>1, <1>2, <1>4, <2>1 DEF Sized
    <2>2. CASE k # 0
      <3>1. /\ k \in 1..Bits /\ k - 1 \in 0..Bits - 1 /\ k - 1 \in 0..Bits
            /\ Power[k] <= n /\ n < 2 * Power[k]
        BY <1>1, <1>4, <2>2 DEF Sized
      <3>2. PICK p \in Nat : p = Power[k - 1]
        BY <1>1, <3>1
      <3>3. Power[k] = 2 * p
        BY <1>1, <3>1, <3>2
      <3>4. p <= n \div 2 /\ n \div 2 < 2 * p
        BY <1>2, <1>3, <3>1, <3>3
      <3>5. QED BY <2>2, <3>1, <3>2, <3>4 DEF Sized
    <2>3. QED BY <2>1, <2>2
  <1>5. QED BY <1>1, <1>2, <1>3, <1>4 DEF UInt

\* A function of the numbers, by their halves, is defined as it looks.
LEMMA ByHalves ==
    ASSUME NEW base \in Nat, NEW step \in [UInt \X Nat -> Nat]
    PROVE  \E f \in [UInt -> Nat] :
              f[0] = base /\ \A n \in UInt \ {0} : f[n] = step[<<n, f[n \div 2]>>]
  <1> DEFINE N == Power[Bits] - 1
             par == [k \in 1..N |-> k \div 2]
             st == [kt \in (1..N) \X Nat |-> step[kt]]
  <1>1. N \in Nat /\ UInt = 0..N
    <2>1. Power[Bits] \in Nat \ {0}
      BY PowerIs
    <2>2. QED BY <2>1 DEF UInt
  <1> HIDE DEF N
  <1>2. /\ par \in [1..N -> Nat] /\ \A k \in 1..N : par[k] < k
        /\ st \in [(1..N) \X Nat -> Nat]
    <2>1. \A k \in 1..N : k \div 2 \in Nat /\ k \div 2 < k
      BY <1>1
    <2>2. (1..N) \X Nat \subseteq UInt \X Nat
      BY <1>1
    <2>3. QED BY <2>1, <2>2
  <1>3. WellDefined(N, par, Nat, base, st)
    <2> HIDE DEF par, st
    <2>1. QED BY <1>1, <1>2, RecursionFromZero
  <1>4. PICK f : FromZero(f, N, par, Nat, base, st)
    BY <1>3 DEF WellDefined
  <1>5. f \in [UInt -> Nat] /\ f[0] = base
    BY <1>1, <1>4 DEF FromZero
  <1>6. ASSUME NEW n \in UInt \ {0} PROVE f[n] = step[<<n, f[n \div 2]>>]
    <2>1. n \in 1..N /\ n \div 2 \in UInt
      BY <1>1, Half
    <2>2. f[n] = st[<<n, f[par[n]]>>]
      BY <1>4, <2>1 DEF FromZero
    <2>3. par[n] = n \div 2 /\ f[n \div 2] \in Nat
      BY <1>5, <2>1
    <2>4. st[<<n, f[n \div 2]>>] = step[<<n, f[n \div 2]>>]
      BY <2>1, <2>3
    <2> HIDE DEF par, st
    <2>5. QED BY <2>2, <2>3, <2>4
  <1>7. QED BY <1>5, <1>6

\* n & (n - 1), bit by bit.
LEMMA LowestBitOffIs ==
    /\ LowestBitOff[0] = 0
    /\ \A n \in UInt \ {0} :
          LowestBitOff[n] = IF n % 2 = 1 THEN n - 1
                            ELSE 2 * LowestBitOff[n \div 2]
    /\ \A n \in UInt : LowestBitOff[n] \in Nat
  <1> DEFINE step == [nt \in UInt \X Nat |->
                        IF nt[1] % 2 = 1 THEN nt[1] - 1 ELSE 2 * nt[2]]
             Is(f) == f = [n \in UInt |->
                            IF n = 0 THEN 0
                            ELSE IF n % 2 = 1 THEN n - 1 ELSE 2 * f[n \div 2]]
  <1>0. UInt \subseteq Nat /\ 0 \in UInt
    <2>1. Power[Bits] \in Nat \ {0}
      BY PowerIs
    <2>2. QED BY <2>1 DEF UInt
  <1>1. step \in [UInt \X Nat -> Nat]
    <2>1. ASSUME NEW n \in UInt, NEW t \in Nat
          PROVE  (IF n % 2 = 1 THEN n - 1 ELSE 2 * t) \in Nat
      BY <1>0
    <2>2. ASSUME NEW nt \in UInt \X Nat
          PROVE  (IF nt[1] % 2 = 1 THEN nt[1] - 1 ELSE 2 * nt[2]) \in Nat
      <3>1. nt[1] \in UInt /\ nt[2] \in Nat
        OBVIOUS
      <3>2. QED BY <2>1, <3>1
    <2>3. QED BY <2>2
  <1> HIDE DEF step
  <1>2. PICK f \in [UInt -> Nat] :
           f[0] = 0 /\ \A n \in UInt \ {0} : f[n] = step[<<n, f[n \div 2]>>]
    BY <1>1, ByHalves
  <1>3. ASSUME NEW n \in UInt \ {0}
        PROVE  f[n] = IF n % 2 = 1 THEN n - 1 ELSE 2 * f[n \div 2]
    <2>1. n \div 2 \in UInt /\ f[n \div 2] \in Nat
      BY <1>2, Half
    <2>2. QED BY <1>2, <2>1 DEF step
  <1>4. Is(f)
    BY <1>2, <1>3
  <1> DEFINE F == CHOOSE g : Is(g)
  <1>5. Is(F)
    BY <1>4
  <1>6. LowestBitOff = F
    BY DEF LowestBitOff
  <1> HIDE DEF F
  <1>7. /\ LowestBitOff[0] = 0
        /\ \A n \in UInt \ {0} :
              LowestBitOff[n] = IF n % 2 = 1 THEN n - 1
                                ELSE 2 * LowestBitOff[n \div 2]
    BY <1>0, <1>5, <1>6
  <1>8. \A n \in UInt : LowestBitOff[n] \in Nat
    <2> DEFINE S == {n \in Nat : n \in UInt => LowestBitOff[n] \in Nat}
    <2>1. ASSUME NEW n \in Nat, \A m \in 0..n - 1 : m \in S PROVE n \in S
      <3> SUFFICES ASSUME n \in UInt, n # 0 PROVE LowestBitOff[n] \in Nat
        BY <1>7
      <3>1. n \div 2 \in UInt /\ n \div 2 \in 0..n - 1
        BY Half
      <3>2. LowestBitOff[n \div 2] \in Nat
        BY <2>1, <3>1
      <3>3. QED BY <1>7, <3>2
    <2>2. S \in SUBSET Nat
      OBVIOUS
    <2> HIDE DEF S
    <2>3. S = Nat
      BY <2>1, <2>2, NumbersBelow
    <2>4. QED BY <1>0, <2>3 DEF S
  <1>9. QED BY <1>7, <1>8

\* The loop of the roundings, bit by bit.
LEMMA ShiftedPerIs ==
    /\ ShiftedPer[0] = 1
    /\ \A n \in UInt \ {0} :
          ShiftedPer[n] = (2 * ShiftedPer[n \div 2]) % Power[Bits]
    /\ \A n \in UInt : ShiftedPer[n] \in Nat
  <1> DEFINE step == [nt \in UInt \X Nat |-> (2 * nt[2]) % Power[Bits]]
             Is(f) == f = [n \in UInt |->
                            IF n = 0 THEN 1
                            ELSE (2 * f[n \div 2]) % Power[Bits]]
  <1>0. UInt \subseteq Nat /\ 0 \in UInt /\ Power[Bits] \in Nat \ {0}
    <2>1. Power[Bits] \in Nat \ {0}
      BY PowerIs
    <2>2. QED BY <2>1 DEF UInt
  <1>a. ASSUME NEW t \in Nat PROVE (2 * t) % Power[Bits] \in Nat
    BY <1>0
  <1>1. step \in [UInt \X Nat -> Nat]
    <2>1. ASSUME NEW nt \in UInt \X Nat PROVE (2 * nt[2]) % Power[Bits] \in Nat
      <3>1. nt[2] \in Nat
        OBVIOUS
      <3>2. QED BY <1>a, <3>1
    <2>2. QED BY <2>1
  <1> HIDE DEF step
  <1>2. PICK f \in [UInt -> Nat] :
           f[0] = 1 /\ \A n \in UInt \ {0} : f[n] = step[<<n, f[n \div 2]>>]
    <2>1. 1 \in Nat
      OBVIOUS
    <2>2. QED BY <1>1, <2>1, ByHalves
  <1>3. ASSUME NEW n \in UInt \ {0}
        PROVE  f[n] = (2 * f[n \div 2]) % Power[Bits]
    <2>1. n \div 2 \in UInt /\ f[n \div 2] \in Nat
      BY <1>2, Half
    <2>2. QED BY <1>2, <2>1 DEF step
  <1>4. Is(f)
    BY <1>2, <1>3
  <1> DEFINE F == CHOOSE g : Is(g)
  <1>5. Is(F)
    BY <1>4
  <1>6. ShiftedPer = F
    BY DEF ShiftedPer
  <1> HIDE DEF F
  <1>7. /\ ShiftedPer[0] = 1
        /\ \A n \in UInt \ {0} :
              ShiftedPer[n] = (2 * ShiftedPer[n \div 2]) % Power[Bits]
    BY <1>0, <1>5, <1>6
  <1>8. \A n \in UInt : ShiftedPer[n] \in Nat
    <2> DEFINE S == {n \in Nat : n \in UInt => ShiftedPer[n] \in Nat}
    <2>1. ASSUME NEW n \in Nat, \A m \in 0..n - 1 : m \in S PROVE n \in S
      <3> SUFFICES ASSUME n \in UInt, n # 0 PROVE ShiftedPer[n] \in Nat
        BY <1>7
      <3>1. n \div 2 \in UInt /\ n \div 2 \in 0..n - 1
        BY Half
      <3>2. ShiftedPer[n \div 2] \in Nat
        BY <2>1, <3>1
      <3>3. ShiftedPer[n] = (2 * ShiftedPer[n \div 2]) % Power[Bits]
        BY <1>7
      <3>4. QED BY <1>a, <3>2, <3>3
    <2>2. S \in SUBSET Nat
      OBVIOUS
    <2> HIDE DEF S
    <2>3. S = Nat
      BY <2>1, <2>2, NumbersBelow
    <2>4. QED BY <1>0, <2>3 DEF S
  <1>9. QED BY <1>7, <1>8

\* It finds the power above a number, or 0 where that is out of range.
LEMMA ShiftedPast ==
    ASSUME NEW n \in UInt, NEW k \in Nat, Sized(n, k)
    PROVE  ShiftedPer[n] = IF k + 1 < Bits THEN Power[k + 1] ELSE 0
  <1> DEFINE Claim(i) == \A m \in UInt : Sized(m, i) =>
                ShiftedPer[m] = IF i + 1 < Bits THEN Power[i + 1] ELSE 0
             S == {i \in Nat : Claim(i)}
  <1>1. /\ Bits \in Nat \ {0} /\ Power[0] = 1 /\ Power[Bits] \in Nat \ {0}
        /\ \A i \in 0..Bits : Power[i] \in Nat \ {0}
        /\ \A i \in 1..Bits : Power[i] = 2 * Power[i - 1]
    BY PowerIs
  \* One round of the loop.
  <1>2. ASSUME NEW i \in Nat, i < Bits
        PROVE  (2 * Power[i]) % Power[Bits] =
                  IF i + 1 < Bits THEN Power[i + 1] ELSE 0
    <2>1. PICK j \in 1..Bits : j = i + 1
      BY <1>1, <1>2
    <2>2. Power[j] = 2 * Power[i] /\ Power[j] \in Nat
      BY <1>1, <2>1
    <2>3. CASE j < Bits
      <3>1. 2 * Power[j] <= Power[Bits]
        BY <1>1, <2>1, <2>3, PowersGrow
      <3>2. Power[j] < Power[Bits]
        <4>1. Power[j] # 0
          BY <1>1, <2>1
        <4>2. QED BY <1>1, <2>2, <3>1, <4>1
      <3>3. Power[j] % Power[Bits] = Power[j]
        <4>1. PICK p \in Nat : p = Power[j]
          BY <2>2
        <4>2. PICK q \in Nat : q = Power[Bits]
          BY <1>1
        <4>3. p % q = p
          BY <3>2, <4>1, <4>2
        <4>4. QED BY <4>1, <4>2, <4>3
      <3>4. QED BY <2>1, <2>2, <2>3, <3>3
    <2>4. CASE j = Bits
      <3>1. Power[Bits] % Power[Bits] = 0
        BY <1>1
      <3>2. QED BY <1>1, <2>1, <2>2, <2>4, <3>1
    <2>5. j \in Nat /\ j <= Bits
      BY <1>1
    <2>6. QED BY <1>1, <2>3, <2>4, <2>5
  <1>3. 0 \in S
    <2> SUFFICES ASSUME NEW m \in UInt, Sized(m, 0)
                 PROVE  ShiftedPer[m] = IF 0 + 1 < Bits THEN Power[0 + 1] ELSE 0
      OBVIOUS
    <2>1. m # 0
      BY <1>1 DEF Sized
    <2>2. m = 1
      BY <2>1, Half
    <2>3. m \div 2 = 0
      BY <2>2
    <2>4. ShiftedPer[m] = (2 * 1) % Power[Bits]
      BY <2>1, <2>3, ShiftedPerIs
    <2>5. QED BY <1>1, <1>2, <2>4
  <1>4. ASSUME NEW i \in S PROVE i + 1 \in S
    <2> SUFFICES ASSUME NEW m \in UInt, Sized(m, i + 1)
                 PROVE  ShiftedPer[m] = IF (i + 1) + 1 < Bits
                                        THEN Power[(i + 1) + 1] ELSE 0
      OBVIOUS
    <2>1. i \in Nat /\ i + 1 \in 0..Bits - 1 /\ m # 0
      BY <1>1 DEF Sized
    <2>2. m \div 2 \in UInt /\ Sized(m \div 2, i)
      <3>1. i + 1 # 0 /\ (i + 1) - 1 = i /\ i + 1 \in Nat
        BY <2>1
      <3>2. QED BY <2>1, <3>1, Half
    <2>3. ShiftedPer[m \div 2] = Power[i + 1]
      BY <1>1, <2>1, <2>2
    <2>4. ShiftedPer[m] = (2 * Power[i + 1]) % Power[Bits]
      BY <2>1, <2>3, ShiftedPerIs
    <2>5. QED BY <1>1, <1>2, <2>1, <2>4
  <1>5. S \in SUBSET Nat
    OBVIOUS
  <1> HIDE DEF S
  <1>6. S = Nat
    BY <1>3, <1>4, <1>5, SetInduction
  <1>7. QED BY <1>6 DEF S

\* Only powers have no bit but their lowest.
LEMMA OneBit ==
    ASSUME NEW n \in UInt, NEW k \in Nat, Sized(n, k)
    PROVE  is2n(n) = 0 <=> n = Power[k]
  <1> DEFINE Claim(i) == \A m \in UInt : Sized(m, i) =>
                            (LowestBitOff[m] = 0 <=> m = Power[i])
             S == {i \in Nat : Claim(i)}
  <1>1. /\ Bits \in Nat \ {0} /\ Power[0] = 1
        /\ \A i \in 0..Bits : Power[i] \in Nat \ {0}
        /\ \A i \in 1..Bits : Power[i] = 2 * Power[i - 1]
    BY PowerIs
  <1>2. 0 \in S
    <2> SUFFICES ASSUME NEW m \in UInt, Sized(m, 0)
                 PROVE  LowestBitOff[m] = 0 <=> m = Power[0]
      OBVIOUS
    <2>1. m # 0
      BY <1>1 DEF Sized
    <2>2. m = 1
      BY <2>1, Half
    <2>3. m % 2 = 1 /\ m - 1 = 0
      BY <2>2
    <2>4. QED BY <1>1, <2>1, <2>2, <2>3, LowestBitOffIs
  <1>3. ASSUME NEW i \in S PROVE i + 1 \in S
    <2> SUFFICES ASSUME NEW m \in UInt, Sized(m, i + 1)
                 PROVE  LowestBitOff[m] = 0 <=> m = Power[i + 1]
      OBVIOUS
    <2>1. i \in Nat /\ i + 1 \in 0..Bits - 1 /\ m # 0
      BY <1>1 DEF Sized
    <2>2. m \div 2 \in UInt /\ Sized(m \div 2, i)
      <3>1. i + 1 # 0 /\ (i + 1) - 1 = i /\ i + 1 \in Nat
        BY <2>1
      <3>2. QED BY <2>1, <3>1, Half
    <2>3. LowestBitOff[m \div 2] = 0 <=> m \div 2 = Power[i]
      BY <2>1, <2>2
    <2>4. Power[i + 1] = 2 * Power[i] /\ Power[i] \in Nat \ {0}
      <3>1. PICK j \in 1..Bits : j = i + 1
        BY <1>1, <2>1
      <3>2. Power[j] = 2 * Power[j - 1] /\ j - 1 = i /\ i \in 0..Bits
        BY <1>1, <2>1, <3>1
      <3>3. QED BY <1>1, <3>1, <3>2
    <2>5. /\ m = 2 * (m \div 2) + (m % 2) /\ m % 2 \in 0..1 /\ m \div 2 \in Nat
      BY <2>1, Half
    <2>6. CASE m % 2 = 1
      <3>1. LowestBitOff[m] = m - 1
        BY <2>1, <2>6, LowestBitOffIs
      <3>2. m - 1 # 0 /\ m # Power[i + 1]
        <4>1. m >= Power[i + 1]
          BY DEF Sized
        <4>2. QED BY <2>4, <2>5, <2>6, <4>1
      <3>3. QED BY <3>1, <3>2
    <2>7. CASE m % 2 = 0
      <3>1. LowestBitOff[m] = 2 * LowestBitOff[m \div 2]
        BY <2>1, <2>7, LowestBitOffIs
      <3>2. LowestBitOff[m \div 2] \in Nat
        BY <2>2, LowestBitOffIs
      <3>3. LowestBitOff[m] = 0 <=> m \div 2 = Power[i]
        BY <2>3, <3>1, <3>2
      <3>4. m = Power[i + 1] <=> m \div 2 = Power[i]
        BY <2>4, <2>5, <2>7
      <3>5. QED BY <3>3, <3>4
    <2>8. QED BY <2>5, <2>6, <2>7
  <1>4. S \in SUBSET Nat
    OBVIOUS
  <1> HIDE DEF S
  <1>5. S = Nat
    BY <1>2, <1>3, <1>4, SetInduction
  <1>6. QED BY <1>5 DEF S, is2n

\* What is between a power and the next is no power.
LEMMA NoneBetween ==
    ASSUME NEW n \in UInt, NEW k \in Nat, Sized(n, k),
           NEW j \in 0..Bits - 1
    PROVE  /\ Power[j] >= n => Power[j] = n \/ k < j
           /\ k < j => Power[j] >= Power[k + 1] /\ k + 1 < Bits
  <1>1. /\ Bits \in Nat /\ k \in 0..Bits - 1
        /\ \A i \in 0..Bits : Power[i] \in Nat \ {0}
        /\ \A i \in 1..Bits : Power[i] = 2 * Power[i - 1]
        /\ Power[k] <= n /\ n < 2 * Power[k] /\ n \in Nat
    BY PowerIs DEF Sized, UInt
  <1>2. ASSUME j < k PROVE Power[j] < n
    <2>1. 2 * Power[j] <= Power[k] /\ j \in 0..Bits /\ k \in 0..Bits
      BY <1>1, <1>2, PowersGrow
    <2>2. QED BY <1>1, <2>1
  <1>3. ASSUME k < j PROVE Power[j] >= Power[k + 1] /\ k + 1 < Bits
    <2>1. k + 1 \in 0..Bits /\ j \in 0..Bits
      BY <1>1, <1>3
    <2>2. CASE j = k + 1
      BY <1>1, <2>1, <2>2
    <2>3. CASE k + 1 < j
      <3>1. 2 * Power[k + 1] <= Power[j]
        BY <2>1, <2>3, PowersGrow
      <3>2. QED BY <1>1, <2>1, <2>3, <3>1
    <2>4. QED BY <1>1, <1>3, <2>2, <2>3
  <1>4. ASSUME Power[j] >= n, Power[j] # n PROVE k < j
    <2>1. ~(j < k)
      BY <1>1, <1>2, <1>4
    <2>2. j # k
      BY <1>1, <1>4
    <2>3. QED BY <1>1, <2>1, <2>2
  <1>5. QED BY <1>3, <1>4

RoundedUp(n) ==
    LET enough == {p \in PowersOfTwo : p >= n}
    IN IF enough = {} THEN min2n(n) = 0
       ELSE min2n(n) \in enough /\ \A p \in enough : min2n(n) <= p

RoundedDown(n) == /\ max2n(n) \in PowersOfTwo
                  /\ max2n(n) <= n /\ n < 2 * max2n(n)

\* min2n is the least power of two that is not below n, or 0 above them all.
LEMMA RoundsUp ==
    ASSUME NEW n \in UInt
    PROVE  RoundedUp(n)
  <1> DEFINE enough == {p \in PowersOfTwo : p >= n}
  <1>1. /\ Bits \in Nat \ {0} /\ Power[0] = 1 /\ n \in Nat
        /\ \A i \in 0..Bits : Power[i] \in Nat \ {0}
    BY PowerIs DEF UInt
  <1>2. CASE n = 0
    <2>1. min2n(n) = 1
      BY <1>2 DEF min2n
    <2>2. 1 \in enough
      BY <1>1, <1>2 DEF PowersOfTwo
    <2>3. \A p \in enough : 1 <= p
      BY <1>1 DEF PowersOfTwo
    <2>4. QED BY <2>1, <2>2, <2>3 DEF RoundedUp
  <1>3. CASE n # 0
    <2>1. PICK k \in Nat : Sized(n, k)
      BY <1>3, SizeExists
    <2>2. k \in 0..Bits - 1 /\ k \in 0..Bits /\ Power[k] <= n
      BY <1>1, <2>1 DEF Sized
    <2>3. CASE is2n(n) = 0
      <3>1. n = Power[k] /\ min2n(n) = n
        BY <1>3, <2>1, <2>3, OneBit DEF min2n
      <3>2. n \in enough
        BY <1>1, <2>2, <3>1 DEF PowersOfTwo
      <3>3. QED BY <3>1, <3>2 DEF RoundedUp
    <2>4. CASE is2n(n) # 0
      <3>1. n # Power[k] /\ Power[k] < n
        BY <1>1, <2>1, <2>2, <2>4, OneBit
      <3>2. min2n(n) = IF k + 1 < Bits THEN Power[k + 1] ELSE 0
        BY <1>3, <2>1, <2>4, ShiftedPast DEF min2n
      <3>3. \A j \in 0..Bits - 1 : Power[j] # n
        <4> SUFFICES ASSUME NEW j \in 0..Bits - 1, Power[j] = n PROVE FALSE
          OBVIOUS
        <4>1. j # k /\ j \in 0..Bits
          BY <1>1, <3>1
        <4>2. CASE j < k
          <5>1. 2 * Power[j] <= Power[k]
            BY <2>2, <4>1, <4>2, PowersGrow
          <5>2. QED BY <1>1, <2>2, <3>1, <4>1, <5>1
        <4>3. CASE k < j
          <5>1. 2 * Power[k] <= Power[j]
            BY <2>2, <4>1, <4>3, PowersGrow
          <5>2. n < 2 * Power[k]
            BY <2>1 DEF Sized
          <5>3. QED BY <1>1, <2>2, <4>1, <5>1, <5>2
        <4>4. QED BY <1>1, <2>2, <4>1, <4>2, <4>3
      <3>4. ASSUME NEW j \in 0..Bits - 1, Power[j] >= n
            PROVE  k + 1 < Bits /\ Power[k + 1] <= Power[j]
        <4>1. k < j
          BY <2>1, <3>3, <3>4, NoneBetween
        <4>2. Power[j] >= Power[k + 1] /\ k + 1 < Bits
          BY <2>1, <4>1, NoneBetween
        <4>3. k + 1 \in 0..Bits /\ j \in 0..Bits
          BY <1>1, <2>2, <4>2
        <4>4. QED BY <1>1, <4>2, <4>3
      <3>5. CASE k + 1 < Bits
        <4>1. PICK m \in 0..Bits - 1 : m = k + 1
          BY <1>1, <2>2, <3>5
        <4>2. Power[m] >= n
          <5>1. 2 * Power[k] <= Power[m]
            BY <1>1, <2>2, <4>1, PowersGrow
          <5>2. n < 2 * Power[k]
            BY <2>1 DEF Sized
          <5>3. QED BY <1>1, <2>2, <4>1, <5>1, <5>2
        <4>3. Power[m] \in enough
          BY <4>2 DEF PowersOfTwo
        <4>4. \A p \in enough : Power[m] <= p
          BY <3>4, <4>1 DEF PowersOfTwo
        <4>5. min2n(n) = Power[m]
          BY <3>2, <3>5, <4>1
        <4>6. QED BY <4>3, <4>4, <4>5 DEF RoundedUp
      <3>6. CASE ~(k + 1 < Bits)
        <4>1. enough = {}
          BY <3>4, <3>6 DEF PowersOfTwo
        <4>2. QED BY <3>2, <3>6, <4>1 DEF RoundedUp
      <3>7. QED BY <3>5, <3>6
    <2>5. QED BY <2>3, <2>4
  <1>4. QED BY <1>2, <1>3

\* max2n is the greatest power of two that is not above n.
LEMMA RoundsDown ==
    ASSUME NEW n \in UInt, n # 0
    PROVE  RoundedDown(n)
  <1>1. /\ Bits \in Nat \ {0} /\ Power[0] = 1 /\ n \in Nat
        /\ \A i \in 0..Bits : Power[i] \in Nat \ {0}
    BY PowerIs DEF UInt
  <1>2. PICK k \in Nat : Sized(n, k)
    BY SizeExists
  <1>3. /\ k \in 0..Bits - 1 /\ k \in 0..Bits /\ Power[k] <= n
        /\ n < 2 * Power[k]
    BY <1>1, <1>2 DEF Sized
  <1>4. max2n(n) = Power[k]
    <2>1. CASE is2n(n) = 0
      BY <1>2, <2>1, OneBit DEF max2n
    <2>2. CASE is2n(n) # 0
      <3>1. n # Power[k]
        BY <1>2, <2>2, OneBit
      <3>2. k # 0
        BY <1>1, <1>2, <3>1, Half
      <3>3. n \div 2 \in UInt /\ Sized(n \div 2, k - 1) /\ k - 1 \in Nat
        BY <1>2, <3>2, Half
      <3>4. ShiftedPer[n \div 2] = Power[k]
        <4>1. (k - 1) + 1 = k /\ k < Bits
          BY <1>1, <1>3
        <4>2. QED BY <3>3, <4>1, ShiftedPast
      <3>5. QED BY <2>2, <3>4 DEF max2n
    <2>3. QED BY <2>1, <2>2
  <1>5. QED BY <1>3, <1>4 DEF RoundedDown, PowersOfTwo

\* Up to the highest power of two of the word a number has one to be rounded
\* up to.
LEMMA RoundsUpBelow ==
    ASSUME NEW n \in UInt, n <= Power[Bits - 1]
    PROVE  /\ min2n(n) \in PowersOfTwo /\ min2n(n) >= n
           /\ \A p \in PowersOfTwo : p >= n => min2n(n) <= p
  <1>1. Power[Bits - 1] \in {p \in PowersOfTwo : p >= n}
    <2>1. Bits - 1 \in 0..Bits - 1
      BY AtUtilAssumption
    <2>2. Power[Bits - 1] \in PowersOfTwo
      BY <2>1 DEF PowersOfTwo
    <2>3. Power[Bits - 1] \in Nat /\ n \in Nat
      <3>1. Power[Bits] \in Nat /\ Bits - 1 \in 0..Bits
        BY PowerIs, AtUtilAssumption
      <3>2. QED BY <3>1, PowerIs DEF UInt
    <2>4. QED BY <2>2, <2>3
  <1>2. RoundedUp(n)
    BY RoundsUp
  <1>3. QED BY <1>1, <1>2 DEF RoundedUp

\* For every width of an unsigned int and every number: max2n is the power of
\* two next below it, and min2n the one next above it, if the word has one.
THEOREM RoundingsExact == Spec => []RoundingExact
  <1>1. RoundingExact
    <2> SUFFICES ASSUME NEW n \in UInt
                 PROVE  /\ n <= Power[Bits - 1] =>
                              /\ min2n(n) \in PowersOfTwo /\ min2n(n) >= n
                              /\ \A p \in PowersOfTwo :
                                    p >= n => min2n(n) <= p
                        /\ n > 0 => RoundedDown(n)
      BY DEF RoundingExact, RoundedDown
    <2>1. n \in Nat
      <3>1. Power[Bits] \in Nat
        BY PowerIs
      <3>2. QED BY <3>1 DEF UInt
    <2>2. n > 0 => n # 0
      BY <2>1
    <2>3. QED BY <2>2, RoundsUpBelow, RoundsDown
  <1>2. QED BY <1>1, PTL

-----------------------------------------------------------------------------
(* The texts that the string comes to hold.                                  *)

\* What the string holds at every moment is a text.
IsText(s) == s \in Seq(Nat) /\ IsUtf8(s)

TextHeld == IsText(Bytes(str))

\* The empty string is a text.
LEMMA NothingIsText == IsText(<<>>)
  BY DEF IsText, IsUtf8

\* Two texts in a row are a text: no character is torn.
LEMMA TextsJoin ==
    ASSUME NEW s, NEW p, IsText(s), IsText(p)
    PROVE  IsText(s \o p)
  <1> DEFINE t == s \o p
             m == Len(s)
             n == Len(p)
  <1>1. s \in Seq(Nat) /\ p \in Seq(Nat)
    BY DEF IsText
  <1>2. /\ t \in Seq(Nat) /\ Len(t) = m + n
        /\ \A i \in 1..m + n : t[i] = IF i <= m THEN s[i] ELSE p[i - m]
    BY <1>1, ConcatProperties
  <1>3. m \in Nat /\ n \in Nat /\ DOMAIN s = 1..m /\ DOMAIN p = 1..n
        /\ DOMAIN t = 1..m + n
    BY <1>1, <1>2, LenProperties
  <1> HIDE DEF t, m, n
  <1>4. ASSUME NEW i \in 1..m + n
        PROVE /\ t[i] \in 1..127 \/ IsLead(t[i]) \/ IsTrail(t[i])
              /\ IsLead(t[i]) =>
                   i + 2 <= m + n /\ IsTrail(t[i + 1]) /\ IsTrail(t[i + 2])
              /\ IsTrail(t[i]) =>
                   \/ i > 1 /\ IsLead(t[i - 1])
                   \/ i > 2 /\ IsTrail(t[i - 1]) /\ IsLead(t[i - 2])
    <2>1. CASE i <= m
      <3>1. i \in 1..m /\ t[i] = s[i]
        BY <1>2, <1>3, <2>1
      <3>2. /\ s[i] \in 1..127 \/ IsLead(s[i]) \/ IsTrail(s[i])
            /\ IsLead(s[i]) =>
                 i + 2 <= m /\ IsTrail(s[i + 1]) /\ IsTrail(s[i + 2])
            /\ IsTrail(s[i]) =>
                 \/ i > 1 /\ IsLead(s[i - 1])
                 \/ i > 2 /\ IsTrail(s[i - 1]) /\ IsLead(s[i - 2])
        BY <1>3, <3>1 DEF IsText, IsUtf8, m
      <3>3. i + 2 <= m =>
              /\ t[i + 1] = s[i + 1] /\ t[i + 2] = s[i + 2] /\ i + 2 <= m + n
        BY <1>2, <1>3
      <3>4. (i > 1 => t[i - 1] = s[i - 1]) /\ (i > 2 => t[i - 2] = s[i - 2])
        BY <1>2, <1>3, <3>1
      <3>5. QED BY <3>1, <3>2, <3>3, <3>4
    <2>2. CASE i > m
      <3>1. PICK k \in 1..n : k = i - m
        BY <1>3, <2>2
      <3>2. t[i] = p[k]
        BY <1>2, <1>3, <2>2, <3>1
      <3>3. /\ p[k] \in 1..127 \/ IsLead(p[k]) \/ IsTrail(p[k])
            /\ IsLead(p[k]) =>
                 k + 2 <= n /\ IsTrail(p[k + 1]) /\ IsTrail(p[k + 2])
            /\ IsTrail(p[k]) =>
                 \/ k > 1 /\ IsLead(p[k - 1])
                 \/ k > 2 /\ IsTrail(p[k - 1]) /\ IsLead(p[k - 2])
        BY <1>3 DEF IsText, IsUtf8, n
      <3>4. k + 2 <= n =>
              /\ t[i + 1] = p[k + 1] /\ t[i + 2] = p[k + 2] /\ i + 2 <= m + n
        <4>1. ASSUME k + 2 <= n PROVE /\ i + 1 \in 1..m + n /\ i + 2 \in 1..m + n
                /\ i + 1 > m /\ i + 2 > m /\ (i + 1) - m = k + 1
                /\ (i + 2) - m = k + 2
          BY <1>3, <2>2, <3>1, <4>1
        <4>2. ASSUME k + 2 <= n
              PROVE  t[i + 1] = p[(i + 1) - m] /\ t[i + 2] = p[(i + 2) - m]
          <5>1. ~(i + 1 <= m) /\ ~(i + 2 <= m)
            BY <1>3, <4>1, <4>2
          <5>2. QED BY <1>2, <4>1, <4>2, <5>1
        <4>3. QED BY <1>3, <4>1, <4>2, SMTT(30)
      <3>5. (k > 1 => t[i - 1] = p[k - 1] /\ i > 1)
            /\ (k > 2 => t[i - 2] = p[k - 2] /\ i > 2)
        BY <1>2, <1>3, <2>2, <3>1
      <3>6. QED BY <3>2, <3>3, <3>4, <3>5
    <2>3. QED BY <1>3, <2>1, <2>2
  <1>5. IsUtf8(t)
    BY <1>2, <1>3, <1>4 DEF IsUtf8
  <1>6. QED BY <1>2, <1>5 DEF IsText, t

\* Pieces are texts.
LEMMA PiecesAreTexts ==
    ASSUME NEW p \in Piece
    PROVE  IsText(p)
  BY Pieces, TextToolsAssumption DEF IsText

\* A new string holds a text.
LEMMA InitTextHeld == Init => TextHeld
  <1> SUFFICES ASSUME Init PROVE TextHeld
    OBVIOUS
  <1>1. ASSUME NEW p \in Piece, str = string_new(p) PROVE TextHeld
    BY <1>1, Pieces, NewWellFormed, PiecesAreTexts DEF TextHeld
  <1>2. ASSUME NEW c \in Blanks, str = string_blank(c) PROVE TextHeld
    BY <1>2, BlankWellFormed, NothingIsText, AtStringAssumption DEF TextHeld
  <1>3. QED BY <1>1, <1>2 DEF Init

\* Every call leaves a text.
LEMMA StepTextHeld == IInv /\ TextHeld /\ [Next]_vars => TextHeld'
  <1> SUFFICES ASSUME IInv, TextHeld, [Next]_vars PROVE TextHeld'
    OBVIOUS
  <1> USE DEF IInv, TextHeld
  <1>1. CASE str' = str
    BY <1>1
  <1>2. ASSUME NEW p \in Piece, AppendText(p) PROVE TextHeld'
    <2>1. Bytes(string_append(str, p)) = Bytes(str) \o p
      BY Pieces, AppendKeeps
    <2>2. QED BY <1>2, <2>1, PiecesAreTexts, TextsJoin DEF AppendText
  <1>3. ASSUME NEW p \in Piece, Len(p) = 1, AppendCh(p[1]) PROVE TextHeld'
    <2>1. p[1] \in Nat /\ p = <<p[1]>>
      BY <1>3, OneByte
    <2>2. Bytes(string_appendch(str, p[1])) = Bytes(str) \o p
      BY <2>1, AppendChKeeps
    <2>3. QED BY <1>3, <2>2, PiecesAreTexts, TextsJoin DEF AppendCh
  <1>4. CASE Reset
    BY <1>4, ResetKeeps, NothingIsText DEF Reset
  <1>5. QED BY <1>1, <1>2, <1>3, <1>4 DEF Next, Over, Free, vars

\* The string always holds a text.
LEMMA AlwaysTextHeld == Spec => [](IInv /\ TextHeld)
  <1>1. Init => TextHeld
    BY InitTextHeld
  <1>2. IInv /\ TextHeld /\ [Next]_vars => TextHeld'
    BY StepTextHeld
  <1>3. QED BY <1>1, <1>2, AlwaysIInv, PTL DEF Spec

-----------------------------------------------------------------------------
(* Numbers in texts.                                                        *)

\* A part of a text.
LEMMA PartIs ==
    ASSUME NEW S, NEW s \in Seq(S), NEW a \in 0..Len(s), NEW b \in a..Len(s)
    PROVE  /\ SubSeq(s, a + 1, b) \in Seq(S) /\ Len(SubSeq(s, a + 1, b)) = b - a
           /\ \A k \in 1..b - a : SubSeq(s, a + 1, b)[k] = s[a + k]
  <1>1. /\ a + 1 \in 1..Len(s) + 1 /\ b \in a..Len(s) /\ (a + 1) - 1 = a
        /\ Len(s) \in Nat /\ a \in Nat /\ b \in Nat
    OBVIOUS
  <1>2. SubSeq(s, a + 1, b) \in Seq(S)
    BY <1>1, SubSeqProperties
  <1>3. Len(SubSeq(s, a + 1, b)) = b - a
    BY <1>1
  <1>4. ASSUME NEW k \in 1..b - a PROVE SubSeq(s, a + 1, b)[k] = s[a + k]
    BY <1>1, <1>3
  <1>5. QED BY <1>2, <1>3, <1>4

\* NoBlanks leaves out blanks.
LEMMA NoBlanksIs ==
    ASSUME NEW s \in Seq(Nat)
    PROVE  \E m \in 0..Len(s) : /\ NoBlanks(s) = SubSeq(s, m + 1, Len(s))
                                /\ \A i \in 1..m : IsBlank(s[i])
  <1> DEFINE N == Len(s)
             nxt == [k \in 0..N - 1 |-> k + 1]
             T == 1..N + 1
             step == [kt \in (0..N - 1) \X T |->
                        IF IsBlank(s[kt[1] + 1]) THEN kt[2] ELSE kt[1] + 1]
             Is(f) == f = [i \in 1..N + 1 |->
                             IF i <= N /\ IsBlank(s[i]) THEN f[i + 1] ELSE i]
  <1>1. N \in Nat /\ N + 1 \in T
    OBVIOUS
  <1> HIDE DEF N
  <1>2. /\ nxt \in [0..N - 1 -> Nat]
        /\ \A k \in 0..N - 1 : k < nxt[k] /\ nxt[k] <= N
    BY <1>1
  <1>3. step \in [(0..N - 1) \X T -> T]
    <2>1. ASSUME NEW kt \in (0..N - 1) \X T
          PROVE  (IF IsBlank(s[kt[1] + 1]) THEN kt[2] ELSE kt[1] + 1) \in T
      <3>1. kt[1] \in 0..N - 1 /\ kt[2] \in T /\ kt[1] + 1 \in T
        BY <1>1
      <3>2. QED BY <3>1
    <2>2. QED BY <2>1
  <1>4. Ends(N, nxt, T, N + 1, step)
    <2> HIDE DEF nxt, T, step
    <2>1. QED BY <1>1, <1>2, <1>3, RecursionToTop
  <1>5. PICK g : ToTop(g, N, nxt, T, N + 1, step)
    BY <1>4 DEF Ends
  <1>6. g \in [0..N -> T] /\ g[N] = N + 1
    BY <1>5 DEF ToTop
  <1> DEFINE f == [i \in 1..N + 1 |-> g[i - 1]]
  <1>7. ASSUME NEW i \in 1..N + 1
        PROVE  f[i] = IF i <= N /\ IsBlank(s[i]) THEN f[i + 1] ELSE i
    <2>1. CASE i = N + 1
      BY <1>1, <1>6, <2>1
    <2>2. CASE i # N + 1
      <3>1. PICK k \in 0..N - 1 : k = i - 1
        BY <1>1, <2>2
      <3>2. /\ k + 1 = i /\ i <= N /\ i + 1 \in 1..N + 1 /\ (i + 1) - 1 = i
            /\ i \in 0..N /\ nxt[k] = i
        BY <1>1, <3>1
      <3>3. f[i] = g[k] /\ f[i + 1] = g[i] /\ g[i] \in T
        BY <1>6, <3>1, <3>2
      <3>4. g[k] = step[<<k, g[i]>>]
        BY <1>5, <3>2 DEF ToTop
      <3>5. ASSUME NEW t \in T
            PROVE  step[<<k, t>>] = IF IsBlank(s[k + 1]) THEN t ELSE k + 1
        OBVIOUS
      <3> HIDE DEF f, step, T
      <3>6. QED BY <3>2, <3>3, <3>4, <3>5
    <2>3. QED BY <2>1, <2>2
  <1>8. Is(f)
    BY <1>7
  <1> DEFINE F == CHOOSE h : Is(h)
  <1>9. Is(F)
    BY <1>8
  <1>10. NoBlanks(s) = SubSeq(s, F[1], N)
    BY DEF NoBlanks, N
  <1> HIDE DEF F
  <1> DEFINE Claim(i) == /\ F[i] \in i..N + 1
                         /\ \A j \in i..F[i] - 1 : IsBlank(s[j])
             S == {n \in Nat : n <= N => Claim(N + 1 - n)}
  <1>11. 0 \in S
    <2>1. F[N + 1] = N + 1
      BY <1>1, <1>9
    <2>2. QED BY <1>1, <2>1
  <1>12. ASSUME NEW n \in S PROVE n + 1 \in S
    <2> SUFFICES ASSUME n + 1 <= N PROVE Claim(N + 1 - (n + 1))
      OBVIOUS
    <2>1. PICK i \in 1..N : i = N + 1 - (n + 1)
      BY <1>1
    <2>2. i + 1 = N + 1 - n /\ Claim(i + 1)
      BY <1>1, <2>1
    <2>3. F[i] = IF IsBlank(s[i]) THEN F[i + 1] ELSE i
      BY <1>1, <1>9, SMTT(30)
    <2>4. CASE IsBlank(s[i])
      BY <1>1, <2>1, <2>2, <2>3, <2>4
    <2>5. CASE ~IsBlank(s[i])
      BY <1>1, <2>1, <2>3, <2>5
    <2>6. QED BY <2>4, <2>5
  <1>13. S \in SUBSET Nat
    OBVIOUS
  <1>14. Claim(1)
    <2> HIDE DEF S
    <2>1. S = Nat
      BY <1>11, <1>12, <1>13, SetInduction
    <2>2. N \in S /\ N + 1 - N = 1
      BY <1>1, <2>1
    <2>3. QED BY <1>1, <2>2 DEF S
  <1>15. PICK m \in 0..N : m + 1 = F[1]
    <2>1. F[1] - 1 \in 0..N /\ (F[1] - 1) + 1 = F[1]
      BY <1>1, <1>14
    <2>2. QED BY <2>1
  <1>16. \A i \in 1..m : IsBlank(s[i])
    BY <1>1, <1>14, <1>15
  <1>17. QED BY <1>10, <1>15, <1>16 DEF N

\* What is_digit asks of the bytes behind blanks and a sign.
Numeral(u) ==
    LET points == {i \in DOMAIN u : u[i] = 46}
    IN /\ \A i, j \in points : i = j
       /\ \A i \in DOMAIN u \ points : IsDigitChar(u[i])

\* The length of the sign of t.
SignOf(t) == IF Len(t) > 0 /\ t[1] \in {43, 45} THEN 1 ELSE 0

\* What is left of a text without its sign.
LEMMA UnsignedIs ==
    ASSUME NEW t \in Seq(Nat)
    PROVE  /\ Unsigned(t) \in Seq(Nat)
           /\ SignOf(t) \in 0..Len(t) /\ SignOf(t) <= 1
           /\ Len(Unsigned(t)) = Len(t) - SignOf(t)
           /\ \A k \in 1..Len(t) - SignOf(t) : Unsigned(t)[k] = t[k + SignOf(t)]
  <1>1. CASE t = <<>>
    BY <1>1 DEF Unsigned, SignOf
  <1>2. CASE t # <<>>
    <2>1. Head(t) = t[1] /\ Len(t) \in Nat /\ Len(t) > 0
      BY <1>2, EmptySeq
    <2>2. CASE t[1] \in {43, 45}
      <3>1. Unsigned(t) = Tail(t) /\ SignOf(t) = 1
        BY <1>2, <2>1, <2>2 DEF Unsigned, SignOf
      <3>2. QED BY <1>2, <2>1, <3>1, HeadTailProperties
    <2>3. CASE t[1] \notin {43, 45}
      <3>1. Unsigned(t) = t /\ SignOf(t) = 0
        BY <1>2, <2>1, <2>3 DEF Unsigned, SignOf
      <3>2. QED BY <2>1, <3>1
    <2>4. QED BY <2>2, <2>3
  <1>3. QED BY <1>1, <1>2

\* The parts of a decimal number.
Digits(w) == w \in Seq(Nat) /\ \A k \in DOMAIN w : IsDigitChar(w[k])

InParts(t, sign, w, point, f) ==
    /\ sign \in {<<>>, <<43>>, <<45>>} /\ point \in {<<>>, <<46>>}
    /\ t = sign \o w \o point \o f /\ w \o f # <<>>
    /\ Digits(w) /\ Digits(f)

\* A decimal number has such parts.
LEMMA DecimalParts ==
    ASSUME NEW t \in Seq(Nat), IsDecimal(t)
    PROVE  \E sign, point, w, f : InParts(t, sign, w, point, f)
  <1>1. PICK sign \in {<<>>, <<43>>, <<45>>}, point \in {<<>>, <<46>>},
             i \in 0..Len(t) : \E j \in i..Len(t) :
             LET w == SubSeq(t, Len(sign) + 1, i)
                 f == SubSeq(t, j + 1, Len(t))
             IN /\ t = sign \o w \o point \o f
                /\ w \o f # <<>>
                /\ \A k \in DOMAIN w : IsDigitChar(w[k])
                /\ \A k \in DOMAIN f : IsDigitChar(f[k])
    BY DEF IsDecimal
  <1>0. PICK j \in i..Len(t) :
             LET w == SubSeq(t, Len(sign) + 1, i)
                 f == SubSeq(t, j + 1, Len(t))
             IN /\ t = sign \o w \o point \o f
                /\ w \o f # <<>>
                /\ \A k \in DOMAIN w : IsDigitChar(w[k])
                /\ \A k \in DOMAIN f : IsDigitChar(f[k])
    BY <1>1
  <1> DEFINE w == SubSeq(t, Len(sign) + 1, i)
             f == SubSeq(t, j + 1, Len(t))
  <1>2. Len(sign) \in Nat /\ Len(t) \in Nat /\ i \in 0..Len(t) /\ j \in 0..Len(t)
    OBVIOUS
  <1>3. ASSUME NEW a \in Nat, NEW b \in 0..Len(t)
        PROVE  SubSeq(t, a + 1, b) \in Seq(Nat)
    <2>1. a + 1 \in Int /\ b \in Int /\ \A k \in a + 1..b : t[k] \in Nat
      BY <1>2, LenProperties
    <2>2. QED BY <2>1, SubSeqProperties
  <1>4. w \in Seq(Nat) /\ f \in Seq(Nat)
    BY <1>2, <1>3, SMTT(30)
  <1>5. InParts(t, sign, w, point, f)
    BY <1>0, <1>4 DEF Digits, InParts
  <1> HIDE DEF w, f
  <1>6. QED BY <1>5

\* Where the bytes of a number in parts are.
LEMMA PartsOf ==
    ASSUME NEW sign \in Seq(Nat), NEW w \in Seq(Nat), NEW point \in Seq(Nat),
           NEW f \in Seq(Nat), NEW t, t = sign \o w \o point \o f
    PROVE  LET a == Len(sign)
               b == a + Len(w)
               c == b + Len(point)
           IN /\ Len(t) = c + Len(f)
              /\ \A k \in 1..c + Len(f) :
                   t[k] = IF k <= a THEN sign[k]
                          ELSE IF k <= b THEN w[k - a]
                          ELSE IF k <= c THEN point[k - b] ELSE f[k - c]
  <1> DEFINE x == sign \o w
             y == x \o point
             a == Len(sign)
             b == a + Len(w)
             c == b + Len(point)
  <1>1. a \in Nat /\ Len(w) \in Nat /\ Len(point) \in Nat /\ Len(f) \in Nat
    BY LenProperties
  <1>2. /\ x \in Seq(Nat) /\ Len(x) = b
        /\ \A k \in 1..b : x[k] = IF k <= a THEN sign[k] ELSE w[k - a]
    BY ConcatProperties
  <1> HIDE DEF x
  <1>3. /\ y \in Seq(Nat) /\ Len(y) = c
        /\ \A k \in 1..c : y[k] = IF k <= b THEN x[k] ELSE point[k - b]
    BY <1>2, ConcatProperties, SMTT(30)
  <1>4. t = y \o f
    BY DEF x
  <1> HIDE DEF y
  <1>5. /\ Len(t) = c + Len(f)
        /\ \A k \in 1..c + Len(f) : t[k] = IF k <= c THEN y[k] ELSE f[k - c]
    <2>1. /\ Len(y \o f) = Len(y) + Len(f)
          /\ \A k \in 1..Len(y) + Len(f) :
               (y \o f)[k] = IF k <= Len(y) THEN y[k] ELSE f[k - Len(y)]
      <3>1. y \in Seq(Nat)
        BY <1>3
      <3>2. QED BY <3>1, ConcatProperties
    <2>2. QED BY <1>3, <1>4, <2>1
  <1>6. ASSUME NEW k \in 1..c + Len(f)
        PROVE  t[k] = IF k <= a THEN sign[k]
                      ELSE IF k <= b THEN w[k - a]
                      ELSE IF k <= c THEN point[k - b] ELSE f[k - c]
    BY <1>1, <1>2, <1>3, <1>5
  <1>7. QED BY <1>5, <1>6

\* The sign, the point and the digits of a decimal number are where is_digit
\* looks for them.
LEMMA DecimalIsNumeral ==
    ASSUME NEW t \in Seq(Nat), IsDecimal(t)
    PROVE  Numeral(Unsigned(t))
  <1>1. PICK sign, point, w, f : InParts(t, sign, w, point, f)
    BY DecimalParts
  <1> DEFINE a == Len(sign)
             m == Len(w)
             p == Len(point)
             n == Len(f)
             u == Unsigned(t)
  <1>2. /\ sign \in Seq(Nat) /\ point \in Seq(Nat)
        /\ a \in 0..1 /\ (a = 1 => sign[1] \in {43, 45})
        /\ p \in 0..1 /\ (p = 1 => point[1] = 46)
    BY <1>1 DEF InParts
  <1>3. /\ w \in Seq(Nat) /\ f \in Seq(Nat) /\ m \in Nat /\ n \in Nat
        /\ \A k \in 1..m : IsDigitChar(w[k])
        /\ \A k \in 1..n : IsDigitChar(f[k])
    <2>1. Digits(w) /\ Digits(f)
      BY <1>1 DEF InParts
    <2>2. QED BY <2>1, LenProperties DEF Digits
  <1>4. m + n > 0
    <2>1. w \o f # <<>> /\ w \o f \in Seq(Nat) /\ Len(w \o f) = m + n
      BY <1>1, <1>3, ConcatProperties DEF InParts
    <2>2. QED BY <1>3, <2>1, EmptySeq
  <1>5. /\ Len(t) = a + m + p + n
        /\ \A k \in 1..a + m + p + n :
             t[k] = IF k <= a THEN sign[k]
                    ELSE IF k <= a + m THEN w[k - a]
                    ELSE IF k <= a + m + p THEN point[k - (a + m)]
                    ELSE f[k - (a + m + p)]
    <2>1. t = sign \o w \o point \o f
      BY <1>1 DEF InParts
    <2>2. QED BY <1>2, <1>3, <2>1, PartsOf, SMTT(30)
  <1> HIDE DEF a, m, p, n, u
  <1>6. ASSUME NEW k \in 1..m + p + n
        PROVE  IF k \in m + 1..m + p THEN t[k + a] = 46 ELSE IsDigitChar(t[k + a])
    <2>1. k + a \in 1..a + m + p + n /\ ~(k + a <= a)
      BY <1>2, <1>3
    <2>2. CASE k <= m
      <3>1. t[k + a] = w[k]
        BY <1>2, <1>3, <1>5, <2>1, <2>2
      <3>2. QED BY <1>2, <1>3, <2>2, <3>1
    <2>3. CASE k \in m + 1..m + p
      <3>1. p = 1 /\ (k + a) - (a + m) = 1
        BY <1>2, <1>3, <2>3
      <3>2. t[k + a] = point[1]
        BY <1>2, <1>3, <1>5, <2>1, <2>3, <3>1
      <3>3. QED BY <1>2, <2>3, <3>1, <3>2
    <2>4. CASE k > m + p
      <3>1. PICK i \in 1..n : i = (k + a) - (a + m + p)
        BY <1>2, <1>3, <2>4, SMTT(30)
      <3>2. t[k + a] = f[i]
        BY <1>2, <1>3, <1>5, <2>1, <2>4, <3>1
      <3>3. QED BY <1>2, <1>3, <2>4, <3>2
    <2>5. QED BY <1>2, <1>3, <2>2, <2>3, <2>4
  <1>7. SignOf(t) = a
    <2>1. Len(t) > 0 /\ 1 \in 1..a + m + p + n
      BY <1>2, <1>3, <1>4, <1>5
    <2>2. CASE a = 0
      <3>1. 1 \in 1..m + p + n /\ 1 + a = 1
        BY <2>1, <2>2, <1>2, <1>3
      <3>2. t[1] = 46 \/ IsDigitChar(t[1])
        BY <1>6, <3>1
      <3>3. QED BY <2>1, <2>2, <3>2 DEF SignOf, IsDigitChar
    <2>3. CASE a = 1
      BY <2>1, <2>3, <1>2, <1>5 DEF SignOf
    <2>4. QED BY <1>2, <2>2, <2>3
  <1>8. /\ u \in Seq(Nat) /\ Len(u) = m + p + n
        /\ \A k \in 1..m + p + n : u[k] = t[k + a]
    <2>1. Len(t) - a = m + p + n
      BY <1>2, <1>3, <1>5
    <2>2. QED BY <1>7, <2>1, UnsignedIs DEF u
  <1>9. ASSUME NEW k \in DOMAIN u
        PROVE  IF k = m + 1 /\ p = 1 THEN u[k] = 46 ELSE IsDigitChar(u[k])
    <2>1. k \in 1..m + p + n
      BY <1>8
    <2>2. k \in m + 1..m + p <=> k = m + 1 /\ p = 1
      BY <1>2, <1>3, <2>1
    <2>3. QED BY <1>6, <1>8, <2>1, <2>2
  <1>10. ~IsDigitChar(46)
    BY DEF IsDigitChar
  <1>11. QED BY <1>9, <1>10 DEF Numeral, u

-----------------------------------------------------------------------------

\* A text is its parts.
Parted(t, a, i, j) ==
    t = SubSeq(t, 1, a) \o SubSeq(t, a + 1, i) \o SubSeq(t, i + 1, j)
          \o SubSeq(t, j + 1, Len(t))

\* Cutting a text and joining the parts gives the text.
LEMMA CutInParts ==
    ASSUME NEW t \in Seq(Nat), NEW a \in 0..Len(t), NEW i \in a..Len(t),
           NEW j \in i..Len(t)
    PROVE  Parted(t, a, i, j)
  <1> DEFINE sign == SubSeq(t, 1, a)
             w == SubSeq(t, a + 1, i)
             point == SubSeq(t, i + 1, j)
             f == SubSeq(t, j + 1, Len(t))
             r == sign \o w \o point \o f
             L == Len(t)
  <1>0. L \in Nat /\ 0 \in 0..L /\ i \in 0..L /\ j \in 0..L /\ L \in j..L
        /\ a \in 0..L /\ a <= i /\ i <= j
    OBVIOUS
  <1>1. /\ sign \in Seq(Nat) /\ Len(sign) = a
        /\ \A k \in 1..a : sign[k] = t[k]
    <2>1. /\ SubSeq(t, 0 + 1, a) \in Seq(Nat) /\ Len(SubSeq(t, 0 + 1, a)) = a - 0
          /\ \A k \in 1..a - 0 : SubSeq(t, 0 + 1, a)[k] = t[0 + k]
      BY <1>0, PartIs
    <2>2. QED BY <1>0, <2>1
  <1>2. /\ w \in Seq(Nat) /\ Len(w) = i - a
        /\ \A k \in 1..i - a : w[k] = t[a + k]
    BY <1>0, PartIs
  <1>3. /\ point \in Seq(Nat) /\ Len(point) = j - i
        /\ \A k \in 1..j - i : point[k] = t[i + k]
    BY <1>0, PartIs
  <1>4. /\ f \in Seq(Nat) /\ Len(f) = L - j
        /\ \A k \in 1..L - j : f[k] = t[j + k]
    BY <1>0, PartIs
  <1> HIDE DEF sign, w, point, f, L
  <1>5. /\ a + Len(w) = i /\ i + Len(point) = j /\ j + Len(f) = L
    BY <1>0, <1>2, <1>3, <1>4
  <1>6. /\ Len(r) = L
        /\ \A k \in 1..L :
             r[k] = IF k <= a THEN sign[k]
                    ELSE IF k <= i THEN w[k - a]
                    ELSE IF k <= j THEN point[k - i] ELSE f[k - j]
    <2>1. /\ sign \in Seq(Nat) /\ w \in Seq(Nat) /\ point \in Seq(Nat)
          /\ f \in Seq(Nat)
      BY <1>1, <1>2, <1>3, <1>4
    <2>2. LET b == Len(sign) + Len(w)
              c == b + Len(point)
          IN /\ Len(r) = c + Len(f)
             /\ \A k \in 1..c + Len(f) :
                  r[k] = IF k <= Len(sign) THEN sign[k]
                         ELSE IF k <= b THEN w[k - Len(sign)]
                         ELSE IF k <= c THEN point[k - b] ELSE f[k - c]
      BY <2>1, PartsOf
    <2>3. Len(sign) = a /\ Len(sign) + Len(w) = i
          /\ Len(sign) + Len(w) + Len(point) = j
      BY <1>1, <1>5
    <2> HIDE DEF r
    <2>4. QED BY <1>5, <2>2, <2>3
  <1>7. r \in Seq(Nat)
    BY <1>1, <1>2, <1>3, <1>4, ConcatProperties
  <1> HIDE DEF r
  <1>8. ASSUME NEW k \in 1..L PROVE t[k] = r[k]
    <2>1. CASE k <= a
      BY <1>0, <1>1, <1>6, <2>1
    <2>2. CASE ~(k <= a) /\ k <= i
      <3>1. PICK q \in 1..i - a : q = k - a
        BY <1>0, <2>2
      <3>2. r[k] = w[q] /\ a + q = k
        BY <1>0, <1>6, <2>2, <3>1
      <3>3. QED BY <1>2, <3>2
    <2>3. CASE ~(k <= i) /\ k <= j
      <3>1. PICK q \in 1..j - i : q = k - i
        BY <1>0, <2>3
      <3>2. r[k] = point[q] /\ i + q = k
        BY <1>0, <1>6, <2>3, <3>1
      <3>3. QED BY <1>3, <3>2
    <2>4. CASE ~(k <= j)
      <3>1. PICK q \in 1..L - j : q = k - j
        BY <1>0, <2>4
      <3>2. r[k] = f[q] /\ j + q = k
        BY <1>0, <1>6, <2>4, <3>1
      <3>3. QED BY <1>4, <3>2
    <2>5. QED BY <1>0, <2>1, <2>2, <2>3, <2>4
  <1>9. t = r
    BY <1>6, <1>7, <1>8, SeqEqual DEF L
  <1>10. QED BY <1>9 DEF Parted, r, sign, w, point, f, L

\* A part of one byte.
LEMMA OneOf ==
    ASSUME NEW t \in Seq(Nat), NEW q \in 1..Len(t)
    PROVE  SubSeq(t, q, q) = <<t[q]>>
  <1>1. PICK p \in 0..Len(t) : p + 1 = q
    <2>1. q - 1 \in 0..Len(t) /\ (q - 1) + 1 = q
      OBVIOUS
    <2>2. QED BY <2>1
  <1>2. q \in p..Len(t) /\ q - p = 1 /\ 1 \in 1..1
    BY <1>1
  <1>3. /\ SubSeq(t, q, q) \in Seq(Nat) /\ Len(SubSeq(t, q, q)) = 1
        /\ SubSeq(t, q, q)[1] = t[q]
    <2>1. /\ SubSeq(t, p + 1, q) \in Seq(Nat)
          /\ Len(SubSeq(t, p + 1, q)) = q - p
          /\ \A k \in 1..q - p : SubSeq(t, p + 1, q)[k] = t[p + k]
      BY <1>2, PartIs
    <2>2. QED BY <1>1, <1>2, <2>1
  <1> DEFINE r == SubSeq(t, q, q)
  <1> HIDE DEF r
  <1>4. r \in Seq(Nat) /\ Len(r) = 1 /\ r[1] = t[q]
    BY <1>3 DEF r
  <1>5. t[q] \in Nat
    OBVIOUS
  <1>6. r = <<t[q]>>
    BY <1>4, <1>5, SeqEqual
  <1>7. QED BY <1>6 DEF r

\* The sign of t, as a part of it.
LEMMA SignIs ==
    ASSUME NEW t \in Seq(Nat)
    PROVE  /\ SubSeq(t, 1, SignOf(t)) \in {<<>>, <<43>>, <<45>>}
           /\ Len(SubSeq(t, 1, SignOf(t))) = SignOf(t)
  <1>1. CASE SignOf(t) = 0
    <2>1. SubSeq(t, 1, 0) = <<>>
      BY SubSeqEmpty
    <2>2. QED BY <1>1, <2>1
  <1>2. CASE SignOf(t) # 0
    <2>1. SignOf(t) = 1 /\ Len(t) > 0 /\ t[1] \in {43, 45} /\ Len(t) \in Nat
      BY <1>2, LenProperties DEF SignOf
    <2>2. SubSeq(t, 1, 1) = <<t[1]>>
      <3>1. 1 \in 1..Len(t)
        BY <2>1
      <3>2. QED BY <3>1, OneOf
    <2>3. QED BY <2>1, <2>2
  <1>3. QED BY <1>1, <1>2

\* t is digits but for its sign and what lies after i and up to j, which is
\* empty or the point; d is the place of a digit.
DigitsAround(t, i, j, d) ==
    /\ i \in SignOf(t)..Len(t) /\ j \in i..Len(t)
    /\ SubSeq(t, i + 1, j) \in {<<>>, <<46>>}
    /\ d \in (SignOf(t) + 1..Len(t)) \ (i + 1..j)
    /\ \A k \in SignOf(t) + 1..Len(t) : k \in i + 1..j \/ IsDigitChar(t[k])

\* Such a text is a decimal number.
LEMMA CutIsDecimal ==
    ASSUME NEW t \in Seq(Nat), NEW i, NEW j, NEW d, DigitsAround(t, i, j, d)
    PROVE  IsDecimal(t)
  <1> DEFINE a == SignOf(t)
             L == Len(t)
             sign == SubSeq(t, 1, a)
             point == SubSeq(t, i + 1, j)
             w == SubSeq(t, a + 1, i)
             f == SubSeq(t, j + 1, L)
  <1>0. /\ i \in SignOf(t)..Len(t) /\ j \in i..Len(t)
        /\ SubSeq(t, i + 1, j) \in {<<>>, <<46>>}
        /\ d \in SignOf(t) + 1..Len(t) /\ d \notin i + 1..j
        /\ \A k \in SignOf(t) + 1..Len(t) :
              k \in i + 1..j \/ IsDigitChar(t[k])
    BY DEF DigitsAround
  <1>1. L \in Nat /\ a \in 0..L /\ a <= i /\ i <= j /\ i \in 0..L /\ j \in 0..L
        /\ L \in j..L /\ i \in a..L
    BY <1>0, UnsignedIs
  <1>2. sign \in {<<>>, <<43>>, <<45>>} /\ Len(sign) = a
    BY SignIs
  <1>3. t = sign \o w \o point \o f
    <2>1. a \in 0..Len(t) /\ i \in a..Len(t) /\ j \in i..Len(t)
      BY <1>1
    <2> HIDE DEF a
    <2>2. Parted(t, a, i, j)
      BY <2>1, CutInParts
    <2>3. QED BY <2>2 DEF Parted
  <1>4. /\ w \in Seq(Nat) /\ Len(w) = i - a
        /\ \A k \in 1..i - a : w[k] = t[a + k]
    BY <1>1, PartIs
  <1>5. /\ f \in Seq(Nat) /\ Len(f) = L - j
        /\ \A k \in 1..L - j : f[k] = t[j + k]
    BY <1>1, PartIs, ZenonT(40)
  <1> HIDE DEF a, L, w, f, sign
  <1>6. \A k \in a + 1..L : k \in i + 1..j \/ IsDigitChar(t[k])
    BY <1>0 DEF a, L
  <1>7. ASSUME NEW k \in DOMAIN w PROVE IsDigitChar(w[k])
    <2>1. k \in 1..i - a
      BY <1>4
    <2>2. a + k \in a + 1..L /\ a + k \notin i + 1..j
      BY <1>1, <2>1, SMTT(30)
    <2>3. QED BY <1>4, <1>6, <2>1, <2>2
  <1>8. ASSUME NEW k \in DOMAIN f PROVE IsDigitChar(f[k])
    <2>1. k \in 1..L - j
      BY <1>5
    <2>2. j + k \in a + 1..L /\ j + k \notin i + 1..j
      BY <1>1, <2>1
    <2>3. QED BY <1>5, <1>6, <2>1, <2>2
  <1>9. w \o f # <<>>
    <2>1. d \in a + 1..L /\ d \notin i + 1..j
      BY <1>0 DEF a, L
    <2>2. (i - a) + (L - j) > 0
      BY <1>1, <2>1
    <2>3. Len(w \o f) = (i - a) + (L - j)
      BY <1>4, <1>5, ConcatProperties
    <2>4. QED BY <2>2, <2>3, EmptySeq
  <1>10. \E ii \in 0..Len(t) : \E jj \in ii..Len(t) :
            LET whole == SubSeq(t, Len(sign) + 1, ii)
                fraction == SubSeq(t, jj + 1, Len(t))
            IN /\ t = sign \o whole \o point \o fraction
               /\ whole \o fraction # <<>>
               /\ \A k \in DOMAIN whole : IsDigitChar(whole[k])
               /\ \A k \in DOMAIN fraction : IsDigitChar(fraction[k])
    <2>1. w = SubSeq(t, Len(sign) + 1, i) /\ f = SubSeq(t, j + 1, Len(t))
      BY <1>2 DEF w, f, L
    <2>2. i \in 0..Len(t) /\ j \in i..Len(t)
      BY <1>1 DEF L
    <2> HIDE DEF point
    <2>3. QED BY <1>3, <1>7, <1>8, <1>9, <2>1, <2>2, ZenonT(40)
  <1> HIDE DEF point
  <1>11. QED BY <1>0, <1>2, <1>10, ZenonT(40) DEF IsDecimal, point

\* What is_digit takes is a decimal number if it has a digit.
LEMMA NumeralIsDecimal ==
    ASSUME NEW t \in Seq(Nat), Numeral(Unsigned(t)),
           NEW d \in 1..Len(t), IsDigitChar(t[d])
    PROVE  IsDecimal(t)
  <1> DEFINE a == SignOf(t)
             L == Len(t)
             u == Unsigned(t)
  <1>1. /\ u \in Seq(Nat) /\ a \in 0..L /\ L \in Nat /\ Len(u) = L - a
        /\ \A k \in 1..L - a : u[k] = t[k + a]
    <2>1. L \in Nat
      OBVIOUS
    <2> HIDE DEF a, u
    <2>2. QED BY <2>1, UnsignedIs DEF a, u
  <1>2. DOMAIN u = 1..L - a
    BY <1>1, LenProperties
  <1>3. /\ \A i, j \in {k \in 1..L - a : u[k] = 46} : i = j
        /\ \A i \in 1..L - a : u[i] = 46 \/ IsDigitChar(u[i])
    BY <1>2 DEF Numeral
  <1>4. ~IsDigitChar(46)
    BY DEF IsDigitChar
  <1>5. d \in a + 1..L
    <2>1. a = 0 \/ (a = 1 /\ t[1] \in {43, 45})
      BY DEF SignOf
    <2>2. ~(a = 1 /\ d = 1)
      BY <2>1 DEF IsDigitChar
    <2> HIDE DEF a
    <2>3. QED BY <1>1, <2>1, <2>2
  <1> HIDE DEF a, u
  <1>6. ASSUME NEW k \in a + 1..L
        PROVE  k - a \in 1..L - a /\ u[k - a] = t[k]
    BY <1>1, SMTT(30)
  <1>7. CASE \E q \in a + 1..L : t[q] = 46
    <2>1. PICK q \in a + 1..L : t[q] = 46
      BY <1>7
    <2>2. PICK i \in a..L : i = q - 1
      BY <1>1
    <2>3. i + 1 = q /\ i \in a..L /\ q \in i..L /\ q \in 1..L
      BY <1>1, <2>2
    <2>4. SubSeq(t, i + 1, q) \in {<<>>, <<46>>}
      BY <2>1, <2>3, OneOf
    <2>5. d # q
      BY <1>4, <2>1
    <2>6. ASSUME NEW k \in a + 1..L, k # q PROVE IsDigitChar(t[k])
      <3>1. u[q - a] = 46 /\ q - a \in 1..L - a /\ k - a \in 1..L - a
            /\ u[k - a] = t[k]
        BY <1>6, <2>1
      <3>2. k - a # q - a
        BY <1>1, <2>6
      <3>3. u[k - a] # 46
        BY <1>3, <3>1, <3>2
      <3>4. QED BY <1>3, <3>1, <3>3
    <2>7. /\ d \notin i + 1..q
          /\ \A k \in a + 1..L : k \in i + 1..q \/ IsDigitChar(t[k])
      <3>1. i + 1..q = {q}
        BY <1>1, <2>3
      <3>2. QED BY <2>5, <2>6, <3>1
    <2>8. DigitsAround(t, i, q, d)
      BY <1>5, <2>3, <2>4, <2>7 DEF DigitsAround, a
    <2>9. QED BY <2>8, CutIsDecimal
  <1>8. CASE ~\E q \in a + 1..L : t[q] = 46
    <2>1. L \in a..L /\ L \in L..L /\ d \notin L + 1..L
      BY <1>1
    <2>2. SubSeq(t, L + 1, L) = <<>>
      BY <1>1, SubSeqEmpty
    <2>3. ASSUME NEW k \in a + 1..L PROVE IsDigitChar(t[k])
      BY <1>3, <1>6, <1>8
    <2>4. DigitsAround(t, L, L, d)
      BY <1>5, <2>1, <2>2, <2>3 DEF DigitsAround, a
    <2>5. QED BY <2>4, CutIsDecimal
  <1>9. QED BY <1>7, <1>8

\* is_digit takes the decimal numbers, and else only texts without a digit.
THEOREM NumbersAreRecognised == Spec => []NumbersRecognised
  <1>1. TextHeld => NumbersRecognised
    <2> SUFFICES ASSUME TextHeld PROVE NumbersRecognised
      OBVIOUS
    <2> DEFINE s == Bytes(str)
               t == NoBlanks(s)
    <2>1. s \in Seq(Nat)
      BY DEF TextHeld, IsText
    <2> HIDE DEF s
    <2>2. is_digit(s) = Numeral(Unsigned(t))
      BY DEF is_digit, Numeral
    <2>3. PICK m \in 0..Len(s) : /\ t = SubSeq(s, m + 1, Len(s))
                                 /\ \A i \in 1..m : IsBlank(s[i])
      BY <2>1, NoBlanksIs
    <2>4. Len(s) \in Nat /\ Len(s) \in m..Len(s)
      BY <2>1
    <2>5. /\ t \in Seq(Nat) /\ Len(t) = Len(s) - m
          /\ \A k \in 1..Len(s) - m : t[k] = s[m + k]
      BY <2>1, <2>3, <2>4, PartIs, SMTT(30)
    <2> HIDE DEF t
    <2>6. IsDecimal(t) => is_digit(s)
      BY <2>2, <2>5, DecimalIsNumeral
    <2>7. ASSUME is_digit(s), ~IsDecimal(t), NEW i \in DOMAIN s, IsDigitChar(s[i])
          PROVE  FALSE
      <3>1. i \in 1..Len(s)
        BY <2>1, LenProperties
      <3>2. ~(i \in 1..m)
        BY <2>3, <2>7, SMTT(30) DEF IsBlank, IsDigitChar
      <3>3. PICK d \in 1..Len(s) - m : d = i - m
        BY <2>4, <3>1, <3>2
      <3>4. d \in 1..Len(t) /\ t[d] = s[i]
        <4>1. m + d = i
          BY <2>4, <3>1, <3>3
        <4>2. QED BY <2>5, <4>1
      <3>5. QED BY <2>2, <2>5, <2>7, <3>4, NumeralIsDecimal
    <2>8. QED BY <2>6, <2>7 DEF NumbersRecognised, s, t
  <1>2. QED BY <1>1, AlwaysTextHeld, PTL

-----------------------------------------------------------------------------
(* Blanks at the ends of texts.                                             *)

\* The ideographic space stands at s[p].
WideAt(s, p) ==
    /\ p \in 1..Len(s) /\ p + 2 <= Len(s)
    /\ s[p] = 227 /\ s[p + 1] = 128 /\ s[p + 2] = 128

\* No character reaches over the end of the first n bytes.
Boundary(s, n) == n \in 0..Len(s) /\ (n < Len(s) => ~IsTrail(s[n + 1]))

\* The bytes a + 1 to b are blanks.
Covered(s, a, b) ==
    \A i \in a + 1..b :
       IsBlank(s[i]) \/ \E p \in a + 1..b - 2 : WideAt(s, p) /\ i \in p..p + 2

\* The bytes of a text: ASCII, leading or trailing, and where they stand.
LEMMA ByteOfText ==
    ASSUME NEW s, IsText(s), NEW i \in 1..Len(s)
    PROVE  /\ s[i] \in Nat
           /\ s[i] \in 1..127 \/ IsLead(s[i]) \/ IsTrail(s[i])
           /\ IsLead(s[i]) =>
                 i + 2 <= Len(s) /\ IsTrail(s[i + 1]) /\ IsTrail(s[i + 2])
           /\ IsTrail(s[i]) =>
                 \/ i > 1 /\ IsLead(s[i - 1])
                 \/ i > 2 /\ IsTrail(s[i - 1]) /\ IsLead(s[i - 2])
           /\ ~(IsLead(s[i]) /\ IsTrail(s[i]))
           /\ is_CN(s[i]) <=> IsLead(s[i]) \/ IsTrail(s[i])
           /\ IsBlank(s[i]) => ~is_CN(s[i])
  <1>1. s \in Seq(Nat) /\ IsUtf8(s)
    BY DEF IsText
  <1>2. DOMAIN s = 1..Len(s) /\ s[i] \in Nat
    BY <1>1, LenProperties
  <1>3. /\ s[i] \in 1..127 \/ IsLead(s[i]) \/ IsTrail(s[i])
        /\ IsLead(s[i]) =>
              i + 2 <= Len(s) /\ IsTrail(s[i + 1]) /\ IsTrail(s[i + 2])
        /\ IsTrail(s[i]) =>
              \/ i > 1 /\ IsLead(s[i - 1])
              \/ i > 2 /\ IsTrail(s[i - 1]) /\ IsLead(s[i - 2])
    BY <1>1, <1>2 DEF IsUtf8
  <1>4. \A b \in Nat :
           /\ ~(IsLead(b) /\ IsTrail(b))
           /\ (b \in 1..127 \/ IsLead(b) \/ IsTrail(b)) =>
                 (is_CN(b) <=> IsLead(b) \/ IsTrail(b))
           /\ IsBlank(b) => ~is_CN(b)
    BY DEF IsLead, IsTrail, is_CN, IsBlank
  <1>5. QED BY <1>2, <1>3, <1>4

\* What ends at a boundary: an ASCII character, or one of three bytes.
LEMMA CharacterBefore ==
    ASSUME NEW s, IsText(s), NEW n \in 1..Len(s), Boundary(s, n)
    PROVE  \/ s[n] \in 1..127
           \/ n > 2 /\ IsLead(s[n - 2]) /\ IsTrail(s[n - 1]) /\ IsTrail(s[n])
  <1>0. Len(s) \in Nat
    BY DEF IsText
  <1>1. ~IsLead(s[n])
    <2>1. IsLead(s[n]) => n < Len(s) /\ IsTrail(s[n + 1])
      BY <1>0, ByteOfText
    <2>2. QED BY <2>1 DEF Boundary
  <1>2. ~(n > 1 /\ IsLead(s[n - 1]))
    <2> SUFFICES ASSUME n > 1, IsLead(s[n - 1]) PROVE FALSE
      OBVIOUS
    <2>1. PICK p \in 1..Len(s) : p = n - 1
      BY <1>0
    <2>2. p + 2 <= Len(s) /\ IsTrail(s[p + 2])
      BY <2>1, ByteOfText
    <2>3. p + 2 = n + 1
      BY <1>0, <2>1
    <2>4. QED BY <1>0, <2>2, <2>3 DEF Boundary
  <1>3. QED BY <1>1, <1>2, ByteOfText

\* What begins at a boundary.
LEMMA CharacterBehind ==
    ASSUME NEW s, IsText(s), NEW n \in Nat, n < Len(s), Boundary(s, n)
    PROVE  \/ s[n + 1] \in 1..127
           \/ /\ n + 3 <= Len(s) /\ IsLead(s[n + 1]) /\ IsTrail(s[n + 2])
              /\ IsTrail(s[n + 3])
  <1>1. PICK p \in 1..Len(s) : p = n + 1
    BY DEF IsText
  <1>2. p + 1 = n + 2 /\ p + 2 = n + 3
    BY <1>1
  <1>3. ~IsTrail(s[p])
    BY <1>1 DEF Boundary
  <1>4. QED BY <1>1, <1>2, <1>3, ByteOfText

\* A character of one byte has a boundary on both sides.
LEMMA BoundaryBehindAscii ==
    ASSUME NEW s, IsText(s), NEW n \in 1..Len(s), s[n] \in 1..127
    PROVE  Boundary(s, n) /\ Boundary(s, n - 1)
  <1>0. Len(s) \in Nat /\ ~IsLead(s[n]) /\ ~IsTrail(s[n])
    <2>1. Len(s) \in Nat
      BY DEF IsText
    <2>2. \A b \in 1..127 : ~IsLead(b) /\ ~IsTrail(b)
      BY DEF IsLead, IsTrail
    <2>3. QED BY <2>1, <2>2
  <1>1. ASSUME n < Len(s), IsTrail(s[n + 1]) PROVE FALSE
    <2>1. PICK p \in 1..Len(s) : p = n + 1
      BY <1>0, <1>1
    <2>2. IsLead(s[p - 1]) \/ IsTrail(s[p - 1])
      BY <1>1, <2>1, ByteOfText
    <2>3. p - 1 = n
      BY <2>1
    <2>4. QED BY <1>0, <2>2, <2>3
  <1>2. n \in 0..Len(s) /\ n - 1 \in 0..Len(s) /\ (n - 1) + 1 = n
    BY <1>0
  <1>3. QED BY <1>0, <1>1, <1>2 DEF Boundary

\* A character of three bytes has one on both sides, and none inside.
LEMMA BoundaryBehindThree ==
    ASSUME NEW s, IsText(s), NEW n \in 1..Len(s), IsLead(s[n])
    PROVE  /\ Boundary(s, n + 2) /\ Boundary(s, n - 1)
           /\ ~Boundary(s, n) /\ ~Boundary(s, n + 1)
  <1>0. Len(s) \in Nat
    BY DEF IsText
  <1>1. n + 2 <= Len(s) /\ IsTrail(s[n + 1]) /\ IsTrail(s[n + 2])
        /\ ~IsTrail(s[n])
    BY ByteOfText
  <1>2. /\ n < Len(s) /\ n + 1 < Len(s) /\ n - 1 \in 0..Len(s)
        /\ n + 2 \in 0..Len(s) /\ (n - 1) + 1 = n /\ (n + 1) + 1 = n + 2
        /\ n + 1 \in 1..Len(s) /\ n + 2 \in 1..Len(s)
    BY <1>0, <1>1
  <1>3. ~Boundary(s, n) /\ ~Boundary(s, n + 1) /\ Boundary(s, n - 1)
    BY <1>1, <1>2 DEF Boundary
  <1>4. ASSUME n + 2 < Len(s), IsTrail(s[(n + 2) + 1]) PROVE FALSE
    <2>1. PICK p \in 1..Len(s) : p = (n + 2) + 1
      BY <1>0, <1>2, <1>4
    <2>2. IsLead(s[p - 1]) \/ (IsTrail(s[p - 1]) /\ IsLead(s[p - 2]))
      BY <1>4, <2>1, ByteOfText
    <2>3. p - 1 = n + 2 /\ p - 2 = n + 1
      BY <2>1
    <2>4. ~IsLead(s[n + 1]) /\ ~IsLead(s[n + 2])
      BY <1>1, <1>2, ByteOfText
    <2>5. QED BY <2>2, <2>3, <2>4
  <1>5. QED BY <1>2, <1>3, <1>4 DEF Boundary

\* The code of a character of three bytes, and the one of the blank.
LEMMA SpaceCode ==
    ASSUME NEW a \in 224..239, NEW b \in 128..191, NEW c \in 128..191
    PROVE  (a % 16) * 4096 + (b % 64) * 64 + (c % 64) = 12288
             <=> a = 227 /\ b = 128 /\ c = 128
  <1>1. a % 16 = a - 224
    OBVIOUS
  <1>2. b % 64 = b - 128 /\ c % 64 = c - 128
    OBVIOUS
  <1>3. PICK x \in 0..15 : x = a - 224
    OBVIOUS
  <1>4. PICK y \in 0..63 : y = b - 128
    OBVIOUS
  <1>5. PICK z \in 0..63 : z = c - 128
    OBVIOUS
  <1>6. x * 4096 + y * 64 + z = 12288 <=> x = 3 /\ y = 0 /\ z = 0
    OBVIOUS
  <1>7. QED BY <1>1, <1>2, <1>3, <1>4, <1>5, <1>6

\* is_full_blank recognises the ideographic space where a character begins.
LEMMA FullBlankIs ==
    ASSUME NEW s, IsText(s), NEW n \in 1..Len(s), IsLead(s[n])
    PROVE  is_full_blank(s, n) <=> WideAt(s, n)
  <1>1. /\ n + 2 <= Len(s) /\ s[n] \in 224..239 /\ s[n + 1] \in 128..191
        /\ s[n + 2] \in 128..191 /\ is_CN(s[n])
    BY ByteOfText DEF IsLead, IsTrail
  <1>2. is_full_blank(s, n) <=>
          (s[n] % 16) * 4096 + (s[n + 1] % 64) * 64 + (s[n + 2] % 64) = 12288
    BY <1>1 DEF is_full_blank
  <1>3. (s[n] % 16) * 4096 + (s[n + 1] % 64) * 64 + (s[n + 2] % 64) = 12288
          <=> s[n] = 227 /\ s[n + 1] = 128 /\ s[n + 2] = 128
    <2>1. PICK a \in 224..239 : a = s[n]
      BY <1>1
    <2>2. PICK b \in 128..191 : b = s[n + 1]
      BY <1>1
    <2>3. PICK c \in 128..191 : c = s[n + 2]
      BY <1>1
    <2>4. (a % 16) * 4096 + (b % 64) * 64 + (c % 64) = 12288
            <=> a = 227 /\ b = 128 /\ c = 128
      BY SpaceCode
    <2>5. QED BY <2>1, <2>2, <2>3, <2>4
  <1>4. QED BY <1>1, <1>2, <1>3 DEF WideAt

\* No bytes are all blanks.
LEMMA NothingCovered ==
    ASSUME NEW s, NEW n \in Nat
    PROVE  Covered(s, n, n)
  BY DEF Covered

\* Blanks and blanks behind them are blanks.
LEMMA CoveredJoin ==
    ASSUME NEW s, NEW a \in Nat, NEW b \in Nat, NEW c \in Nat, a <= b, b <= c,
           Covered(s, a, b), Covered(s, b, c)
    PROVE  Covered(s, a, c)
  <1>1. ASSUME NEW i \in a + 1..c
        PROVE  \/ IsBlank(s[i])
               \/ \E p \in a + 1..c - 2 : WideAt(s, p) /\ i \in p..p + 2
    <2>1. CASE i <= b
      <3>1. i \in a + 1..b
        BY <2>1
      <3>2. \/ IsBlank(s[i])
            \/ \E p \in a + 1..b - 2 : WideAt(s, p) /\ i \in p..p + 2
        BY <3>1 DEF Covered
      <3>3. \A p \in a + 1..b - 2 : p \in a + 1..c - 2
        OBVIOUS
      <3>4. QED BY <3>2, <3>3
    <2>2. CASE i > b
      <3>1. i \in b + 1..c
        BY <2>2
      <3>2. \/ IsBlank(s[i])
            \/ \E p \in b + 1..c - 2 : WideAt(s, p) /\ i \in p..p + 2
        BY <3>1 DEF Covered
      <3>3. \A p \in b + 1..c - 2 : p \in a + 1..c - 2
        OBVIOUS
      <3>4. QED BY <3>2, <3>3
    <2>3. QED BY <2>1, <2>2
  <1>2. QED BY <1>1 DEF Covered

\* A blank of one byte.
LEMMA BlankCovers ==
    ASSUME NEW s, NEW n \in Nat, IsBlank(s[n + 1])
    PROVE  Covered(s, n, n + 1)
  BY DEF Covered

\* A blank of three bytes.
LEMMA WideCovers ==
    ASSUME NEW s, NEW n \in Nat, WideAt(s, n + 1)
    PROVE  Covered(s, n, n + 3)
  <1>1. ASSUME NEW i \in n + 1..n + 3
        PROVE  \E p \in n + 1..(n + 3) - 2 : WideAt(s, p) /\ i \in p..p + 2
    <2>1. n + 1 \in n + 1..(n + 3) - 2 /\ i \in n + 1..(n + 1) + 2
      OBVIOUS
    <2>2. QED BY <2>1
  <1>2. QED BY <1>1 DEF Covered

\* No blank character ends at n.
NotBlankBefore(s, n) ==
    n > 0 => ~IsBlank(s[n]) /\ ~(n > 2 /\ WideAt(s, n - 2))

\* What trim's first loop leaves.
EndCut(s, m, n) ==
    m \in 0..n /\ Boundary(s, m) /\ Covered(s, m, n) /\ NotBlankBefore(s, m)

\* trim's first loop stops behind a character that is no blank, and has cut off
\* blanks only.
LEMMA CutEndIs ==
    ASSUME NEW s, IsText(s)
    PROVE  EndCut(s, CutEnd(s), Len(s))
  <1> DEFINE N == Len(s)
             full(n) == n > 2 /\ is_CN(s[n]) /\ is_full_blank(s, n - 2)
             par == [n \in 1..N |-> IF IsBlank(s[n]) THEN n - 1
                                    ELSE IF full(n) THEN n - 3 ELSE n - 1]
             T == 0..N
             step == [nt \in (1..N) \X T |->
                        IF IsBlank(s[nt[1]]) \/ full(nt[1]) THEN nt[2]
                        ELSE nt[1]]
             Is(f) == f = [n \in 0..Len(s) |->
                             IF n > 0 /\ IsBlank(s[n]) THEN f[n - 1]
                             ELSE IF n > 2 /\ is_CN(s[n]) /\ is_full_blank(s, n - 2)
                                  THEN f[n - 3] ELSE n]
  <1>1. N \in Nat /\ 0 \in T
    BY DEF IsText
  <1> HIDE DEF full
  <1>2. \A n \in 1..N : full(n) => n > 2
    BY DEF full
  <1> HIDE DEF N
  <1>3. par \in [1..N -> Nat] /\ \A n \in 1..N : par[n] < n
    BY <1>1, <1>2
  <1>4. step \in [(1..N) \X T -> T]
    <2>1. ASSUME NEW nt \in (1..N) \X T
          PROVE  (IF IsBlank(s[nt[1]]) \/ full(nt[1]) THEN nt[2] ELSE nt[1]) \in T
      <3>1. nt[1] \in 1..N /\ nt[2] \in T /\ nt[1] \in T
        BY <1>1
      <3>2. QED BY <3>1
    <2>2. QED BY <2>1
  <1>5. WellDefined(N, par, T, 0, step)
    <2> HIDE DEF par, T, step
    <2>1. QED BY <1>1, <1>3, <1>4, RecursionFromZero
  <1>6. PICK g : FromZero(g, N, par, T, 0, step)
    BY <1>5 DEF WellDefined
  <1>7. g \in [0..N -> T] /\ g[0] = 0
    BY <1>6 DEF FromZero
  <1>8. ASSUME NEW n \in 0..N
        PROVE  g[n] = IF n > 0 /\ IsBlank(s[n]) THEN g[n - 1]
                      ELSE IF full(n) THEN g[n - 3] ELSE n
    <2>1. CASE n = 0
      <3>1. ~full(n)
        BY <2>1 DEF full
      <3>2. QED BY <1>7, <2>1, <3>1
    <2>2. CASE n # 0
      <3>1. n \in 1..N /\ par[n] \in 0..N
        BY <1>1, <1>2, <2>2
      <3>2. g[n] = step[<<n, g[par[n]]>>] /\ g[par[n]] \in T
        BY <1>6, <1>7, <3>1 DEF FromZero
      <3>3. ASSUME NEW t \in T
            PROVE  step[<<n, t>>] = IF IsBlank(s[n]) \/ full(n) THEN t ELSE n
        BY <3>1
      <3>4. par[n] = IF IsBlank(s[n]) THEN n - 1
                     ELSE IF full(n) THEN n - 3 ELSE n - 1
        BY <3>1
      <3>5. n > 0
        BY <3>1
      <3> HIDE DEF par, step, T
      <3>6. g[n] = IF IsBlank(s[n]) \/ full(n) THEN g[par[n]] ELSE n
        BY <3>2, <3>3
      <3>7. QED BY <3>4, <3>5, <3>6
    <2>3. QED BY <2>1, <2>2
  <1>9. Is(g)
    BY <1>7, <1>8 DEF full, N
  <1> DEFINE F == CHOOSE h : Is(h)
  <1>10. Is(F)
    BY <1>9
  <1>11. CutEnd(s) = F[Len(s)]
    BY DEF CutEnd
  <1> HIDE DEF F
  <1>12. ASSUME NEW n \in 0..N
         PROVE  F[n] = IF n > 0 /\ IsBlank(s[n]) THEN F[n - 1]
                       ELSE IF full(n) THEN F[n - 3] ELSE n
    BY <1>10 DEF full, N
  <1> DEFINE S == {n \in Nat : n <= N /\ Boundary(s, n) => EndCut(s, F[n], n)}
  <1>13. ASSUME NEW n \in Nat, \A k \in 0..n - 1 : k \in S PROVE n \in S
    <2> SUFFICES ASSUME n <= N, Boundary(s, n) PROVE EndCut(s, F[n], n)
      OBVIOUS
    <2>1. n \in 0..N
      BY <1>1
    <2>2. CASE n > 0 /\ IsBlank(s[n])
      <3>1. PICK k \in 0..n - 1 : k + 1 = n /\ k = n - 1
        BY <2>1, <2>2
      <3>2. n \in 1..Len(s) /\ s[n] \in 1..127
        BY <2>1, <2>2 DEF IsBlank, N
      <3>3. Boundary(s, k) /\ k <= N /\ k \in S
        <4>1. Boundary(s, n - 1)
          BY <3>2, BoundaryBehindAscii
        <4>2. k <= N
          BY <1>1, <2>1, <3>1
        <4> HIDE DEF S
        <4>3. QED BY <1>13, <3>1, <4>1, <4>2
      <3>4. EndCut(s, F[k], k) /\ F[n] = F[k]
        BY <1>12, <2>1, <2>2, <3>1, <3>3
      <3>5. Covered(s, k, n)
        BY <2>2, <3>1, BlankCovers
      <3> HIDE DEF S
      <3>6. PICK m \in 0..k : m = F[k]
        BY <3>4 DEF EndCut
      <3>7. Covered(s, m, n) /\ m \in 0..n
        BY <3>1, <3>4, <3>5, <3>6, CoveredJoin DEF EndCut
      <3>8. QED BY <3>4, <3>6, <3>7 DEF EndCut
    <2>3. CASE ~(n > 0 /\ IsBlank(s[n])) /\ full(n)
      <3>1. n > 2 /\ is_CN(s[n]) /\ is_full_blank(s, n - 2)
        BY <2>3 DEF full
      <3>2. PICK k \in 0..n - 1 : k + 3 = n /\ k = n - 3 /\ k + 1 = n - 2
        BY <2>1, <3>1
      <3>3. n \in 1..Len(s) /\ k + 1 \in 1..Len(s)
        BY <2>1, <3>1, <3>2 DEF N
      <3>4. IsLead(s[k + 1])
        <4>1. ~(s[n] \in 1..127)
          <5>1. \A b \in 1..127 : ~is_CN(b)
            BY DEF is_CN
          <5>2. QED BY <3>1, <5>1
        <4>2. QED BY <2>1, <3>2, <3>3, <4>1, CharacterBefore
      <3>5. WideAt(s, k + 1)
        BY <3>1, <3>2, <3>3, <3>4, FullBlankIs
      <3>6. Boundary(s, k) /\ k <= N /\ k \in S
        <4>1. Boundary(s, (k + 1) - 1) /\ (k + 1) - 1 = k
          BY <3>3, <3>4, BoundaryBehindThree
        <4>2. k <= N
          BY <1>1, <2>1, <3>2
        <4> HIDE DEF S
        <4>3. QED BY <1>13, <3>2, <4>1, <4>2
      <3>7. EndCut(s, F[k], k) /\ F[n] = F[k]
        BY <1>12, <2>1, <2>3, <3>2, <3>6
      <3>8. Covered(s, k, n)
        BY <3>2, <3>5, WideCovers
      <3> HIDE DEF S
      <3>9. PICK m \in 0..k : m = F[k]
        BY <3>7 DEF EndCut
      <3>10. Covered(s, m, n) /\ m \in 0..n
        BY <3>2, <3>7, <3>8, <3>9, CoveredJoin DEF EndCut
      <3>11. QED BY <3>7, <3>9, <3>10 DEF EndCut
    <2>4. CASE ~(n > 0 /\ IsBlank(s[n])) /\ ~full(n)
      <3>1. F[n] = n
        BY <1>12, <2>1, <2>4
      <3>2. ASSUME n > 2, WideAt(s, n - 2) PROVE FALSE
        <4>1. PICK k \in 1..Len(s) : k = n - 2 /\ k + 2 = n
          BY <2>1, <3>2 DEF N
        <4>2. s[n] = 128 /\ IsLead(s[k])
          BY <3>2, <4>1 DEF WideAt, IsLead
        <4>3. is_full_blank(s, n - 2) /\ is_CN(s[n])
          BY <3>2, <4>1, <4>2, FullBlankIs DEF is_CN
        <4>4. QED BY <2>4, <3>2, <4>3 DEF full
      <3>3. NotBlankBefore(s, n)
        BY <2>4, <3>2 DEF NotBlankBefore
      <3>4. QED BY <2>1, <3>1, <3>3, NothingCovered DEF EndCut
    <2>5. QED BY <2>2, <2>3, <2>4
  <1>14. S \in SUBSET Nat
    OBVIOUS
  <1>15. N \in S
    <2> HIDE DEF S
    <2>1. S = Nat
      BY <1>13, <1>14, NumbersBelow
    <2>2. QED BY <1>1, <2>1
  <1>16. Boundary(s, N)
    BY <1>1 DEF Boundary, N
  <1>17. QED BY <1>1, <1>11, <1>15, <1>16 DEF N

\* What trim's second loop leaves, from n on.
StartCut(s, r, n, m) ==
    /\ r \in n..m /\ Covered(s, n, r)
    /\ 2 * r < m => ~IsBlank(s[r + 1]) /\ ~WideAt(s, r + 1)

\* trim's second loop stops before a character that is no blank or half-way,
\* and has cut off blanks only.
LEMMA CutStartIs ==
    ASSUME NEW s, IsText(s), NEW m \in 0..Len(s), Boundary(s, m)
    PROVE  StartCut(s, CutStart(s, m), 0, m)
  <1> DEFINE M == m + 2
             half(n) == n >= m - n
             full(n) == ~half(n) /\ ~IsBlank(s[n + 1]) /\ is_full_blank(s, n + 1)
             blank(n) == ~half(n) /\ IsBlank(s[n + 1])
             nxt == [n \in 0..M - 1 |-> IF full(n) THEN n + 3 ELSE n + 1]
             T == 0..M
             step == [nt \in (0..M - 1) \X T |->
                        IF blank(nt[1]) \/ full(nt[1]) THEN nt[2] ELSE nt[1]]
             Is(f) == f = [n \in 0..m + 2 |->
                             IF n >= m - n THEN n
                             ELSE IF IsBlank(s[n + 1]) THEN f[n + 1]
                             ELSE IF is_full_blank(s, n + 1) THEN f[n + 3]
                             ELSE n]
  <1>1. Len(s) \in Nat /\ m \in Nat /\ M \in Nat /\ M = m + 2 /\ M \in T
    BY DEF IsText
  <1>2. /\ \A n \in Nat : full(n) \/ blank(n) => 2 * n < m
        /\ \A n \in Nat : half(n) <=> ~(2 * n < m)
        /\ \A n \in Nat : ~(full(n) /\ blank(n))
    BY <1>1
  <1> HIDE DEF full, blank, half, M
  <1>3. /\ nxt \in [0..M - 1 -> Nat]
        /\ \A n \in 0..M - 1 : n < nxt[n] /\ nxt[n] <= M
    BY <1>1, <1>2
  <1>4. step \in [(0..M - 1) \X T -> T]
    <2>1. ASSUME NEW nt \in (0..M - 1) \X T
          PROVE  (IF blank(nt[1]) \/ full(nt[1]) THEN nt[2] ELSE nt[1]) \in T
      <3>1. nt[1] \in 0..M - 1 /\ nt[2] \in T /\ nt[1] \in T
        BY <1>1
      <3>2. QED BY <3>1
    <2>2. QED BY <2>1
  <1>5. Ends(M, nxt, T, M, step)
    <2> HIDE DEF nxt, T, step
    <2>1. QED BY <1>1, <1>3, <1>4, RecursionToTop
  <1>6. PICK g : ToTop(g, M, nxt, T, M, step)
    BY <1>5 DEF Ends
  <1>7. g \in [0..M -> T] /\ g[M] = M
    BY <1>6 DEF ToTop
  <1>8. ASSUME NEW n \in 0..M
        PROVE  g[n] = IF blank(n) THEN g[n + 1]
                      ELSE IF full(n) THEN g[n + 3] ELSE n
    <2>1. CASE n = M
      <3>1. ~full(n) /\ ~blank(n)
        BY <1>1, <1>2, <2>1
      <3>2. QED BY <1>7, <2>1, <3>1
    <2>2. CASE n # M
      <3>1. n \in 0..M - 1 /\ nxt[n] \in 0..M
        BY <1>1, <1>3, <2>2
      <3>2. g[n] = step[<<n, g[nxt[n]]>>] /\ g[nxt[n]] \in T
        BY <1>6, <1>7, <3>1 DEF ToTop
      <3>3. ASSUME NEW t \in T
            PROVE  step[<<n, t>>] = IF blank(n) \/ full(n) THEN t ELSE n
        BY <3>1
      <3>4. nxt[n] = IF full(n) THEN n + 3 ELSE n + 1
        BY <3>1
      <3>5. ~(full(n) /\ blank(n))
        BY <1>1, <1>2
      <3> HIDE DEF nxt, step, T
      <3>6. g[n] = IF blank(n) \/ full(n) THEN g[nxt[n]] ELSE n
        BY <3>2, <3>3
      <3>7. QED BY <3>4, <3>5, <3>6
    <2>3. QED BY <2>1, <2>2
  <1>9. ASSUME NEW f, NEW n \in 0..M
        PROVE  (IF blank(n) THEN f[n + 1]
                ELSE IF full(n) THEN f[n + 3] ELSE n) =
               (IF n >= m - n THEN n
                ELSE IF IsBlank(s[n + 1]) THEN f[n + 1]
                ELSE IF is_full_blank(s, n + 1) THEN f[n + 3] ELSE n)
    BY DEF blank, full, half
  <1>10. Is(g)
    BY <1>7, <1>8, <1>9 DEF M
  <1> DEFINE F == CHOOSE h : Is(h)
  <1>11. Is(F)
    BY <1>10
  <1>12. CutStart(s, m) = F[0]
    BY DEF CutStart
  <1> HIDE DEF F
  <1>13. ASSUME NEW n \in 0..M
         PROVE  F[n] = IF blank(n) THEN F[n + 1]
                       ELSE IF full(n) THEN F[n + 3] ELSE n
    BY <1>9, <1>11 DEF M
  <1> DEFINE Claim(n) == Boundary(s, n) => StartCut(s, F[n], n, m)
             S == {k \in Nat : k <= m => Claim(m - k)}
  <1>14. ASSUME NEW k \in Nat, \A j \in 0..k - 1 : j \in S PROVE k \in S
    <2> SUFFICES ASSUME k <= m PROVE Claim(m - k)
      OBVIOUS
    <2>1. PICK n \in 0..m : n = m - k
      BY <1>1
    <2>2. ASSUME NEW q \in n + 1..m PROVE Claim(q)
      <3>1. PICK j \in 0..k - 1 : j = m - q
        BY <1>1, <2>1
      <3>2. j <= m /\ m - j = q
        BY <1>1, <2>1, <3>1
      <3>3. j \in S
        <4> HIDE DEF S
        <4>1. QED BY <1>14, <3>1
      <3>4. QED BY <3>2, <3>3
    <2> SUFFICES ASSUME Boundary(s, n) PROVE StartCut(s, F[n], n, m)
      BY <2>1
    <2> HIDE DEF S
    <2>3. n \in 0..M /\ n \in Nat
      BY <1>1
    <2>4. CASE blank(n)
      <3>1. n + 1 <= m /\ n + 1 \in 1..Len(s) /\ n + 1 \in n + 1..m
        BY <1>1, <1>2, <2>3, <2>4
      <3>2. IsBlank(s[n + 1]) /\ s[n + 1] \in 1..127
        BY <2>4 DEF blank, IsBlank
      <3>3. Boundary(s, n + 1)
        BY <3>1, <3>2, BoundaryBehindAscii
      <3>4. StartCut(s, F[n + 1], n + 1, m)
        BY <2>2, <3>1, <3>3
      <3>5. F[n] = F[n + 1]
        BY <1>13, <2>3, <2>4
      <3>6. PICK r \in n + 1..m : r = F[n + 1]
        BY <3>4 DEF StartCut
      <3>7. Covered(s, n, n + 1)
        BY <2>3, <3>2, BlankCovers
      <3>8. Covered(s, n, r) /\ r \in n..m
        <4>1. n + 1 \in Nat /\ r \in Nat /\ n <= n + 1 /\ n + 1 <= r /\ r \in n..m
          BY <2>3, <3>6
        <4>2. Covered(s, n + 1, r)
          BY <3>4, <3>6 DEF StartCut
        <4>3. QED BY <2>3, <3>7, <4>1, <4>2, CoveredJoin
      <3>9. QED BY <3>4, <3>5, <3>6, <3>8 DEF StartCut
    <2>5. CASE full(n)
      <3>1. n + 1 <= m /\ n + 1 \in 1..Len(s) /\ n < Len(s)
        BY <1>1, <1>2, <2>3, <2>5
      <3>2. is_full_blank(s, n + 1) /\ is_CN(s[n + 1])
        BY <2>5 DEF full, is_full_blank
      <3>3. IsLead(s[n + 1])
        <4>1. ~(s[n + 1] \in 1..127)
          <5>1. \A b \in 1..127 : ~is_CN(b)
            BY DEF is_CN
          <5>2. QED BY <3>2, <5>1
        <4>2. QED BY <2>3, <3>1, <4>1, CharacterBehind
      <3>4. WideAt(s, n + 1)
        BY <3>1, <3>2, <3>3, FullBlankIs
      <3>5. /\ Boundary(s, n + 3)
            /\ ~Boundary(s, n + 1) /\ ~Boundary(s, n + 2)
        <4>1. (n + 1) + 2 = n + 3 /\ (n + 1) + 1 = n + 2
          BY <2>3
        <4>2. QED BY <3>1, <3>3, <4>1, BoundaryBehindThree
      <3>6. n + 3 \in n + 1..m
        <4>1. m # n + 1 /\ m # n + 2
          BY <3>5
        <4>2. QED BY <1>1, <2>3, <3>1, <4>1
      <3>7. StartCut(s, F[n + 3], n + 3, m)
        BY <2>2, <3>5, <3>6
      <3>8. F[n] = F[n + 3]
        BY <1>2, <1>13, <2>3, <2>5
      <3>9. PICK r \in n + 3..m : r = F[n + 3]
        BY <3>7 DEF StartCut
      <3>10. Covered(s, n, n + 3)
        BY <2>3, <3>4, WideCovers
      <3>11. Covered(s, n, r) /\ r \in n..m
        <4>1. n + 3 \in Nat /\ r \in Nat /\ n <= n + 3 /\ n + 3 <= r /\ r \in n..m
          BY <2>3, <3>9
        <4>2. Covered(s, n + 3, r)
          BY <3>7, <3>9 DEF StartCut
        <4>3. QED BY <2>3, <3>10, <4>1, <4>2, CoveredJoin
      <3>12. QED BY <3>7, <3>8, <3>9, <3>11 DEF StartCut
    <2>6. CASE ~blank(n) /\ ~full(n)
      <3>1. F[n] = n
        BY <1>13, <2>3, <2>6
      <3>2. ASSUME 2 * n < m PROVE ~IsBlank(s[n + 1]) /\ ~WideAt(s, n + 1)
        <4>1. ~half(n) /\ n + 1 \in 1..Len(s)
          BY <1>1, <1>2, <2>3, <3>2
        <4>2. ~IsBlank(s[n + 1])
          BY <2>6, <4>1 DEF blank
        <4>3. ~is_full_blank(s, n + 1)
          BY <2>6, <4>1, <4>2 DEF full
        <4>4. WideAt(s, n + 1) => IsLead(s[n + 1])
          BY DEF WideAt, IsLead
        <4>5. QED BY <4>1, <4>2, <4>3, <4>4, FullBlankIs
      <3>3. n \in n..m
        BY <1>1
      <3>4. QED BY <2>3, <3>1, <3>2, <3>3, NothingCovered DEF StartCut
    <2>7. QED BY <2>4, <2>5, <2>6
  <1>15. S \in SUBSET Nat
    OBVIOUS
  <1>16. m \in S
    <2> HIDE DEF S
    <2>1. S = Nat
      BY <1>14, <1>15, NumbersBelow
    <2>2. QED BY <1>1, <2>1
  <1>17. Claim(0)
    BY <1>1, <1>16
  <1>18. Boundary(s, 0)
    <2>1. ASSUME 0 < Len(s), IsTrail(s[0 + 1]) PROVE FALSE
      <3>1. 1 \in 1..Len(s) /\ IsTrail(s[1])
        BY <1>1, <2>1
      <3>2. 1 > 1 \/ 1 > 2
        BY <3>1, ByteOfText
      <3>3. QED BY <3>2
    <2>2. QED BY <1>1, <2>1 DEF Boundary
  <1>19. QED BY <1>12, <1>17, <1>18

\* A part of three bytes is the blank if they are.
LEMMA WidePart ==
    ASSUME NEW s \in Seq(Nat), NEW p \in 1..Len(s), p + 2 <= Len(s)
    PROVE  SubSeq(s, p, p + 2) = Wide <=> WideAt(s, p)
  <1> DEFINE r == SubSeq(s, p, p + 2)
  <1>1. PICK a \in 0..Len(s) : a + 1 = p
    <2>1. p - 1 \in 0..Len(s) /\ (p - 1) + 1 = p
      OBVIOUS
    <2>2. QED BY <2>1
  <1>2. PICK b \in a..Len(s) : b = p + 2
    BY <1>1
  <1>3. b - a = 3 /\ a + 2 = p + 1 /\ a + 3 = p + 2
    BY <1>1, <1>2
  <1>4. /\ r \in Seq(Nat) /\ Len(r) = 3
        /\ \A k \in 1..3 : r[k] = s[a + k]
    <2>1. /\ SubSeq(s, a + 1, b) \in Seq(Nat) /\ Len(SubSeq(s, a + 1, b)) = b - a
          /\ \A k \in 1..b - a : SubSeq(s, a + 1, b)[k] = s[a + k]
      BY PartIs
    <2>2. SubSeq(s, a + 1, b) = r
      BY <1>1, <1>2
    <2>3. QED BY <1>3, <2>1, <2>2
  <1> HIDE DEF r
  <1>5. r[1] = s[p] /\ r[2] = s[p + 1] /\ r[3] = s[p + 2]
    BY <1>1, <1>3, <1>4, SMTT(30)
  <1>6. r = Wide <=> r[1] = 227 /\ r[2] = 128 /\ r[3] = 128
    <2>1. Wide \in Seq(Nat) /\ Len(Wide) = 3
          /\ Wide[1] = 227 /\ Wide[2] = 128 /\ Wide[3] = 128
      BY DEF Wide
    <2>2. ASSUME r[1] = 227 /\ r[2] = 128 /\ r[3] = 128 PROVE r = Wide
      <3>1. \A k \in 1..Len(r) : r[k] = Wide[k]
        <4>1. \A k \in 1..Len(r) : k = 1 \/ k = 2 \/ k = 3
          BY <1>4
        <4>2. r[1] = Wide[1] /\ r[2] = Wide[2] /\ r[3] = Wide[3]
          BY <2>1, <2>2
        <4>3. QED BY <4>1, <4>2, ZenonT(40)
      <3>2. r \in Seq(Nat) /\ Wide \in Seq(Nat) /\ Len(r) = Len(Wide)
        BY <1>4, <2>1
      <3>3. QED BY <3>1, <3>2, SeqEqual, Zenon
    <2>3. QED BY <2>1, <2>2, SMTT(30)
  <1>7. QED BY <1>5, <1>6 DEF r, WideAt

\* Every byte from i on is part of a blank.
LEMMA CoveredIsBlank ==
    ASSUME NEW s \in Seq(Nat), Covered(s, 0, Len(s))
    PROVE  AllBlank(s)
  <1> DEFINE N == Len(s)
             wide(i) == i + 2 <= N /\ SubSeq(s, i, i + 2) = Wide
             Is(f) == f = [i \in 1..Len(s) + 1 |->
                             \/ i = Len(s) + 1
                             \/ i <= Len(s) /\ IsBlank(s[i]) /\ f[i + 1]
                             \/ i + 2 <= Len(s) /\ SubSeq(s, i, i + 2) = Wide
                                  /\ f[i + 3]]
             Rest(i) == \A k \in i..N :
                           \/ IsBlank(s[k])
                           \/ \E p \in i..N - 2 : WideAt(s, p) /\ k \in p..p + 2
             T == [i \in 1..N + 1 |-> Rest(i)]
  <1>1. N \in Nat
    OBVIOUS
  <1>2. \A p : WideAt(s, p) => ~IsBlank(s[p])
    BY DEF WideAt, IsBlank
  <1>3. ASSUME NEW i \in 1..N, IsBlank(s[i])
        PROVE  Rest(i) <=> Rest(i + 1)
    <2>1. ASSUME Rest(i + 1) PROVE Rest(i)
      <3>1. \A p \in i + 1..N - 2 : p \in i..N - 2
        OBVIOUS
      <3>2. \A k \in i..N : k = i \/ k \in i + 1..N
        OBVIOUS
      <3>3. QED BY <1>3, <2>1, <3>1, <3>2
    <2>2. ASSUME Rest(i) PROVE Rest(i + 1)
      <3>1. \A p \in i..N - 2 : p = i \/ p \in i + 1..N - 2
        OBVIOUS
      <3>2. \A k \in i + 1..N : k \in i..N
        OBVIOUS
      <3>3. QED BY <1>2, <1>3, <2>2, <3>1, <3>2
    <2>3. QED BY <2>1, <2>2
  <1>4. ASSUME NEW i \in 1..N, WideAt(s, i)
        PROVE  Rest(i) <=> Rest(i + 3)
    <2>1. ASSUME Rest(i + 3) PROVE Rest(i)
      <3>1. \A p \in i + 3..N - 2 : p \in i..N - 2
        OBVIOUS
      <3>2. \A k \in i..N : k \in i..i + 2 \/ k \in i + 3..N
        OBVIOUS
      <3>3. i \in i..N - 2
        BY <1>1, <1>4 DEF WideAt
      <3>4. QED BY <1>4, <2>1, <3>1, <3>2, <3>3
    <2>2. ASSUME Rest(i) PROVE Rest(i + 3)
      <3>1. \A p \in i..N - 2 : WideAt(s, p) => p = i \/ p \in i + 3..N - 2
        <4>1. \A p \in i..N - 2 : p \in {i, i + 1, i + 2} \/ p \in i + 3..N - 2
          BY <1>1
        <4>2. ~WideAt(s, i + 1) /\ ~WideAt(s, i + 2)
          BY <1>4 DEF WideAt
        <4>3. QED BY <4>1, <4>2
      <3>2. \A k \in i + 3..N : k \in i..N /\ k \notin i..i + 2
        OBVIOUS
      <3>3. QED BY <2>2, <3>1, <3>2
    <2>3. QED BY <2>1, <2>2
  <1>5. ASSUME NEW i \in 1..N, Rest(i)
        PROVE  IsBlank(s[i]) \/ WideAt(s, i)
    <2>1. i \in i..N /\ \A p \in i..N - 2 : i \in p..p + 2 => p = i
      BY <1>1
    <2>2. QED BY <1>5, <2>1
  <1>6. \A i \in 1..N : WideAt(s, i) <=> wide(i)
    BY WidePart DEF WideAt
  <1> HIDE DEF Rest, wide
  <1>7. ASSUME NEW i \in 1..N + 1
        PROVE  Rest(i) <=> (\/ i = N + 1
                            \/ i <= N /\ IsBlank(s[i]) /\ Rest(i + 1)
                            \/ wide(i) /\ Rest(i + 3))
    <2>1. CASE i = N + 1
      BY <1>1, <2>1 DEF Rest
    <2>2. CASE i # N + 1
      <3>1. i \in 1..N
        BY <1>1, <2>2
      <3>2. i <= N
        BY <1>1, <3>1
      <3>3. QED BY <1>3, <1>4, <1>5, <1>6, <2>2, <3>1, <3>2, ZenonT(40)
    <2>3. QED BY <2>1, <2>2
  <1>8. Is(T)
    <2>1. ASSUME NEW i \in 1..N + 1
          PROVE  T[i] = (\/ i = N + 1
                         \/ i <= N /\ IsBlank(s[i]) /\ T[i + 1]
                         \/ wide(i) /\ T[i + 3])
      <3>1. i <= N => i + 1 \in 1..N + 1
        OBVIOUS
      <3>2. wide(i) => i + 3 \in 1..N + 1
        BY <1>1 DEF wide
      <3>3. T[i] = Rest(i)
        OBVIOUS
      <3>4. i <= N => T[i + 1] = Rest(i + 1)
        BY <3>1
      <3>5. wide(i) => T[i + 3] = Rest(i + 3)
        BY <3>2
      <3> HIDE DEF T
      <3>6. (\/ i = N + 1
             \/ i <= N /\ IsBlank(s[i]) /\ Rest(i + 1)
             \/ wide(i) /\ Rest(i + 3)) =
            (\/ i = N + 1
             \/ i <= N /\ IsBlank(s[i]) /\ T[i + 1]
             \/ wide(i) /\ T[i + 3])
        BY <3>4, <3>5, Zenon
      <3>7. Rest(i) \in BOOLEAN
        BY DEF Rest
      <3>8. QED BY <1>7, <3>3, <3>6, <3>7, ZenonT(40)
    <2>2. QED BY <2>1 DEF wide
  <1> DEFINE F == CHOOSE h : Is(h)
  <1>9. Is(F)
    BY <1>8, Zenon
  <1>10. AllBlank(s) = F[1]
    BY DEF AllBlank
  <1> HIDE DEF F
  <1>11. ASSUME NEW i \in 1..N + 1
         PROVE  F[i] = (\/ i = N + 1
                        \/ i <= N /\ IsBlank(s[i]) /\ F[i + 1]
                        \/ wide(i) /\ F[i + 3])
    BY <1>9, Zenon DEF wide
  <1> DEFINE S == {k \in Nat : k <= N /\ Rest(N + 1 - k) => F[N + 1 - k] = TRUE}
  <1>12. ASSUME NEW k \in Nat, \A j \in 0..k - 1 : j \in S PROVE k \in S
    <2> SUFFICES ASSUME k <= N, Rest(N + 1 - k) PROVE F[N + 1 - k] = TRUE
      OBVIOUS
    <2>1. PICK i \in 1..N + 1 : i = N + 1 - k
      BY <1>1
    <2>2. ASSUME NEW q \in i + 1..N + 1, Rest(q) PROVE F[q] = TRUE
      <3>1. PICK j \in 0..k - 1 : j = N + 1 - q
        BY <1>1, <2>1
      <3>2. j <= N /\ N + 1 - j = q
        BY <1>1, <2>1, <3>1
      <3>3. j \in S
        <4> HIDE DEF S
        <4>1. QED BY <1>12, <3>1
      <3>4. QED BY <2>2, <3>2, <3>3
    <2>3. Rest(i)
      BY <2>1
    <2> HIDE DEF S
    <2>4. CASE i = N + 1
      <3>1. F[i] = TRUE
        BY <1>11, <2>4, Zenon
      <3>2. QED BY <2>1, <3>1
    <2>5. CASE i <= N /\ IsBlank(s[i]) /\ Rest(i + 1)
      <3>1. i + 1 \in i + 1..N + 1
        BY <1>1, <2>5
      <3>2. F[i + 1] = TRUE
        BY <2>2, <2>5, <3>1
      <3>3. F[i] = TRUE
        BY <1>11, <2>5, <3>2, Zenon
      <3>4. QED BY <2>1, <3>3
    <2>6. CASE wide(i) /\ Rest(i + 3)
      <3>1. i + 3 \in i + 1..N + 1
        BY <1>1, <2>6 DEF wide
      <3>2. F[i + 3] = TRUE
        BY <2>2, <2>6, <3>1
      <3>3. F[i] = TRUE
        BY <1>11, <2>6, <3>2, Zenon
      <3>4. QED BY <2>1, <3>3
    <2>7. QED BY <1>7, <2>3, <2>4, <2>5, <2>6, Zenon
  <1>13. S \in SUBSET Nat
    OBVIOUS
  <1>14. N \in S
    <2> HIDE DEF S
    <2>1. S = Nat
      BY <1>12, <1>13, NumbersBelow
    <2>2. QED BY <1>1, <2>1
  <1>15. Rest(1)
    BY DEF Covered, Rest
  <1>16. N + 1 - N = 1 /\ N <= N
    BY <1>1
  <1>17. F[1] = TRUE
    BY <1>14, <1>15, <1>16
  <1>18. QED BY <1>10, <1>17

\* Blank bytes make a blank part.
LEMMA PartIsBlank ==
    ASSUME NEW s \in Seq(Nat), NEW a \in 0..Len(s), NEW b \in a..Len(s),
           Covered(s, a, b)
    PROVE  AllBlank(SubSeq(s, a + 1, b))
  <1> DEFINE u == SubSeq(s, a + 1, b)
             N == b - a
  <1>1. u \in Seq(Nat) /\ Len(u) = N /\ \A k \in 1..N : u[k] = s[a + k]
    BY PartIs
  <1>2. N \in Nat /\ a \in Nat /\ b \in Nat /\ a + N = b
    OBVIOUS
  <1> HIDE DEF u, N
  <1>3. ASSUME NEW i \in 0 + 1..N
        PROVE  \/ IsBlank(u[i])
               \/ \E p \in 0 + 1..N - 2 : WideAt(u, p) /\ i \in p..p + 2
    <2>1. a + i \in a + 1..b /\ u[i] = s[a + i]
      BY <1>1, <1>2
    <2>2. \/ IsBlank(s[a + i])
          \/ \E q \in a + 1..b - 2 : WideAt(s, q) /\ a + i \in q..q + 2
      BY <2>1 DEF Covered
    <2>3. ASSUME NEW q \in a + 1..b - 2, WideAt(s, q), a + i \in q..q + 2
          PROVE  \E p \in 0 + 1..N - 2 : WideAt(u, p) /\ i \in p..p + 2
      <3>1. PICK p \in 0 + 1..N - 2 : p = q - a
        BY <1>2
      <3>2. p \in 1..Len(u) /\ p + 2 <= Len(u) /\ i \in p..p + 2
        BY <1>1, <1>2, <2>3, <3>1
      <3>3. p \in 1..N /\ p + 1 \in 1..N /\ p + 2 \in 1..N
            /\ a + p = q /\ a + (p + 1) = q + 1 /\ a + (p + 2) = q + 2
        BY <1>1, <1>2, <3>1, <3>2
      <3>4. u[p] = 227 /\ u[p + 1] = 128 /\ u[p + 2] = 128
        <4>1. s[q] = 227 /\ s[q + 1] = 128 /\ s[q + 2] = 128
          BY <2>3 DEF WideAt
        <4>2. u[p] = s[a + p] /\ u[p + 1] = s[a + (p + 1)]
              /\ u[p + 2] = s[a + (p + 2)]
          BY <1>1, <3>3
        <4>3. s[a + p] = s[q] /\ s[a + (p + 1)] = s[q + 1]
              /\ s[a + (p + 2)] = s[q + 2]
          BY <3>3
        <4>4. QED BY <4>1, <4>2, <4>3
      <3>5. QED BY <3>2, <3>4 DEF WideAt
    <2>4. QED BY <2>1, <2>2, <2>3
  <1>4. Covered(u, 0, Len(u))
    BY <1>1, <1>3 DEF Covered
  <1>5. QED BY <1>1, <1>4, CoveredIsBlank DEF u

\* t is what stands in s from r + 1 to n.
PartOf(t, s, r, n) ==
    /\ s \in Seq(Nat) /\ n \in 0..Len(s) /\ r \in 0..n
    /\ t \in Seq(Nat) /\ Len(t) = n - r
    /\ \A k \in 1..n - r : t[k] = s[r + k]

\* The blank of three bytes in a part stands in the whole.
LEMMA WideInPart ==
    ASSUME NEW s, NEW t, NEW r, NEW n, PartOf(t, s, r, n),
           NEW p, WideAt(t, p)
    PROVE  WideAt(s, r + p)
  <1>1. /\ Len(s) \in Nat /\ n \in 0..Len(s) /\ r \in 0..n /\ Len(t) = n - r
        /\ \A k \in 1..n - r : t[k] = s[r + k]
    BY DEF PartOf
  <1>2. /\ p \in 1..n - r /\ p + 2 <= n - r
        /\ t[p] = 227 /\ t[p + 1] = 128 /\ t[p + 2] = 128
    BY <1>1 DEF WideAt
  <1>3. p + 1 \in 1..n - r /\ p + 2 \in 1..n - r
    BY <1>1, <1>2
  <1>4. r + p \in 1..Len(s) /\ (r + p) + 2 <= Len(s)
    BY <1>1, <1>2
  <1>5. t[p] = s[r + p] /\ t[p + 1] = s[r + (p + 1)] /\ t[p + 2] = s[r + (p + 2)]
    BY <1>1, <1>2, <1>3
  <1>6. r + (p + 1) = (r + p) + 1 /\ r + (p + 2) = (r + p) + 2
    BY <1>1, <1>2
  <1>7. QED BY <1>2, <1>4, <1>5, <1>6 DEF WideAt

\* trim cuts off blanks only, and stops where its loops do.
THEOREM TrimIsExact == Spec => []TrimExact
  <1>1. TextHeld => TrimExact
    <2> SUFFICES ASSUME TextHeld PROVE TrimExact
      OBVIOUS
    <2> DEFINE s == Bytes(str)
               L == Len(s)
               n == CutEnd(s)
               r == CutStart(s, n)
               t == trim(s)
    <2>1. IsText(s) /\ s \in Seq(Nat)
      BY DEF TextHeld, IsText
    <2> HIDE DEF s
    <2>2. EndCut(s, n, L)
      BY <2>1, CutEndIs
    <2>3. n \in 0..L /\ Boundary(s, n) /\ Covered(s, n, L) /\ L \in Nat
          /\ NotBlankBefore(s, n)
      BY <2>1, <2>2 DEF EndCut
    <2>4. StartCut(s, r, 0, n)
      BY <2>1, <2>3, CutStartIs
    <2>5. /\ r \in 0..n /\ Covered(s, 0, r)
          /\ 2 * r < n => ~IsBlank(s[r + 1]) /\ ~WideAt(s, r + 1)
      BY <2>4 DEF StartCut
    <2>6. t = SubSeq(s, r + 1, n)
      BY DEF trim
    <2> HIDE DEF n, r
    <2>7. /\ t \in Seq(Nat) /\ Len(t) = n - r
          /\ \A k \in 1..n - r : t[k] = s[r + k]
      <3>1. r \in 0..Len(s) /\ n \in r..Len(s)
        BY <2>3, <2>5
      <3>2. QED BY <2>1, <2>6, <3>1, PartIs
    <2> HIDE DEF t
    <2>a. PartOf(t, s, r, n)
      BY <2>1, <2>3, <2>5, <2>7 DEF PartOf
    <2>8. s = SubSeq(s, 1, r) \o t \o SubSeq(s, n + 1, L)
      <3>1. 0 \in 0..L /\ r \in 0..L /\ n \in r..L
        BY <2>3, <2>5
      <3>2. Parted(s, 0, r, n)
        BY <2>1, <3>1, CutInParts
      <3>3. SubSeq(s, 1, 0) = <<>>
        BY SubSeqEmpty
      <3>4. SubSeq(s, 0 + 1, r) = SubSeq(s, 1, r)
        OBVIOUS
      <3>5. SubSeq(s, 1, r) \in Seq(Nat)
        <4>1. SubSeq(s, 0 + 1, r) \in Seq(Nat)
          BY <2>1, <2>5, <3>1, PartIs
        <4>2. QED BY <3>4, <4>1
      <3>6. <<>> \o SubSeq(s, 1, r) = SubSeq(s, 1, r)
        BY <3>5, ConcatEmptySeq
      <3>7. s = SubSeq(s, 1, 0) \o SubSeq(s, 0 + 1, r) \o SubSeq(s, r + 1, n)
                  \o SubSeq(s, n + 1, L)
        BY <3>2 DEF Parted
      <3>8. QED BY <2>6, <3>3, <3>4, <3>6, <3>7, Zenon
    <2>9. AllBlank(SubSeq(s, 1, r))
      <3>1. 0 \in 0..L /\ r \in 0..L /\ 0 + 1 = 1 /\ r - 0 = r
        BY <2>3, <2>5
      <3>2. Covered(s, 0, r)
        BY <2>5
      <3>3. QED BY <2>1, <3>1, <3>2, PartIsBlank
    <2>10. AllBlank(SubSeq(s, n + 1, L))
      <3>1. L \in n..L
        BY <2>3
      <3>2. QED BY <2>1, <2>3, <3>1, PartIsBlank
    <2>11. ~EndsBlank(t)
      <3> SUFFICES ASSUME EndsBlank(t) PROVE FALSE
        OBVIOUS
      <3>1. t # <<>> /\ Len(t) > 0 /\ n > r /\ n > 0
        BY <2>3, <2>5, <2>7, EmptySeq DEF EndsBlank
      <3>2. t[Len(t)] = s[n]
        <4>1. n - r \in 1..n - r /\ r + (n - r) = n
          BY <2>3, <2>5, <3>1
        <4>2. QED BY <2>7, <4>1
      <3>3. ~IsBlank(s[n]) /\ ~(n > 2 /\ WideAt(s, n - 2))
        BY <2>3, <3>1 DEF NotBlankBefore
      <3>4. Len(t) > 2 /\ SubSeq(t, Len(t) - 2, Len(t)) = Wide
        BY <3>2, <3>3 DEF EndsBlank
      <3>5. PICK p \in 1..Len(t) : p = Len(t) - 2 /\ p + 2 = Len(t)
        BY <2>7, <3>4
      <3>6. WideAt(t, p)
        <4>1. SubSeq(t, p, p + 2) = Wide /\ p + 2 <= Len(t)
          <5>1. SubSeq(t, p, p + 2) = Wide
            BY <3>4, <3>5, Zenon
          <5>2. p + 2 <= Len(t)
            BY <2>7, <3>5
          <5>3. QED BY <5>1, <5>2
        <4>2. t \in Seq(Nat)
          BY <2>7
        <4>3. QED BY <4>1, <4>2, WidePart
      <3>7. WideAt(s, r + p)
        BY <2>a, <3>6, WideInPart
      <3>8. r + p = n - 2 /\ n > 2
        BY <2>3, <2>5, <2>7, <3>5
      <3>9. QED BY <3>3, <3>7, <3>8
    <2>12. ASSUME StartsBlank(t) PROVE 2 * (n - Len(t)) >= n
      <3> SUFFICES ASSUME 2 * r < n PROVE FALSE
        BY <2>3, <2>5, <2>7
      <3>1. ~IsBlank(s[r + 1]) /\ ~WideAt(s, r + 1)
        BY <2>5
      <3>2. t[1] = s[r + 1]
        <4>1. 1 \in 1..n - r
          BY <2>3, <2>5
        <4>2. QED BY <2>7, <4>1
      <3>3. Len(t) > 2 /\ SubSeq(t, 1, 3) = Wide
        BY <2>12, <3>1, <3>2 DEF StartsBlank
      <3>4. 1 \in 1..Len(t) /\ 1 + 2 <= Len(t) /\ 1 + 2 = 3
        BY <2>7, <3>3
      <3>5. WideAt(t, 1)
        BY <2>7, <3>3, <3>4, WidePart
      <3>6. WideAt(s, r + 1)
        BY <2>a, <3>5, WideInPart
      <3>7. QED BY <3>1, <3>6
    <2>13. \E i, j \in 0..Len(s) :
              /\ s = SubSeq(s, 1, i) \o t \o SubSeq(s, j + 1, Len(s))
              /\ AllBlank(SubSeq(s, 1, i)) /\ AllBlank(SubSeq(s, j + 1, Len(s)))
      <3>1. r \in 0..L /\ n \in 0..L
        BY <2>3, <2>5
      <3>2. QED BY <2>8, <2>9, <2>10, <3>1, Zenon DEF L
    <2>14. QED BY <2>11, <2>12, <2>13 DEF TrimExact, s, t, n
  <1>2. QED BY <1>1, AlwaysTextHeld, PTL

-----------------------------------------------------------------------------
(* The vector.                                                              *)

Arrays(S) == UNION {[0..c - 1 -> S] : c \in Nat}

\* A vector of elements from S: an array of capcity elements, of which the
\* first size are in use.
IsVector(v, S) ==
    /\ v \in [array : Arrays(S), block : Nat, capcity : Nat, size : Nat]
    /\ v.array \in [0..v.capcity - 1 -> S]
    /\ v.size <= v.capcity

\* The numbers and the array of a vector.
LEMMA VectorParts ==
    ASSUME NEW S, NEW v, IsVector(v, S)
    PROVE  /\ v.block \in Nat /\ v.capcity \in Nat /\ v.size \in Nat
           /\ v.size <= v.capcity /\ v.array \in [0..v.capcity - 1 -> S]
           /\ \A i \in 0..v.size - 1 : v.array[i] \in S
  <1>1. /\ v.block \in Nat /\ v.capcity \in Nat /\ v.size \in Nat
        /\ v.size <= v.capcity /\ v.array \in [0..v.capcity - 1 -> S]
    BY DEF IsVector
  <1>2. \A i \in 0..v.size - 1 : i \in 0..v.capcity - 1
    BY <1>1
  <1>3. QED BY <1>1, <1>2

\* A record with such fields is a vector.
LEMMA VectorMade ==
    ASSUME NEW S, NEW c \in Nat, NEW b \in Nat, NEW n \in Nat, n <= c,
           NEW f \in [0..c - 1 -> S]
    PROVE  IsVector([array |-> f, block |-> b, capcity |-> c, size |-> n], S)
  <1>1. f \in Arrays(S)
    BY DEF Arrays
  <1>2. QED BY <1>1 DEF IsVector

\* The elements as a sequence.
LEMMA ElementsIs ==
    ASSUME NEW S, NEW v, IsVector(v, S)
    PROVE  /\ Elements(v) \in Seq(S) /\ Len(Elements(v)) = v.size
           /\ DOMAIN Elements(v) = 1..v.size
           /\ \A i \in 1..v.size : Elements(v)[i] = v.array[i - 1]
  <1>1. v.size \in Nat /\ \A i \in 1..v.size : i - 1 \in 0..v.size - 1
    BY VectorParts
  <1>2. \A i \in 1..v.size : v.array[i - 1] \in S
    BY <1>1, VectorParts
  <1>3. Elements(v) = [i \in 1..v.size |-> v.array[i - 1]]
    BY DEF Elements
  <1>4. Elements(v) \in [1..v.size -> S]
    BY <1>2, <1>3
  <1>5. QED BY <1>1, <1>3, <1>4, FunctionIsSeq

\* vector_new makes an empty list.
LEMMA NewVector ==
    ASSUME NEW S, Unwritten \in S, NEW c \in Nat
    PROVE  /\ IsVector(vector_new(c), S) /\ Elements(vector_new(c)) = <<>>
           /\ vector_new(c).block = 0
  <1> DEFINE f == [i \in 0..c - 1 |-> Unwritten]
  <1>1. vector_new(c) = [array |-> f, block |-> 0, capcity |-> c, size |-> 0]
    BY DEF vector_new
  <1>2. f \in [0..c - 1 -> S]
    OBVIOUS
  <1> HIDE DEF f
  <1>3. IsVector(vector_new(c), S) /\ vector_new(c).size = 0
        /\ vector_new(c).block = 0
    BY <1>1, <1>2, VectorMade
  <1>4. Elements(vector_new(c)) \in Seq(S) /\ Len(Elements(vector_new(c))) = 0
    BY <1>3, ElementsIs
  <1>5. QED BY <1>3, <1>4

\* What a vector has after it made room: w is v with more capacity, in a new
\* block unless there was room.
HasRoom(w, v, S) ==
    /\ IsVector(w, S) /\ w.size = v.size /\ w.size < w.capcity
    /\ \A i \in 0..v.size - 1 : w.array[i] = v.array[i]
    /\ \/ w.block = v.block /\ w.capcity = v.capcity
       \/ w.block = v.block + 1 /\ v.size = v.capcity
    /\ w.capcity >= v.capcity

\* A vector that is full grows and keeps its elements.
LEMMA RoomMade ==
    ASSUME NEW S, Unwritten \in S, NEW v, IsVector(v, S)
    PROVE  HasRoom(WithRoom(v), v, S)
  <1> DEFINE c == NewCap(v)
             f == [i \in 0..c - 1 |->
                     IF i < v.capcity THEN v.array[i] ELSE Unwritten]
             w == [v EXCEPT !.capcity = c, !.block = @ + 1, !.array = f]
  <1>1. /\ v.block \in Nat /\ v.capcity \in Nat /\ v.size \in Nat
        /\ v.size <= v.capcity /\ v.array \in [0..v.capcity - 1 -> S]
    BY VectorParts
  <1>2. CASE v.size >= v.capcity
    <2>1. c \in Nat /\ c > v.capcity
      BY <1>1 DEF NewCap
    <2>2. WithRoom(v) = w
      BY <1>2 DEF WithRoom, vector_realloc
    <2> HIDE DEF c
    <2>3. f \in [0..c - 1 -> S]
      <3>1. ASSUME NEW i \in 0..c - 1, i < v.capcity PROVE v.array[i] \in S
        BY <1>1, <2>1, <3>1
      <3>2. QED BY <3>1
    <2>4. \A i \in 0..v.size - 1 : f[i] = v.array[i]
      BY <1>1, <2>1
    <2> HIDE DEF f
    <2>0. v \in [array : Arrays(S), block : Nat, capcity : Nat, size : Nat]
      BY DEF IsVector
    <2>5. w = [array |-> f, block |-> v.block + 1, capcity |-> c, size |-> v.size]
      <3>1. v = [array |-> v.array, block |-> v.block, capcity |-> v.capcity,
                 size |-> v.size]
        BY <2>0
      <3>2. w = [[array |-> v.array, block |-> v.block, capcity |-> v.capcity,
                  size |-> v.size]
                 EXCEPT !.capcity = c, !.block = v.block + 1, !.array = f]
        BY <3>1
      <3> HIDE DEF w
      <3>3. QED BY <3>2
    <2> HIDE DEF w
    <2>6. IsVector(w, S)
      BY <1>1, <2>1, <2>3, <2>5, VectorMade
    <2>7. QED BY <1>1, <1>2, <2>1, <2>2, <2>4, <2>5, <2>6 DEF HasRoom
  <1>3. CASE ~(v.size >= v.capcity)
    <2>1. WithRoom(v) = v
      BY <1>3 DEF WithRoom
    <2>2. QED BY <1>1, <1>3, <2>1 DEF HasRoom
  <1>4. QED BY <1>2, <1>3

\* An element written at a place inside the array.
LEMMA PutElement ==
    ASSUME NEW S, NEW v, IsVector(v, S), NEW i \in 0..v.capcity - 1, NEW e \in S
    PROVE  /\ IsVector(Put(v, i, e), S)
           /\ Put(v, i, e).size = v.size /\ Put(v, i, e).capcity = v.capcity
           /\ Put(v, i, e).block = v.block
           /\ Put(v, i, e).array[i] = e
           /\ \A j \in 0..v.capcity - 1 :
                 j # i => Put(v, i, e).array[j] = v.array[j]
  <1> DEFINE f == [v.array EXCEPT ![i] = e]
             w == Put(v, i, e)
  <1>1. /\ v.block \in Nat /\ v.capcity \in Nat /\ v.size \in Nat
        /\ v.size <= v.capcity /\ v.array \in [0..v.capcity - 1 -> S]
    BY VectorParts
  <1>2. f \in [0..v.capcity - 1 -> S] /\ f[i] = e
        /\ \A j \in 0..v.capcity - 1 : j # i => f[j] = v.array[j]
    BY <1>1
  <1>3. w = [v EXCEPT !.array = f]
    BY DEF Put
  <1> HIDE DEF f
  <1>4. w = [array |-> f, block |-> v.block, capcity |-> v.capcity, size |-> v.size]
    BY <1>3 DEF IsVector
  <1> HIDE DEF w
  <1>5. IsVector(w, S)
    BY <1>1, <1>2, <1>4, VectorMade
  <1>6. QED BY <1>2, <1>4, <1>5 DEF w

\* One more element, which holds what is there.
LEMMA Prefetched ==
    ASSUME NEW S, Unwritten \in S, NEW v, IsVector(v, S)
    PROVE  LET w == vector_prefetch(v)
           IN /\ IsVector(w, S) /\ w.size = v.size + 1
              /\ \A i \in 0..v.size - 1 : w.array[i] = v.array[i]
              /\ \/ w.block = v.block /\ w.capcity = v.capcity
                 \/ w.block = v.block + 1 /\ v.size = v.capcity
              /\ w.capcity >= v.capcity
  <1> DEFINE r == WithRoom(v)
             w == vector_prefetch(v)
  <1>1. HasRoom(r, v, S)
    BY RoomMade
  <1>2. w = [r EXCEPT !.size = @ + 1]
    BY DEF vector_prefetch
  <1> HIDE DEF r
  <1>3. /\ r.block \in Nat /\ r.capcity \in Nat /\ r.size \in Nat
        /\ r.size < r.capcity /\ r.array \in [0..r.capcity - 1 -> S]
    BY <1>1, VectorParts DEF HasRoom
  <1>4. w = [array |-> r.array, block |-> r.block, capcity |-> r.capcity,
             size |-> r.size + 1]
    BY <1>1, <1>2 DEF HasRoom, IsVector
  <1> HIDE DEF w
  <1>5. r.size + 1 \in Nat /\ r.size + 1 <= r.capcity
    BY <1>3
  <1>6. IsVector(w, S)
    BY <1>3, <1>4, <1>5, VectorMade
  <1>7. QED BY <1>1, <1>4, <1>6 DEF HasRoom, w

\* A prefetched element is the new last one.
LEMMA PrefetchAppends ==
    ASSUME NEW S, Unwritten \in S, NEW v, IsVector(v, S)
    PROVE  \E e \in S : Elements(vector_prefetch(v)) = Append(Elements(v), e)
  <1> DEFINE w == vector_prefetch(v)
             e == w.array[v.size]
             s == Elements(w)
             t == Append(Elements(v), e)
  <1>1. /\ IsVector(w, S) /\ w.size = v.size + 1
        /\ \A i \in 0..v.size - 1 : w.array[i] = v.array[i]
    BY Prefetched
  <1> HIDE DEF w
  <1>2. v.size \in Nat
    BY VectorParts
  <1>3. e \in S
    BY <1>1, <1>2, VectorParts
  <1>4. /\ s \in Seq(S) /\ Len(s) = v.size + 1
        /\ \A i \in 1..v.size + 1 : s[i] = w.array[i - 1]
    BY <1>1, ElementsIs
  <1>5. /\ Elements(v) \in Seq(S) /\ Len(Elements(v)) = v.size
        /\ \A i \in 1..v.size : Elements(v)[i] = v.array[i - 1]
    BY ElementsIs
  <1>6. t \in Seq(S) /\ Len(t) = v.size + 1
    BY <1>3, <1>5
  <1>7. ASSUME NEW i \in 1..v.size + 1 PROVE s[i] = t[i]
    <2>1. CASE i = v.size + 1
      BY <1>2, <1>4, <1>5, <2>1
    <2>2. CASE i # v.size + 1
      <3>1. i \in 1..v.size /\ i - 1 \in 0..v.size - 1
        BY <1>2, <2>2
      <3>2. t[i] = Elements(v)[i]
        BY <1>5, <3>1
      <3>3. QED BY <1>1, <1>4, <1>5, <3>1, <3>2
    <2>3. QED BY <2>1, <2>2
  <1> HIDE DEF s, t, e
  <1>8. s = t
    BY <1>4, <1>6, <1>7, SeqEqual
  <1>9. QED BY <1>3, <1>8 DEF s, t, w

\* An inserted element is the new last one.
LEMMA InsertAppends ==
    ASSUME NEW S, Unwritten \in S, NEW v, IsVector(v, S), NEW e \in S
    PROVE  LET w == vector_insert(v, e)
           IN /\ IsVector(w, S) /\ Elements(w) = Append(Elements(v), e)
              /\ w.size = v.size + 1
              /\ \A i \in 0..v.size - 1 : w.array[i] = v.array[i]
              /\ \/ w.block = v.block /\ w.capcity = v.capcity
                 \/ w.block = v.block + 1 /\ v.size = v.capcity
              /\ w.capcity >= v.capcity
  <1> DEFINE p == vector_prefetch(v)
             w == vector_insert(v, e)
             s == Elements(w)
             t == Append(Elements(v), e)
             n == v.size
  <1>1. /\ IsVector(p, S) /\ p.size = n + 1
        /\ \A i \in 0..n - 1 : p.array[i] = v.array[i]
        /\ \/ p.block = v.block /\ p.capcity = v.capcity
           \/ p.block = v.block + 1 /\ v.size = v.capcity
        /\ p.capcity >= v.capcity
    BY Prefetched
  <1>2. w = Put(p, n, e)
    BY DEF vector_insert
  <1> HIDE DEF p, w
  <1>3. n \in Nat /\ p.capcity \in Nat /\ n \in 0..p.capcity - 1
    BY <1>1, VectorParts
  <1>4. /\ IsVector(w, S) /\ w.size = n + 1 /\ w.block = p.block
        /\ w.capcity = p.capcity /\ w.array[n] = e
        /\ \A i \in 0..p.capcity - 1 : i # n => w.array[i] = p.array[i]
    BY <1>1, <1>2, <1>3, PutElement
  <1>5. \A i \in 0..n - 1 : w.array[i] = v.array[i]
    BY <1>1, <1>3, <1>4
  <1>6. /\ s \in Seq(S) /\ Len(s) = n + 1
        /\ \A i \in 1..n + 1 : s[i] = w.array[i - 1]
    BY <1>4, ElementsIs
  <1>7. /\ Elements(v) \in Seq(S) /\ Len(Elements(v)) = n
        /\ \A i \in 1..n : Elements(v)[i] = v.array[i - 1]
    BY ElementsIs
  <1>8. t \in Seq(S) /\ Len(t) = n + 1
    BY <1>7
  <1>9. ASSUME NEW i \in 1..n + 1 PROVE s[i] = t[i]
    <2>1. CASE i = n + 1
      BY <1>3, <1>4, <1>6, <1>7, <2>1
    <2>2. CASE i # n + 1
      <3>1. i \in 1..n /\ i - 1 \in 0..n - 1
        BY <1>3, <2>2
      <3>2. t[i] = Elements(v)[i]
        BY <1>7, <3>1
      <3>3. QED BY <1>5, <1>6, <1>7, <3>1, <3>2
    <2>3. QED BY <2>1, <2>2
  <1> HIDE DEF s, t
  <1>10. s = t
    BY <1>6, <1>8, <1>9, SeqEqual
  <1>11. QED BY <1>1, <1>4, <1>5, <1>10 DEF s, t, w

\* vector_reset makes the list empty.
LEMMA ResetVector ==
    ASSUME NEW S, NEW v, IsVector(v, S)
    PROVE  LET w == vector_reset(v)
           IN /\ IsVector(w, S) /\ Elements(w) = <<>>
              /\ w.block = v.block /\ w.capcity = v.capcity
  <1> DEFINE w == vector_reset(v)
  <1>1. /\ v.block \in Nat /\ v.capcity \in Nat
        /\ v.array \in [0..v.capcity - 1 -> S]
    BY VectorParts
  <1>2. w = [array |-> v.array, block |-> v.block, capcity |-> v.capcity,
             size |-> 0]
    BY DEF IsVector, vector_reset
  <1> HIDE DEF w
  <1>3. IsVector(w, S) /\ w.size = 0
    BY <1>1, <1>2, VectorMade
  <1>4. Elements(w) \in Seq(S) /\ Len(Elements(w)) = 0
    BY <1>3, ElementsIs
  <1>5. QED BY <1>2, <1>3, <1>4 DEF w

-----------------------------------------------------------------------------
(* The vector with its pointer and its iterator.                            *)

Stored == Element \cup {Unwritten}

Iterators == [data : [block : Nat, at : Nat], index : Nat]

\* A pointer that is not stale points into the array.
PointerHeld(v, p) ==
    p # NoPtr => /\ p.block \in Nat /\ p.at \in Nat /\ p.block <= v.block
                 /\ p.block = v.block => p.at < v.capcity

\* An iterator has returned as many elements as it has moved, and it was asked
\* at least as often.
IteratorHeld(it, g) ==
    /\ g \in Seq(Stored)
    /\ it # NoPtr => /\ it \in Iterators
                     /\ it.data.at = Len(g) /\ it.data.at <= it.index

VInv ==
    /\ IsVector(vector, Stored)
    /\ PointerHeld(vector, ptr)
    /\ vectorState = "live" => IteratorHeld(itr, got)

\* A pointer survives what leaves the array or moves all of it.
LEMMA PointerStays ==
    ASSUME NEW v, NEW w, NEW p, PointerHeld(v, p),
           v.block \in Nat, v.capcity \in Nat, w.capcity \in Nat,
           \/ w.block = v.block /\ w.capcity = v.capcity
           \/ w.block = v.block + 1
    PROVE  PointerHeld(w, p)
  BY DEF PointerHeld

\* The pointer of a prefetch points into the array.
LEMMA PointerTaken ==
    ASSUME NEW v, v.block \in Nat, NEW i \in Nat, i < v.capcity
    PROVE  PointerHeld(v, PointerTo(v, i))
  BY DEF PointerHeld, PointerTo

\* A new vector is well-formed.
LEMMA VInitVInv == VectorInit => VInv
  <1>1. ASSUME VectorInit PROVE VInv
    <2>1. PICK c \in Capcities : vector = vector_new(c)
      BY <1>1 DEF VectorInit
    <2>2. c \in Nat /\ Unwritten \in Stored
      BY AtVectorAssumption DEF Stored
    <2>3. IsVector(vector, Stored)
      BY <2>1, <2>2, NewVector
    <2>4. PointerHeld(vector, ptr) /\ IteratorHeld(itr, got)
      BY <1>1 DEF VectorInit, PointerHeld, IteratorHeld
    <2>. QED  BY <2>3, <2>4 DEF VInv
  <1>. QED  BY <1>1

\* The call of an iterator that has an element left, and of one that has none.
LEMMA IteratorMoves ==
    ASSUME NEW S, NEW v, IsVector(v, S), NEW it \in Iterators
    PROVE  /\ NextIterator(v, it) \in Iterators
           /\ NextIterator(v, it).index = it.index + 1
           /\ HasNext(v, it) => NextIterator(v, it).data.at = it.data.at + 1
           /\ ~HasNext(v, it) => NextIterator(v, it).data.at = it.data.at
           /\ NextIterator(v, it).data.block = it.data.block
  <1>1. /\ it.index \in Nat /\ it.data \in [block : Nat, at : Nat]
    BY DEF Iterators
  <1>. DEFINE d == [it.data EXCEPT !.at = IF HasNext(v, it) THEN @ + 1 ELSE @]
  <1>2. /\ d \in [block : Nat, at : Nat] /\ d.block = it.data.block
        /\ HasNext(v, it) => d.at = it.data.at + 1
        /\ ~HasNext(v, it) => d.at = it.data.at
    BY <1>1
  <1>3. NextIterator(v, it) = [index |-> it.index + 1, data |-> d]
    BY DEF NextIterator
  <1>. HIDE DEF d
  <1>. QED  BY <1>1, <1>2, <1>3 DEF Iterators

\* What an iterator returns is the element whose place is the number of those
\* it returned before.
LEMMA Returned ==
    ASSUME NEW v, IsVector(v, Stored), NEW it \in Iterators, NEW g,
           it # NoPtr, IteratorHeld(it, g), HasNext(v, it)
    PROVE  /\ v.array[it.data.at] \in Stored
           /\ Len(g) + 1 \in 1..v.size /\ it.data.at = Len(g)
           /\ Elements(v)[Len(g) + 1] = v.array[it.data.at]
  <1>1. /\ Len(g) \in Nat /\ it.data.at = Len(g) /\ Len(g) <= it.index
        /\ it.index \in Nat
    BY DEF IteratorHeld, Iterators
  <1>2. v.size \in Nat /\ \A i \in 0..v.size - 1 : v.array[i] \in Stored
    BY VectorParts
  <1>3. Len(g) \in 0..v.size - 1 /\ Len(g) + 1 \in 1..v.size
    BY <1>1, <1>2 DEF HasNext
  <1>4. Elements(v)[Len(g) + 1] = v.array[Len(g) + 1 - 1]
    BY <1>3, ElementsIs
  <1>5. Len(g) + 1 - 1 = Len(g)
    BY <1>1
  <1>. QED  BY <1>1, <1>2, <1>3, <1>4, <1>5

\* Every call leaves a well-formed vector, pointer and iterator.
LEMMA VectorStepKeeps == VInv /\ [VectorNext]_vectorVars => VInv'
  <1>. SUFFICES ASSUME VInv, [VectorNext]_vectorVars PROVE VInv'
    OBVIOUS
  <1>0. /\ IsVector(vector, Stored) /\ PointerHeld(vector, ptr)
        /\ Unwritten \in Stored
    BY DEF VInv, Stored
  <1>p. /\ vector.block \in Nat /\ vector.capcity \in Nat /\ vector.size \in Nat
        /\ vector.size <= vector.capcity
    BY <1>0, VectorParts
  <1>1. CASE UNCHANGED vectorVars
    BY <1>1 DEF VInv, vectorVars
  <1>2. ASSUME NEW e \in Element, vectorState = "live", Insert(e) PROVE VInv'
    <2>1. /\ vector' = vector_insert(vector, e) /\ e \in Stored
          /\ ptr' = ptr /\ itr' = itr /\ got' = got
      BY <1>2 DEF Insert, Stored
    <2>2. /\ IsVector(vector', Stored)
          /\ \/ vector'.block = vector.block /\ vector'.capcity = vector.capcity
             \/ vector'.block = vector.block + 1
      BY <1>0, <2>1, InsertAppends
    <2>3. vector'.capcity \in Nat
      BY <2>2, VectorParts
    <2>4. PointerHeld(vector', ptr)
      BY <1>0, <1>p, <2>2, <2>3, PointerStays
    <2>. QED  BY <1>2, <2>1, <2>2, <2>4 DEF VInv
  <1>3. ASSUME vectorState = "live", Prefetch PROVE VInv'
    <2>1. /\ vector' = vector_prefetch(vector)
          /\ ptr' = PointerTo(vector', vector.size)
          /\ itr' = itr /\ got' = got
      BY <1>3 DEF Prefetch
    <2>2. IsVector(vector', Stored) /\ vector'.size = vector.size + 1
      BY <1>0, <2>1, Prefetched
    <2>3. vector'.block \in Nat /\ vector.size < vector'.capcity
      <3>1. /\ vector'.block \in Nat /\ vector'.capcity \in Nat
            /\ vector'.size <= vector'.capcity
        BY <2>2, VectorParts
      <3>. QED  BY <1>p, <2>2, <3>1
    <2>4. PointerHeld(vector', ptr')
      BY <1>p, <2>1, <2>3, PointerTaken
    <2>. QED  BY <1>3, <2>1, <2>2, <2>4 DEF VInv
  <1>4. ASSUME NEW i \in -1..MaxElements, vectorState = "live", Get(i)
        PROVE  VInv'
    <2>1. vector' = vector /\ itr' = itr /\ got' = got
      BY <1>4 DEF Get
    <2>2. CASE i >= vector.size \/ i < 0
      BY <1>4, <2>1, <2>2 DEF Get, VInv, PointerHeld
    <2>3. CASE ~(i >= vector.size \/ i < 0)
      <3>1. i \in Nat /\ i < vector.capcity
        BY <1>p, <2>3, AtVectorAssumption
      <3>2. PointerHeld(vector, PointerTo(vector, i))
        BY <1>p, <3>1, PointerTaken
      <3>. QED  BY <1>4, <2>1, <2>3, <3>2 DEF Get, VInv
    <2>. QED  BY <2>2, <2>3
  <1>5. ASSUME NEW e \in Element, vectorState = "live", Write(e) PROVE VInv'
    <2>1. ptr # NoPtr /\ ptr' = ptr /\ itr' = itr /\ got' = got
      BY <1>5 DEF Write
    <2>2. CASE Stale(ptr)
      BY <1>5, <2>1, <2>2 DEF Write, VInv
    <2>3. CASE ~Stale(ptr)
      <3>1. vector' = Put(vector, ptr.at, e) /\ vectorState' = vectorState
        BY <1>5, <2>3 DEF Write
      <3>2. ptr.at \in 0..vector.capcity - 1 /\ e \in Stored
        BY <1>0, <1>p, <2>1, <2>3 DEF Stale, PointerHeld, Stored
      <3>3. /\ IsVector(vector', Stored) /\ vector'.block = vector.block
            /\ vector'.capcity = vector.capcity
        BY <1>0, <3>1, <3>2, PutElement
      <3>4. PointerHeld(vector', ptr)
        BY <1>0, <1>p, <3>3, PointerStays
      <3>. QED  BY <2>1, <3>1, <3>3, <3>4 DEF VInv
    <2>. QED  BY <2>2, <2>3
  <1>6. ASSUME vectorState = "live", Iterate PROVE VInv'
    <2>1. /\ vector' = vector /\ ptr' = ptr /\ got' = <<>>
          /\ itr' = [data |-> [block |-> vector.block, at |-> 0], index |-> 0]
      BY <1>6 DEF Iterate, vector_iterate, PointerTo
    <2>2. IteratorHeld(itr', got')
      BY <1>p, <2>1 DEF IteratorHeld, Iterators
    <2>. QED  BY <2>1, <2>2 DEF VInv
  <1>7. ASSUME vectorState = "live", IteratorNext PROVE VInv'
    <2>1. /\ vector' = vector /\ ptr' = ptr /\ itr # NoPtr
          /\ itr' = NextIterator(vector, itr)
      BY <1>7 DEF IteratorNext
    <2>2. IteratorHeld(itr, got)
      BY <1>7 DEF VInv
    <2>3. /\ itr \in Iterators /\ got \in Seq(Stored) /\ itr.index \in Nat
          /\ itr.data.at = Len(got) /\ itr.data.at <= itr.index
      BY <2>1, <2>2 DEF IteratorHeld, Iterators
    <2>4. CASE ~HasNext(vector, itr)
      <3>1. got' = got /\ vectorState' = vectorState
        BY <1>7, <2>4 DEF IteratorNext
      <3>2. /\ itr' \in Iterators /\ itr'.index = itr.index + 1
            /\ itr'.data.at = itr.data.at
        BY <1>0, <2>1, <2>3, <2>4, IteratorMoves
      <3>3. IteratorHeld(itr', got')
        BY <2>3, <3>1, <3>2 DEF IteratorHeld
      <3>. QED  BY <2>1, <3>3 DEF VInv
    <2>5. CASE HasNext(vector, itr) /\ Stale(itr.data)
      BY <1>7, <2>1, <2>5 DEF IteratorNext, VInv
    <2>6. CASE HasNext(vector, itr) /\ ~Stale(itr.data)
      <3>1. got' = Append(got, vector.array[itr.data.at])
        BY <1>7, <2>6 DEF IteratorNext
      <3>2. vector.array[itr.data.at] \in Stored
        BY <1>0, <2>1, <2>2, <2>3, <2>6, Returned
      <3>3. /\ itr' \in Iterators /\ itr'.index = itr.index + 1
            /\ itr'.data.at = itr.data.at + 1
        BY <1>0, <2>1, <2>3, <2>6, IteratorMoves
      <3>4. got' \in Seq(Stored) /\ Len(got') = Len(got) + 1
        BY <2>3, <3>1, <3>2
      <3>5. IteratorHeld(itr', got')
        BY <2>3, <3>3, <3>4 DEF IteratorHeld
      <3>. QED  BY <2>1, <3>5 DEF VInv
    <2>. QED  BY <2>4, <2>5, <2>6
  <1>8. ASSUME vectorState = "live", VectorReset PROVE VInv'
    <2>1. /\ vector' = vector_reset(vector) /\ ptr' = ptr
          /\ itr' = NoPtr /\ got' = <<>>
      BY <1>8 DEF VectorReset
    <2>2. /\ IsVector(vector', Stored) /\ vector'.block = vector.block
          /\ vector'.capcity = vector.capcity
      BY <1>0, <2>1, ResetVector
    <2>3. PointerHeld(vector', ptr)
      BY <1>0, <1>p, <2>2, PointerStays
    <2>4. IteratorHeld(itr', got')
      BY <2>1 DEF IteratorHeld
    <2>. QED  BY <2>1, <2>2, <2>3, <2>4 DEF VInv
  <1>9. CASE vectorState = "live" /\ VectorFree
    BY <1>9 DEF VectorFree, VInv
  <1>. QED  BY <1>1, <1>2, <1>3, <1>4, <1>5, <1>6, <1>7, <1>8, <1>9
           DEF VectorNext, VectorOver

\* The vector is well-formed at every moment.
LEMMA AlwaysVInv == VectorSpec => []VInv
  BY VInitVInv, VectorStepKeeps, PTL DEF VectorSpec

-----------------------------------------------------------------------------

AList == IF vectorState # "freed" THEN Elements(vector) ELSE <<>>

\* A write behind the last element shows nowhere; any other overwrites one.
LEMMA PutOverwrites ==
    ASSUME NEW S, NEW v, IsVector(v, S), NEW i \in 0..v.capcity - 1, NEW e \in S
    PROVE  \/ Elements(Put(v, i, e)) = Elements(v)
           \/ /\ i + 1 \in DOMAIN Elements(v)
              /\ Elements(Put(v, i, e)) = [Elements(v) EXCEPT ![i + 1] = e]
  <1> DEFINE w == Put(v, i, e)
             s == Elements(w)
             o == Elements(v)
             t == [o EXCEPT ![i + 1] = e]
  <1>1. /\ IsVector(w, S) /\ w.size = v.size /\ w.array[i] = e
        /\ \A j \in 0..v.capcity - 1 : j # i => w.array[j] = v.array[j]
    BY PutElement
  <1> HIDE DEF w
  <1>2. v.size \in Nat /\ v.capcity \in Nat /\ v.size <= v.capcity
    BY VectorParts
  <1>3. /\ s \in Seq(S) /\ Len(s) = v.size
        /\ \A j \in 1..v.size : s[j] = w.array[j - 1]
    BY <1>1, ElementsIs
  <1>4. /\ o \in Seq(S) /\ Len(o) = v.size /\ DOMAIN o = 1..v.size
        /\ \A j \in 1..v.size : o[j] = v.array[j - 1]
    BY ElementsIs
  <1> HIDE DEF s, o
  <1>5. ASSUME NEW j \in 1..v.size, j # i + 1 PROVE s[j] = o[j]
    <2>1. j - 1 \in 0..v.capcity - 1 /\ j - 1 # i
      BY <1>2, <1>5
    <2>2. QED BY <1>1, <1>3, <1>4, <2>1
  <1>6. CASE i >= v.size
    <2>1. \A j \in 1..v.size : j # i + 1
      BY <1>2, <1>6
    <2>2. s = o
      BY <1>3, <1>4, <1>5, <2>1, SeqEqual
    <2>3. QED BY <2>2 DEF s, o, w
  <1>7. CASE i < v.size
    <2>1. i + 1 \in 1..v.size /\ i + 1 - 1 = i
      BY <1>2, <1>7
    <2>2. t \in Seq(S) /\ Len(t) = v.size
      BY <1>4, <2>1, ExceptSeq
    <2>3. ASSUME NEW j \in 1..v.size PROVE s[j] = t[j]
      <3>1. CASE j = i + 1
        BY <1>1, <1>3, <1>4, <2>1, <3>1
      <3>2. CASE j # i + 1
        BY <1>4, <1>5, <3>2
      <3>3. QED BY <3>1, <3>2
    <2> HIDE DEF t
    <2>4. s = t
      BY <1>3, <2>2, <2>3, SeqEqual
    <2>5. QED BY <1>4, <2>1, <2>4 DEF s, o, w, t
  <1>8. QED BY <1>2, <1>6, <1>7

\* A new vector is a new list.
LEMMA VectorInitMaps == VectorInit => AbstractList!Init
  <1>. SUFFICES ASSUME VectorInit PROVE AList = <<>> /\ vectorState # "freed"
    BY DEF AbstractList!Init, AList
  <1>1. PICK c \in Capcities : vector = vector_new(c)
    BY DEF VectorInit
  <1>2. c \in Nat /\ Unwritten \in Stored
    BY AtVectorAssumption DEF Stored
  <1>3. Elements(vector) = <<>>
    BY <1>1, <1>2, NewVector
  <1>. QED  BY <1>3 DEF VectorInit, AList

\* Every call is a step of the list, or one that leaves it as it is.
LEMMA VectorStepMaps ==
    VInv /\ [VectorNext]_vectorVars => [AbstractList!Next]_(AbstractList!vars)
  <1>. DEFINE open == vectorState # "freed"
  <1>. SUFFICES ASSUME VInv, [VectorNext]_vectorVars
                PROVE  \/ AList' = AList /\ open' = open
                       \/ \E e \in Stored : /\ open /\ open' = open
                                            /\ AList' = Append(AList, e)
                       \/ \E i \in DOMAIN AList, e \in Element :
                            /\ open /\ open' = open
                            /\ AList' = [AList EXCEPT ![i] = e]
                       \/ open /\ open' = open /\ AList' = <<>>
                       \/ open /\ open' = FALSE /\ AList' = <<>>
    BY DEF AbstractList!Next, AbstractList!vars, AbstractList!AddAtEnd,
           AbstractList!Overwrite, AbstractList!Clear, AbstractList!Dispose,
           AList, Stored
  <1>0. /\ IsVector(vector, Stored) /\ PointerHeld(vector, ptr)
        /\ Unwritten \in Stored
    BY DEF VInv, Stored
  <1>e. Elements(vector)' = Elements(vector')
    BY DEF Elements
  <1>u. ASSUME vector' = vector, open' = open PROVE AList' = AList
    BY <1>u, <1>e DEF AList
  <1>1. CASE UNCHANGED vectorVars
    BY <1>1, <1>u DEF vectorVars
  <1>2. ASSUME NEW e \in Element, vectorState = "live", Insert(e)
        PROVE  /\ e \in Stored /\ open /\ open' = open
               /\ AList' = Append(AList, e)
    <2>1. /\ vector' = vector_insert(vector, e) /\ e \in Stored
          /\ vectorState' = vectorState
      BY <1>2 DEF Insert, Stored
    <2>2. Elements(vector') = Append(Elements(vector), e)
      BY <1>0, <2>1, InsertAppends
    <2>. QED  BY <1>2, <1>e, <2>1, <2>2 DEF AList
  <1>3. ASSUME vectorState = "live", Prefetch
        PROVE  \E e \in Stored : /\ open /\ open' = open
                                 /\ AList' = Append(AList, e)
    <2>1. vector' = vector_prefetch(vector) /\ vectorState' = vectorState
      BY <1>3 DEF Prefetch
    <2>2. PICK e \in Stored : Elements(vector') = Append(Elements(vector), e)
      BY <1>0, <2>1, PrefetchAppends
    <2>. QED  BY <1>3, <1>e, <2>1, <2>2 DEF AList
  <1>4. ASSUME NEW i, Get(i) PROVE AList' = AList /\ open' = open
    BY <1>4, <1>u DEF Get
  <1>5. ASSUME NEW e \in Element, vectorState = "live", Write(e)
        PROVE  /\ open /\ open' = open
               /\ \/ AList' = AList
                  \/ \E i \in DOMAIN AList : AList' = [AList EXCEPT ![i] = e]
    <2>1. CASE Stale(ptr)
      <3>1. vector' = vector /\ open /\ open' = open
        BY <1>5, <2>1 DEF Write
      <3>. QED  BY <1>u, <3>1
    <2>2. CASE ~Stale(ptr)
      <3>1. ptr # NoPtr /\ vector' = Put(vector, ptr.at, e)
            /\ vectorState' = vectorState
        BY <1>5, <2>2 DEF Write
      <3>2. ptr.at \in 0..vector.capcity - 1 /\ e \in Stored
        <4>1. vector.capcity \in Nat
          BY <1>0, VectorParts
        <4>. QED  BY <1>0, <2>2, <3>1, <4>1 DEF Stale, PointerHeld, Stored
      <3>3. \/ Elements(vector') = Elements(vector)
            \/ /\ ptr.at + 1 \in DOMAIN Elements(vector)
               /\ Elements(vector') = [Elements(vector) EXCEPT ![ptr.at + 1] = e]
        BY <1>0, <3>1, <3>2, PutOverwrites
      <3>. QED  BY <1>5, <1>e, <3>1, <3>3 DEF AList
    <2>. QED  BY <2>1, <2>2
  <1>6. ASSUME Iterate PROVE AList' = AList /\ open' = open
    BY <1>6, <1>u DEF Iterate
  <1>7. ASSUME vectorState = "live", IteratorNext
        PROVE  AList' = AList /\ open' = open
    <2>1. vector' = vector
      BY <1>7 DEF IteratorNext
    <2>2. vectorState' = vectorState \/ vectorState' = "stale"
      BY <1>7 DEF IteratorNext
    <2>. QED  BY <1>7, <1>u, <2>1, <2>2
  <1>8. ASSUME vectorState = "live", VectorReset
        PROVE  open /\ open' = open /\ AList' = <<>>
    <2>1. vector' = vector_reset(vector) /\ vectorState' = vectorState
      BY <1>8 DEF VectorReset
    <2>2. Elements(vector') = <<>>
      BY <1>0, <2>1, ResetVector
    <2>. QED  BY <1>8, <1>e, <2>1, <2>2 DEF AList
  <1>9. ASSUME vectorState = "live", VectorFree
        PROVE  open /\ open' = FALSE /\ AList' = <<>>
    BY <1>9 DEF VectorFree, AList
  <1>. QED  BY <1>1, <1>2, <1>3, <1>4, <1>5, <1>6, <1>7, <1>8, <1>9
           DEF VectorNext, VectorOver

\* For all elements and capacities, the growing array is a list: growth keeps
\* every element at its index, and a write through a good pointer changes one.
THEOREM VectorIsList == VectorSpec => ImplementsList
  BY VectorInitMaps, VectorStepMaps, AlwaysVInv, PTL
  DEF VectorSpec, ImplementsList, AbstractList!Spec

-----------------------------------------------------------------------------

\* Every call keeps the iterator in step with the list.
LEMMA StepIterates ==
    VInv /\ [VectorNext]_vectorVars =>
        (itr # NoPtr /\ itr' = NextIterator(vector, itr) /\ vectorState' = "live" =>
            IF got' # got
            THEN got'[Len(got')] = Elements(vector)[Len(got')]
            ELSE vector.size - Len(got) <= itr.index - itr.data.at)
  <1>. SUFFICES ASSUME VInv, [VectorNext]_vectorVars, itr # NoPtr,
                       itr' = NextIterator(vector, itr), vectorState' = "live"
                PROVE  IF got' # got
                       THEN got'[Len(got')] = Elements(vector)[Len(got')]
                       ELSE vector.size - Len(got) <= itr.index - itr.data.at
    OBVIOUS
  <1>1. vectorState = "live"
    BY DEF VectorNext, VectorOver, vectorVars
  <1>2. IteratorHeld(itr, got) /\ IsVector(vector, Stored)
    BY <1>1 DEF VInv
  <1>3. /\ itr \in Iterators /\ got \in Seq(Stored) /\ itr.index \in Nat
        /\ itr.data.at = Len(got) /\ itr.data.at <= itr.index
    BY <1>2 DEF IteratorHeld, Iterators
  <1>4. itr' \in Iterators /\ itr'.index = itr.index + 1
    BY <1>2, <1>3, IteratorMoves
  <1>5. itr' # itr /\ itr'.index # 0 /\ itr' # NoPtr
    BY <1>3, <1>4, AtVectorAssumption DEF Iterators
  <1>6. IteratorNext
    BY <1>1, <1>5 DEF VectorNext, vectorVars, Insert, Prefetch, Get, Write,
       Iterate, vector_iterate, VectorReset, VectorFree, VectorOver
  <1>7. CASE ~HasNext(vector, itr)
    <2>1. got' = got
      BY <1>6, <1>7 DEF IteratorNext
    <2>2. vector.size \in Nat
      BY <1>2, VectorParts
    <2>. QED  BY <1>3, <1>7, <2>1, <2>2 DEF HasNext
  <1>8. CASE HasNext(vector, itr)
    <2>1. got' = Append(got, vector.array[itr.data.at])
      BY <1>6, <1>8 DEF IteratorNext
    <2>2. /\ vector.array[itr.data.at] \in Stored
          /\ Elements(vector)[Len(got) + 1] = vector.array[itr.data.at]
      BY <1>2, <1>3, <1>8, Returned
    <2>3. /\ Len(got') = Len(got) + 1
          /\ got'[Len(got) + 1] = vector.array[itr.data.at]
          /\ got' # got
      BY <1>3, <2>1, <2>2
    <2>. QED  BY <2>2, <2>3
  <1>. QED  BY <1>7, <1>8

\* However long the vector and however often it grows, the n-th element an
\* iterator returns is the n-th, and none is left out when it returns NULL.
THEOREM IterationsAgree == VectorSpec => IterationExact
  BY StepIterates, AlwaysVInv, PTL DEF VectorSpec, IterationExact

-----------------------------------------------------------------------------
(* The stack.                                                               *)

OrNull == Pointer \cup {Null}

\* cursor and size move together, so the slots in use are those below size.
StackIInv == StackTypeOK /\ CursorAgrees

\* The capacity grows, so a full array has room after it.
LEMMA Grows ==
    ASSUME StackTypeOK
    PROVE  new_cap \in Nat /\ new_cap > capcity
  BY DEF StackTypeOK, new_cap

\* A grown array keeps its slots.
LEMMA ReallocatedType ==
    ASSUME StackTypeOK
    PROVE  /\ Reallocated \in [0..new_cap - 1 -> OrNull \cup {Unset}]
           /\ \A i \in 0..capcity - 1 : Reallocated[i] = array[i]
  BY Grows DEF StackTypeOK, Reallocated, OrNull

\* A new stack has the inductive invariant.
LEMMA StackInitIInv == StackInit => StackIInv
  BY StackAssumption DEF StackInit, StackIInv, StackTypeOK, CursorAgrees

\* Every step keeps it.
LEMMA StackStepIInv == StackIInv /\ [StackNext]_stackVars => StackIInv'
  <1> SUFFICES ASSUME StackIInv, [StackNext]_stackVars PROVE StackIInv'
    OBVIOUS
  <1> USE StackAssumption DEF StackIInv, StackTypeOK, CursorAgrees, OrNull
  <1>1. ASSUME NEW n \in OrNull, Push(n) PROVE StackIInv'
    BY <1>1 DEF Push
  <1>2. ASSUME NEW n \in OrNull, PushExpand(n) PROVE StackIInv'
    BY <1>2, Grows, ReallocatedType DEF PushExpand
  <1>3. CASE Pop
    <2>1. array[cursor] \in OrNull
      BY <1>3 DEF Pop
    <2>2. QED BY <1>3, <2>1 DEF Pop
  <1>4. CASE PopNothing
    BY <1>4 DEF PopNothing
  <1>5. CASE StackFree
    BY <1>5 DEF StackFree
  <1>6. CASE UNCHANGED stackVars
    BY <1>6 DEF stackVars
  <1>7. QED
    BY <1>1, <1>2, <1>3, <1>4, <1>5, <1>6 DEF StackNext, StackFreeAgain, OrNull

\* Every reachable state has it.
LEMMA AlwaysStackIInv == StackSpec => []StackIInv
  BY StackInitIInv, StackStepIInv, PTL DEF StackSpec

\* cursor, size and capcity stay in range, and every pop returns a pointer
\* that was pushed or NULL.
THEOREM StackTypeCorrect == StackSpec => []StackTypeOK
  BY AlwaysStackIInv, PTL DEF StackIInv

\* cursor is size - 1 and every slot below it was written.
THEOREM CursorCorrect == StackSpec => []CursorAgrees
  BY AlwaysStackIInv, PTL DEF StackIInv

-----------------------------------------------------------------------------
(* The array with its cursor implements Lifo.                               *)

Items == [i \in 1..size |-> array[i - 1]]

\* Every slot below size holds a pointer that was pushed.
AllInUse == \A i \in 1..size : array[i - 1] \in OrNull

\* ... which the invariant gives before a step and after it.
LEMMA InUse == (StackIInv => AllInUse) /\ (StackIInv' => AllInUse')
  <1>1. StackIInv => AllInUse
    BY DEF StackIInv, StackTypeOK, CursorAgrees, OrNull, AllInUse
  <1>2. QED BY <1>1, PTL

\* The pushed pointers, as a sequence.
LEMMA ItemsType ==
    ASSUME StackIInv
    PROVE  Items \in Seq(OrNull) /\ Len(Items) = size
  BY InUse DEF AllInUse, Items, StackIInv, StackTypeOK

\* A step that keeps the slots in use and writes n above them.
LEMMA PushMaps ==
    ASSUME StackIInv, StackIInv', NEW n \in OrNull, size' = size + 1, array'[size] = n,
           \A i \in 0..size - 1 : array'[i] = array[i]
    PROVE  Items' = Append(Items, n)
  <1>1. Items \in Seq(OrNull) /\ Len(Items) = size /\ size \in Nat
    BY ItemsType DEF StackIInv, StackTypeOK
  <1>2. /\ Append(Items, n) \in Seq(OrNull) /\ Len(Append(Items, n)) = size + 1
        /\ \A i \in 1..size : Append(Items, n)[i] = Items[i]
        /\ Append(Items, n)[size + 1] = n
    BY <1>1
  <1>3. \A i \in 1..size + 1 : Items'[i] = Append(Items, n)[i]
    <2> SUFFICES ASSUME NEW i \in 1..size + 1
                 PROVE  Items'[i] = Append(Items, n)[i]
      OBVIOUS
    <2>1. Items'[i] = array'[i - 1]
      BY DEF Items
    <2>2. CASE i <= size
      <3>1. i \in 1..size /\ i - 1 \in 0..size - 1 /\ Items[i] = array[i - 1]
        BY <2>2 DEF Items, StackIInv, StackTypeOK
      <3>2. QED BY <1>2, <2>1, <3>1
    <2>3. CASE i = size + 1
      <3>1. i - 1 = size
        BY <1>1, <2>3
      <3>2. QED BY <1>2, <2>1, <2>3, <3>1
    <2>4. QED BY <1>1, <2>2, <2>3
  <1>4. \A i \in 1..size' : array'[i - 1] \in OrNull
    BY InUse DEF AllInUse
  <1>5. Items' \in Seq(OrNull) /\ Len(Items') = size + 1
    BY <1>1, <1>4 DEF Items
  <1>6. QED BY <1>2, <1>3, <1>5, SeqEqual

\* Every step of the array is a step of the stack, or none.
LEMMA StackStepMaps ==
    ASSUME StackIInv, StackIInv', [StackNext]_stackVars
    PROVE  [AbstractStack!Next]_(AbstractStack!vars)
  <1>0. Items \in Seq(OrNull) /\ Len(Items) = size
    BY ItemsType
  <1>1. ASSUME NEW n \in OrNull, Push(n) PROVE AbstractStack!Put(n)
    <2>1. Items' = Append(Items, n)
      BY <1>1, PushMaps DEF Push, StackIInv, StackTypeOK, CursorAgrees
    <2>2. QED BY <1>1, <2>1 DEF Push, AbstractStack!Put, Items
  <1>2. ASSUME NEW n \in OrNull, PushExpand(n) PROVE AbstractStack!Put(n)
    <2>1. Items' = Append(Items, n)
      BY <1>2, Grows, ReallocatedType, PushMaps
      DEF PushExpand, StackIInv, StackTypeOK, CursorAgrees
    <2>2. QED BY <1>2, <2>1 DEF PushExpand, AbstractStack!Put, Items
  <1>3. ASSUME Pop PROVE AbstractStack!Get
    <2>1. Items # <<>> /\ Items[Len(Items)] = array[cursor]
      BY <1>0, <1>3 DEF Pop, Items, StackIInv, StackTypeOK, CursorAgrees
    <2>2. Items' = SubSeq(Items, 1, Len(Items) - 1)
      BY <1>0, <1>3 DEF Pop, Items, StackIInv, StackTypeOK, CursorAgrees
    <2>3. QED BY <1>3, <2>1, <2>2 DEF Pop, AbstractStack!Get, Items
  <1>4. ASSUME PopNothing PROVE AbstractStack!GetNothing
    <2>1. Items = <<>> /\ Items' = Items
      BY <1>0, <1>4 DEF PopNothing, Items
    <2>2. QED BY <1>4, <2>1 DEF PopNothing, AbstractStack!GetNothing, Items
  <1>5. ASSUME StackFree \/ UNCHANGED stackVars PROVE UNCHANGED AbstractStack!vars
    BY <1>5 DEF StackFree, stackVars, AbstractStack!vars
  <1>6. QED
    BY <1>1, <1>2, <1>3, <1>4, <1>5
    DEF StackNext, StackFreeAgain, AbstractStack!Next, OrNull

\* A growing array with a cursor, from a capacity of zero on, is a last-in
\* first-out stack.
THEOREM StackIsLifo == StackSpec => ImplementsLifo
  <1>1. StackInit => AbstractStack!Init
    BY StackAssumption DEF StackInit, AbstractStack!Init
  <1>2. StackIInv /\ StackIInv' /\ [StackNext]_stackVars
          => [AbstractStack!Next]_(AbstractStack!vars)
    BY StackStepMaps
  <1>3. QED
    BY <1>1, <1>2, AlwaysStackIInv, PTL
    DEF StackSpec, ImplementsLifo, AbstractStack!Spec
=============================================================================
