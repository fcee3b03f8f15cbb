--------------------------- MODULE MemPoolProofs ----------------------------
(***************************************************************************)
(* Proofs about MemPool for every capacity, every size of a header and all *)
(* sizes of requests.                                                      *)
(***************************************************************************)
EXTENDS MemPool, WellFoundedInduction, TLAPS

-----------------------------------------------------------------------------
(* Least numbers, and induction over sets of numbers.                       *)

Less == {ss \in Nat \X Nat : ss[1] < ss[2]}

LEMMA LessWellFounded == IsWellFoundedOn(Less, Nat)
  BY NatLessThanWellFounded, Zenon DEF OpToRel, Less

\* A set of natural numbers that is not empty has a least element.
LEMMA LeastNumber ==
    ASSUME NEW S \in SUBSET Nat, S # {}
    PROVE  \E n \in S : \A m \in S : n <= m
  <1>1. PICK n \in S : \A m \in S : <<m, n>> \notin Less
    BY LessWellFounded, WFMin
  <1>2. ASSUME NEW m \in S, m < n PROVE FALSE
    <2>1. <<m, n>> \in Nat \X Nat /\ <<m, n>>[1] < <<m, n>>[2]
      BY <1>2
    <2>2. QED BY <1>1, <2>1 DEF Less
  <1>3. QED BY <1>2

\* A bounded one has a greatest.
LEMMA GreatestNumber ==
    ASSUME NEW S \in SUBSET Nat, S # {}, NEW b \in Nat, \A m \in S : m <= b
    PROVE  \E n \in S : \A m \in S : m <= n
  <1> DEFINE D == {b - m : m \in S}
  <1>1. ASSUME NEW m \in S PROVE b - m \in Nat
    OBVIOUS
  <1>2. D \in SUBSET Nat /\ D # {}
    BY <1>1
  <1>3. PICK d \in D : \A e \in D : d <= e
    <2> HIDE DEF D
    <2>1. QED BY <1>2, LeastNumber
  <1>4. PICK n \in S : d = b - n
    OBVIOUS
  <1>5. ASSUME NEW m \in S PROVE m <= n
    <2>1. b - n <= b - m
      BY <1>3, <1>4
    <2>2. QED BY <2>1
  <1>6. QED BY <1>5

\* A set with 0 that has the successor of each of its members has them all.
LEMMA SetInduction ==
    ASSUME NEW S \in SUBSET Nat, 0 \in S, \A n \in S : n + 1 \in S
    PROVE  S = Nat
  <1> SUFFICES ASSUME Nat \ S # {} PROVE FALSE
    OBVIOUS
  <1>1. PICK n \in Nat \ S : \A m \in Nat \ S : n <= m
    BY LeastNumber
  <1>2. n - 1 \in S
    BY <1>1
  <1>3. QED BY <1>1, <1>2

-----------------------------------------------------------------------------
(* The invariant.                                                           *)

Header == [end : Nat, prev : Int, next : Int]

Types ==
    /\ DOMAIN hdr \subseteq Nat
    /\ hdr \in [DOMAIN hdr -> Header]
    /\ \A p \in DOMAIN hdr : p + RESERVE_ALLOC_SIZE <= hdr[p].end
    /\ allocs \in Int /\ last_alloc \in Int /\ total_free \in Int
    /\ DOMAIN owned \subseteq Nat
    /\ owned \in [DOMAIN owned -> Nat]
    /\ refused \in Nat \cup {Null}

Sound == Types /\ BlocksApart

LEMMA Order ==
    ASSUME Sound, DOMAIN hdr # {}
    PROVE  /\ allocs \in DOMAIN hdr /\ last_alloc \in DOMAIN hdr
           /\ \A p \in DOMAIN hdr : allocs <= p /\ p <= last_alloc
           /\ \A p \in DOMAIN hdr \ {last_alloc} :
                 hdr[p].next \in DOMAIN hdr /\ p < hdr[p].next
           /\ \A p \in DOMAIN hdr : hdr[p].next = Null <=> p = last_alloc
           /\ \A p \in DOMAIN hdr : Length(p) \in Nat /\ Length(p) > 0
  <1> USE MemPoolAssumption DEF Sound, Types, Header
  <1>1. /\ allocs \in DOMAIN hdr /\ last_alloc \in DOMAIN hdr
        /\ hdr[last_alloc].next = -1
        /\ \A p \in DOMAIN hdr :
              /\ p \in Nat /\ allocs <= p
              /\ p # last_alloc => hdr[p].next \in DOMAIN hdr
              /\ \A q \in DOMAIN hdr : p < q => hdr[p].next \in p + 1..q
    BY DEF BlocksApart, Null
  <1>2. ASSUME NEW p \in DOMAIN hdr PROVE p <= last_alloc
    BY <1>1
  <1>3. ASSUME NEW p \in DOMAIN hdr \ {last_alloc}
        PROVE  hdr[p].next \in DOMAIN hdr /\ p < hdr[p].next
    <2>1. p \in Nat /\ last_alloc \in Nat
      BY <1>1
    <2>2. p < last_alloc
      BY <1>2, <2>1
    <2>3. QED BY <1>1, <2>1, <2>2
  <1>4. ASSUME NEW p \in DOMAIN hdr PROVE Length(p) \in Nat /\ Length(p) > 0
    BY DEF Length
  <1>5. QED BY <1>1, <1>2, <1>3, <1>4 DEF Null

LEMMA BeforeIs ==
    ASSUME Sound, NEW p \in DOMAIN hdr, p # allocs
    PROVE  /\ Before(p) \in DOMAIN hdr /\ hdr[Before(p)].next = p
           /\ Before(p) < p
           /\ \A q \in DOMAIN hdr : hdr[q].next = p => q = Before(p)
  <1> DEFINE Lower == {q \in DOMAIN hdr : q < p}
  <1>1. allocs \in Lower /\ Lower \subseteq Nat /\ p \in Nat
    BY Order DEF Sound, Types, Header
  <1>2. PICK b \in Lower : \A q \in Lower : q <= b
    <2>1. Lower \in SUBSET Nat /\ Lower # {} /\ \A q \in Lower : q <= p
      BY <1>1
    <2> HIDE DEF Lower
    <2>2. QED BY <1>1, <2>1, GreatestNumber
  <1> DEFINE Links == \A q, r \in DOMAIN hdr :
                        q < r => hdr[q].next \in q + 1..r
  <1>a. Links /\ DOMAIN hdr \subseteq Nat
    BY DEF Sound, Types, Header, BlocksApart
  <1>b. b \in DOMAIN hdr /\ b < p /\ b # last_alloc
    BY <1>a, Order
  <1>3. hdr[b].next = p
    <2>1. hdr[b].next \in DOMAIN hdr /\ hdr[b].next \in b + 1..p
      BY <1>a, <1>b, Order
    <2>2. hdr[b].next < p => hdr[b].next <= b
      BY <1>2, <2>1
    <2>3. QED BY <1>a, <2>1, <2>2
  <1>4. Before(p) \in DOMAIN hdr /\ hdr[Before(p)].next = p
    BY <1>3 DEF Before
  <1>5. ASSUME NEW q \in DOMAIN hdr, hdr[q].next = p PROVE q < p
    <2>1. q # last_alloc
      BY <1>5, Order, <1>a DEF Null
    <2>2. QED BY <1>5, <2>1, Order
  <1>6. ASSUME NEW q \in DOMAIN hdr, hdr[q].next = p PROVE q = Before(p)
    <2>1. q < p /\ Before(p) < p /\ Before(p) \in DOMAIN hdr
      BY <1>4, <1>5, <1>6
    <2>2. ~(q < Before(p)) /\ ~(Before(p) < q)
      BY <1>a, <1>4, <1>6, <2>1
    <2>3. QED BY <1>a, <2>1, <2>2
  <1>7. QED BY <1>4, <1>5, <1>6

LEMMA TargetIs ==
    ASSUME Sound
    PROVE  Target = [p \in DOMAIN hdr |->
                        IF p = allocs THEN 0
                        ELSE Target[Before(p)] + Length(Before(p))]
  <1> DEFINE Upto(n) == {p \in DOMAIN hdr : p <= n}
             Is(f, n) == f = [p \in Upto(n) |->
                                IF p = allocs THEN 0
                                ELSE f[Before(p)] + Length(Before(p))]
             Defined == {n \in Nat : \E f : Is(f, n)}
  <1>1. CASE DOMAIN hdr = {}
    <2>1. [p \in {} |-> 0] = [p \in DOMAIN hdr |->
                        IF p = allocs THEN 0
                        ELSE [q \in {} |-> 0][Before(p)] + Length(Before(p))]
      BY <1>1
    <2>2. QED BY <2>1 DEF Target
  <1>2. CASE DOMAIN hdr # {}
    <2>1. 0 \in Defined
      <3>1. \A p \in Upto(0) : p = allocs
        BY <1>2, Order DEF Sound, Types, Header, BlocksApart
      <3>2. Is([p \in Upto(0) |-> 0], 0)
        BY <3>1
      <3>3. QED BY <3>2
    <2>2. ASSUME NEW n \in Defined PROVE n + 1 \in Defined
      <3>1. PICK f : Is(f, n)
        OBVIOUS
      <3> DEFINE g == [p \in Upto(n + 1) |->
                         IF p = allocs THEN 0
                         ELSE f[Before(p)] + Length(Before(p))]
      <3>2. \A p \in Upto(n + 1) : p # allocs => Before(p) \in Upto(n)
        BY BeforeIs DEF Sound, Types, Header
      <3>3. \A p \in Upto(n) : p \in Upto(n + 1) /\ g[p] = f[p]
        <4>1. ASSUME NEW p \in Upto(n)
              PROVE  f[p] = IF p = allocs THEN 0
                            ELSE f[Before(p)] + Length(Before(p))
          BY <3>1
        <4>2. Upto(n) \subseteq Upto(n + 1)
          BY DEF Sound, Types, Header
        <4>3. QED BY <4>1, <4>2
      <3>4. Is(g, n + 1)
        BY <3>2, <3>3
      <3>5. n + 1 \in Nat
        OBVIOUS
      <3>6. QED BY <3>4, <3>5
    <2>3. Defined = Nat
      <3> HIDE DEF Defined
      <3>1. Defined \in SUBSET Nat
        BY DEF Defined
      <3>2. QED BY <2>1, <2>2, <3>1, SetInduction
    <2>4. PICK f : Is(f, last_alloc)
      BY <1>2, <2>3, Order DEF Sound, Types, Header
    <2>5. Upto(last_alloc) = DOMAIN hdr
      BY <1>2, Order
    <2>6. QED BY <2>4, <2>5 DEF Target
  <1>3. QED BY <1>1, <1>2

\* A block's target: no higher than the block, the first at 0 and each at the
\* end of the one before.
LEMMA TargetSound ==
    ASSUME Sound
    PROVE  /\ Target \in [DOMAIN hdr -> Nat]
           /\ DOMAIN hdr # {} => Target[allocs] = 0
           /\ \A p \in DOMAIN hdr \ {last_alloc} :
                 Target[hdr[p].next] = Target[p] + Length(p)
           /\ \A p \in DOMAIN hdr : Target[p] <= p
  <1> DEFINE Bad == {p \in DOMAIN hdr : ~(Target[p] \in Nat /\ Target[p] <= p)}
  <1>1. DOMAIN Target = DOMAIN hdr
    BY TargetIs
  <1>2. \A p \in DOMAIN hdr :
           Target[p] = IF p = allocs THEN 0
                       ELSE Target[Before(p)] + Length(Before(p))
    BY TargetIs
  <1>3. Bad = {}
    <2> SUFFICES ASSUME Bad # {} PROVE FALSE
      OBVIOUS
    <2>1. Bad \in SUBSET Nat
      BY DEF Sound, Types, Header
    <2>2. PICK p \in Bad : \A q \in Bad : p <= q
      <3> HIDE DEF Bad
      <3>1. QED BY <2>1, LeastNumber
    <2>3. p # allocs /\ p \in Nat
      BY <1>2, <2>1, <2>2
    <2> DEFINE b == Before(p)
    <2>4. b \in DOMAIN hdr /\ hdr[b].next = p /\ b < p
      BY <2>3, BeforeIs
    <2>5. Target[b] \in Nat /\ Target[b] <= b /\ b \in Nat
      BY <2>2, <2>4, <2>3 DEF Sound, Types, Header
    <2>6. hdr[b].end \in Nat /\ hdr[b].end <= p /\ Length(b) \in Nat
      <3>1. b # last_alloc
        BY <2>4, <2>3, Order DEF Null
      <3>2. QED BY <2>4, <3>1, Order DEF Sound, Types, Header, BlocksApart
    <2>7. Target[p] = Target[b] + Length(b)
      BY <1>2, <2>3
    <2>8. Target[b] + Length(b) \in Nat /\ Target[b] + Length(b) <= p
      BY <2>5, <2>6, <2>3 DEF Length
    <2>9. QED BY <2>7, <2>8, <2>2
  <1>4. DOMAIN hdr # {} => Target[allocs] = 0
    BY <1>2, Order
  <1>5. ASSUME NEW p \in DOMAIN hdr \ {last_alloc}
        PROVE  Target[hdr[p].next] = Target[p] + Length(p)
    <2>1. hdr[p].next \in DOMAIN hdr /\ p < hdr[p].next /\ allocs <= p
      BY Order
    <2>2. hdr[p].next # allocs
      BY <2>1, Order DEF Sound, Types, Header
    <2>3. p = Before(hdr[p].next)
      BY <2>1, <2>2, BeforeIs
    <2>4. QED BY <1>2, <2>1, <2>2, <2>3
  <1>6. Target = [p \in DOMAIN hdr |-> Target[p]]
    BY TargetIs
  <1>7. QED BY <1>3, <1>4, <1>5, <1>6

\* Blocks that do not overlap do not overlap at their targets either.
LEMMA TargetsApart ==
    ASSUME Sound, NEW p \in DOMAIN hdr, NEW q \in DOMAIN hdr, p < q
    PROVE  Target[p] + Length(p) <= Target[q]
  <1> DEFINE Bad == {r \in DOMAIN hdr :
                       p < r /\ ~(Target[p] + Length(p) <= Target[r])}
  <1> SUFFICES ASSUME Bad # {} PROVE FALSE
    OBVIOUS
  <1>1. Bad \in SUBSET Nat
    BY DEF Sound, Types, Header
  <1>2. PICK r \in Bad : \A x \in Bad : r <= x
    <2> HIDE DEF Bad
    <2>1. QED BY <1>1, LeastNumber
  <1> DEFINE b == Before(r)
  <1>3. r # allocs /\ r \in Nat /\ p \in Nat /\ r \in DOMAIN hdr /\ p < r
    BY <1>1, <1>2, Order DEF Sound, Types, Header
  <1>4. b \in DOMAIN hdr /\ hdr[b].next = r /\ b < r /\ b \in Nat
    BY <1>3, BeforeIs DEF Sound, Types, Header
  <1>5. p <= b
    <2>1. SUFFICES ASSUME b < p PROVE FALSE
      BY <1>3, <1>4
    <2>2. hdr[b].next \in b + 1..p
      BY <1>3, <1>4, <2>1 DEF Sound, BlocksApart
    <2>3. QED BY <1>3, <1>4, <2>2
  <1>6. Target[r] = Target[b] + Length(b)
    <2>1. b # last_alloc
      BY <1>3, <1>4, Order
    <2>2. QED BY <1>4, <2>1, TargetSound
  <1>7. /\ Target[p] \in Nat /\ Target[b] \in Nat /\ Target[r] \in Nat
        /\ Length(p) \in Nat /\ Length(b) \in Nat
    BY <1>3, <1>4, TargetSound, Order
  <1>8. CASE p = b
    BY <1>2, <1>6, <1>7, <1>8
  <1>9. CASE p < b
    <2>1. Target[p] + Length(p) <= Target[b]
      BY <1>2, <1>3, <1>4, <1>9
    <2>2. QED BY <1>2, <1>6, <1>7, <2>1
  <1>10. QED BY <1>3, <1>4, <1>5, <1>8, <1>9

\* Only Target places the blocks like that.
LEMMA TargetUnique ==
    ASSUME Sound, DOMAIN hdr # {}, NEW at, at[allocs] = 0,
           \A p \in DOMAIN hdr \ {last_alloc} :
              at[hdr[p].next] = at[p] + Length(p)
    PROVE  \A p \in DOMAIN hdr : at[p] = Target[p]
  <1> DEFINE Bad == {p \in DOMAIN hdr : at[p] # Target[p]}
  <1> SUFFICES ASSUME Bad # {} PROVE FALSE
    OBVIOUS
  <1>1. Bad \in SUBSET Nat
    BY DEF Sound, Types, Header
  <1>2. PICK p \in Bad : \A x \in Bad : p <= x
    <2> HIDE DEF Bad
    <2>1. QED BY <1>1, LeastNumber
  <1>3. p # allocs /\ p \in Nat /\ p \in DOMAIN hdr
    BY <1>1, <1>2, TargetSound
  <1>4. Before(p) \in DOMAIN hdr /\ hdr[Before(p)].next = p /\ Before(p) < p
    BY <1>3, BeforeIs
  <1>5. Before(p) # last_alloc /\ Before(p) \in Nat
    BY <1>3, <1>4, Order DEF Sound, Types, Header
  <1>6. at[p] = at[Before(p)] + Length(Before(p))
        /\ Target[p] = Target[Before(p)] + Length(Before(p))
    BY <1>4, <1>5, TargetSound
  <1>7. at[Before(p)] = Target[Before(p)]
    BY <1>2, <1>3, <1>4, <1>5
  <1>8. QED BY <1>2, <1>6, <1>7

\* What is known of Target, in one formula that can be primed.
TargetFacts ==
    /\ Target \in [DOMAIN hdr -> Nat]
    /\ DOMAIN hdr # {} => Target[allocs] = 0
    /\ \A p \in DOMAIN hdr \ {last_alloc} :
          Target[hdr[p].next] = Target[p] + Length(p)
    /\ \A p \in DOMAIN hdr : Target[p] <= p
    /\ \A p, q \in DOMAIN hdr : p < q => Target[p] + Length(p) <= Target[q]
    /\ \A at : /\ DOMAIN hdr # {} /\ at[allocs] = 0
               /\ \A p \in DOMAIN hdr \ {last_alloc} :
                     at[hdr[p].next] = at[p] + Length(p)
               => \A p \in DOMAIN hdr : at[p] = Target[p]

LEMMA SoundTarget == Sound => TargetFacts
  <1> SUFFICES ASSUME Sound PROVE TargetFacts
    OBVIOUS
  <1>1. ASSUME NEW at, DOMAIN hdr # {}, at[allocs] = 0,
               \A p \in DOMAIN hdr \ {last_alloc} :
                  at[hdr[p].next] = at[p] + Length(p)
        PROVE  \A p \in DOMAIN hdr : at[p] = Target[p]
    BY <1>1, TargetUnique
  <1>2. QED BY <1>1, TargetSound, TargetsApart DEF TargetFacts

LEMMA SoundTargetNext == Sound' => TargetFacts'
  BY SoundTarget, PTL

-----------------------------------------------------------------------------
(* Malloc.                                                                  *)

\* What the blocks would take together in a compressed pool.
Span == IF DOMAIN hdr = {} THEN 0 ELSE Target[last_alloc] + Length(last_alloc)

\* A new block at p, of n units and a header, behind block cur.
PlacedBehind(cur, p, n) ==
    /\ cur \in DOMAIN hdr /\ n \in Nat
    /\ p = hdr[cur].end
    /\ IF hdr[cur].next = Null THEN p + RealSize(n) <= Capacity
                               ELSE p + RealSize(n) <= hdr[cur].next
    /\ hdr' = Placed(p, n, cur, hdr[cur].next)
    /\ allocs' = allocs
    /\ last_alloc' = IF hdr[cur].next = Null THEN p ELSE last_alloc

\* The new table, header by header.
PlacedTable(cur, p, n) ==
    /\ p \in Nat /\ p \notin DOMAIN hdr /\ cur < p
    /\ \A q \in DOMAIN hdr : q < p <=> q <= cur
    /\ hdr[cur].next # Null =>
          hdr[cur].next \in DOMAIN hdr /\ p < hdr[cur].next
    /\ DOMAIN hdr' = DOMAIN hdr \cup {p}
    /\ hdr' \in [DOMAIN hdr' -> Header]
    /\ hdr'[p].end = p + RealSize(n) /\ hdr'[p].prev = cur
    /\ hdr'[p].next = hdr[cur].next
    /\ \A q \in DOMAIN hdr :
          /\ hdr'[q].end = hdr[q].end
          /\ hdr'[q].prev = IF q = hdr[cur].next THEN p ELSE hdr[q].prev
          /\ hdr'[q].next = IF q = cur THEN p ELSE hdr[q].next

LEMMA PlacedIs ==
    ASSUME Sound, NEW cur, NEW p, NEW n, PlacedBehind(cur, p, n)
    PROVE  PlacedTable(cur, p, n)
  <1> DEFINE nxt == hdr[cur].next
  <1> USE MemPoolAssumption
  <1>1. /\ cur \in DOMAIN hdr /\ n \in Nat /\ p = hdr[cur].end /\ p \in Nat
        /\ cur \in Nat /\ cur < p /\ RealSize(n) \in Nat /\ RealSize(n) > 0
        /\ DOMAIN hdr \subseteq Nat /\ nxt \in Int
    BY DEF PlacedBehind, Sound, Types, Header, RealSize
  <1>2. nxt # Null => nxt \in DOMAIN hdr /\ p < nxt /\ cur < nxt
    <2>1. nxt # Null => nxt \in DOMAIN hdr /\ cur < nxt
      BY <1>1, Order
    <2>2. nxt # Null => p < nxt
      BY <1>1 DEF PlacedBehind
    <2>3. QED BY <2>1, <2>2
  <1>3. ASSUME NEW q \in DOMAIN hdr, cur < q PROVE p < q
    <2>1. nxt \in cur + 1..q
      BY <1>1, <1>3 DEF Sound, BlocksApart
    <2>2. nxt # Null /\ nxt <= q
      BY <1>1, <2>1 DEF Null
    <2>3. QED BY <1>1, <1>2, <1>3, <2>2
  <1>4. p \notin DOMAIN hdr /\ \A q \in DOMAIN hdr : q < p <=> q <= cur
    BY <1>1, <1>3
  <1>5. hdr' = Placed(p, n, cur, nxt)
    BY DEF PlacedBehind
  <1>6. DOMAIN hdr' = DOMAIN hdr \cup {p}
    BY <1>5 DEF Placed
  <1>7. hdr'[p] = [end |-> p + RealSize(n), prev |-> cur, next |-> nxt]
    <2>1. p # cur /\ p # nxt /\ p \in DOMAIN hdr \cup {p}
      BY <1>1, <1>2, <1>4 DEF Null
    <2>2. QED BY <1>5, <2>1 DEF Placed
  <1>8. ASSUME NEW q \in DOMAIN hdr
        PROVE  /\ hdr'[q] \in Header
               /\ hdr'[q].end = hdr[q].end
               /\ hdr'[q].prev = IF q = nxt THEN p ELSE hdr[q].prev
               /\ hdr'[q].next = IF q = cur THEN p ELSE hdr[q].next
    <2>1. q # p /\ cur # nxt /\ hdr[q] \in Header /\ p \in Int
      BY <1>1, <1>2, <1>4 DEF Sound, Types, Header, Null
    <2>2. CASE q = cur
      <3>1. hdr'[q] = [hdr[q] EXCEPT !.next = p]
        BY <1>5, <2>1, <2>2 DEF Placed
      <3>2. QED BY <2>1, <2>2, <3>1 DEF Header
    <2>3. CASE q = nxt
      <3>1. hdr'[q] = [hdr[q] EXCEPT !.prev = p]
        BY <1>5, <2>1, <2>3 DEF Placed
      <3>2. QED BY <2>1, <2>3, <3>1 DEF Header
    <2>4. CASE q # cur /\ q # nxt
      <3>1. hdr'[q] = hdr[q]
        BY <1>5, <2>1, <2>4 DEF Placed
      <3>2. QED BY <2>1, <2>4, <3>1
    <2>5. QED BY <2>2, <2>3, <2>4
  <1>a. hdr' \in [DOMAIN hdr' -> Header]
    <2>1. hdr' = [q \in DOMAIN hdr' |-> hdr'[q]]
      BY <1>5 DEF Placed
    <2>2. hdr'[p] \in Header
      BY <1>1, <1>7 DEF Header
    <2>3. QED BY <1>6, <1>8, <2>1, <2>2
  <1>9. QED BY <1>1, <1>2, <1>4, <1>6, <1>7, <1>8, <1>a DEF PlacedTable

\* The blocks stay in order and apart.
LEMMA PlacedApart ==
    ASSUME Sound, NEW cur, NEW p, NEW n, PlacedBehind(cur, p, n)
    PROVE  /\ BlocksApart'
           /\ DOMAIN hdr' \subseteq Nat
           /\ hdr' \in [DOMAIN hdr' -> Header]
           /\ \A q \in DOMAIN hdr' : q + RESERVE_ALLOC_SIZE <= hdr'[q].end
           /\ allocs' \in Int /\ last_alloc' \in Int
  <1> DEFINE nxt == hdr[cur].next
  <1> USE MemPoolAssumption
  <1>1. /\ cur \in DOMAIN hdr /\ n \in Nat /\ p = hdr[cur].end
        /\ IF nxt = Null THEN p + RealSize(n) <= Capacity
                         ELSE p + RealSize(n) <= nxt
        /\ allocs' = allocs
        /\ last_alloc' = IF nxt = Null THEN p ELSE last_alloc
        /\ RealSize(n) = n + RESERVE_ALLOC_SIZE
        /\ DOMAIN hdr \subseteq Nat /\ nxt \in Int /\ p \in Nat
    BY DEF PlacedBehind, RealSize, Sound, Types, Header
  <1>t. PlacedTable(cur, p, n)
    BY PlacedIs
  <1>2. /\ p \in Nat /\ p \notin DOMAIN hdr /\ cur < p
        /\ \A q \in DOMAIN hdr : q < p <=> q <= cur
        /\ nxt # Null => nxt \in DOMAIN hdr /\ p < nxt
        /\ DOMAIN hdr' = DOMAIN hdr \cup {p}
    BY <1>t DEF PlacedTable
  <1>3. /\ hdr'[p].end = p + RealSize(n) /\ hdr'[p].next = nxt
        /\ \A q \in DOMAIN hdr :
              /\ hdr'[q].end = hdr[q].end
              /\ hdr'[q].next = IF q = cur THEN p ELSE hdr[q].next
    BY <1>t DEF PlacedTable
  <1>4. hdr' \in [DOMAIN hdr' -> Header]
    BY <1>t DEF PlacedTable
  <1>5. \A q \in DOMAIN hdr' : q + RESERVE_ALLOC_SIZE <= hdr'[q].end
    BY <1>1, <1>2, <1>3 DEF Sound, Types, Header
  <1>6. /\ allocs \in DOMAIN hdr /\ last_alloc \in DOMAIN hdr /\ allocs >= 0
        /\ hdr[last_alloc].next = Null /\ hdr[last_alloc].end <= Capacity
        /\ \A q \in DOMAIN hdr :
              /\ allocs <= q
              /\ q # last_alloc => /\ hdr[q].next \in DOMAIN hdr
                                   /\ hdr[q].end <= hdr[q].next
              /\ \A x \in DOMAIN hdr : q < x => hdr[q].next \in q + 1..x
    BY <1>1 DEF Sound, BlocksApart
  <1>7. nxt = Null <=> cur = last_alloc
    BY <1>1, Order
  <1>8. /\ allocs' \in DOMAIN hdr' /\ allocs' >= 0
        /\ last_alloc' \in DOMAIN hdr'
        /\ hdr'[last_alloc'].next = Null /\ hdr'[last_alloc'].end <= Capacity
    <2>1. CASE nxt = Null
      BY <1>1, <1>2, <1>3, <1>6, <2>1
    <2>2. CASE nxt # Null
      BY <1>1, <1>2, <1>3, <1>6, <1>7, <2>2
    <2>3. QED BY <2>1, <2>2
  <1>9. ASSUME NEW q \in DOMAIN hdr'
        PROVE  /\ allocs' <= q
               /\ q # last_alloc' => /\ hdr'[q].next \in DOMAIN hdr'
                                     /\ hdr'[q].end <= hdr'[q].next
    <2>1. allocs' <= q
      BY <1>1, <1>2, <1>6
    <2>2. CASE q = p
      BY <1>1, <1>2, <1>3, <2>1, <2>2
    <2>3. CASE q = cur
      BY <1>1, <1>2, <1>3, <2>1, <2>3
    <2>4. CASE q # p /\ q # cur
      BY <1>1, <1>2, <1>3, <1>6, <1>7, <2>1, <2>4
    <2>5. QED BY <2>2, <2>3, <2>4
  <1>10. ASSUME NEW q \in DOMAIN hdr', NEW x \in DOMAIN hdr', q < x
         PROVE  hdr'[q].next \in q + 1..x
    <2>1. CASE q = p
      <3>1. x \in DOMAIN hdr /\ cur < x /\ x \in Nat
        BY <1>1, <1>2, <1>10, <2>1
      <3>2. nxt \in cur + 1..x
        BY <1>1, <1>6, <3>1
      <3>3. nxt # Null
        BY <1>1, <3>2 DEF Null
      <3>4. QED BY <1>1, <1>2, <1>3, <2>1, <3>1, <3>2, <3>3
    <2>2. CASE q = cur
      <3>1. x = p \/ (x \in DOMAIN hdr /\ p < x)
        BY <1>1, <1>2, <1>10, <2>2
      <3>2. QED BY <1>1, <1>2, <1>3, <2>2, <3>1
    <2>3. CASE q # p /\ q # cur
      <3>1. q \in DOMAIN hdr /\ hdr'[q].next = hdr[q].next
        BY <1>2, <1>3, <2>3
      <3>2. CASE x = p
        <4>1. q < cur
          BY <1>1, <1>2, <1>10, <2>3, <3>1, <3>2
        <4>2. hdr[q].next \in q + 1..cur
          BY <1>1, <1>6, <3>1, <4>1
        <4>3. QED BY <1>1, <1>2, <3>1, <3>2, <4>2
      <3>3. CASE x # p
        BY <1>2, <1>6, <1>10, <3>1, <3>3
      <3>4. QED BY <3>2, <3>3
    <2>4. QED BY <2>1, <2>2, <2>3
  <1>11. BlocksApart'
    BY <1>2, <1>8, <1>9, <1>10 DEF BlocksApart
  <1>12. QED BY <1>1, <1>2, <1>4, <1>5, <1>6, <1>11

LEMMA TargetUniqueNext ==
    ASSUME Sound', DOMAIN hdr' # {}, NEW at, at[allocs'] = 0,
           \A q \in DOMAIN hdr' \ {last_alloc'} :
              at[hdr'[q].next] = at[q] + (hdr'[q].end - q)
    PROVE  \A q \in DOMAIN hdr' : at[q] = Target'[q]
  BY SoundTargetNext DEF TargetFacts, Length

\* The blocks above the new one move up by its size, those below stay.
LEMMA PlacedSpan ==
    ASSUME Sound, Sound', NEW cur, NEW p, NEW n, PlacedBehind(cur, p, n)
    PROVE  Span' = Span + RealSize(n)
  <1> DEFINE nxt == hdr[cur].next
             at == [q \in DOMAIN hdr' |->
                      IF q = p THEN Target[cur] + Length(cur)
                      ELSE IF q <= cur THEN Target[q]
                      ELSE Target[q] + RealSize(n)]
  <1>1. /\ cur \in DOMAIN hdr /\ n \in Nat /\ p = hdr[cur].end
        /\ allocs' = allocs
        /\ last_alloc' = IF nxt = Null THEN p ELSE last_alloc
        /\ RealSize(n) \in Nat
        /\ DOMAIN hdr \subseteq Nat /\ p \in Nat
    BY MemPoolAssumption DEF PlacedBehind, RealSize, Sound, Types, Header
  <1>t. PlacedTable(cur, p, n)
    BY PlacedIs
  <1>2. /\ p \notin DOMAIN hdr /\ cur < p
        /\ \A q \in DOMAIN hdr : q < p <=> q <= cur
        /\ nxt # Null => nxt \in DOMAIN hdr /\ p < nxt
        /\ DOMAIN hdr' = DOMAIN hdr \cup {p}
    BY <1>t DEF PlacedTable
  <1>3. /\ hdr'[p].end = p + RealSize(n) /\ hdr'[p].next = nxt
        /\ \A q \in DOMAIN hdr :
              /\ hdr'[q].end = hdr[q].end
              /\ hdr'[q].next = IF q = cur THEN p ELSE hdr[q].next
    BY <1>t DEF PlacedTable
  <1>4. /\ Target \in [DOMAIN hdr -> Nat] /\ Target[allocs] = 0
        /\ \A q \in DOMAIN hdr \ {last_alloc} :
              Target[hdr[q].next] = Target[q] + Length(q)
    BY <1>1, SoundTarget DEF TargetFacts
  <1>5. /\ allocs \in DOMAIN hdr /\ last_alloc \in DOMAIN hdr
        /\ \A q \in DOMAIN hdr : allocs <= q /\ q <= last_alloc
        /\ \A q \in DOMAIN hdr \ {last_alloc} :
              hdr[q].next \in DOMAIN hdr /\ q < hdr[q].next
        /\ nxt = Null <=> cur = last_alloc
        /\ \A q \in DOMAIN hdr : Length(q) \in Nat
    BY <1>1, Order
  <1>6. /\ \A q \in DOMAIN hdr : q <= cur => at[q] = Target[q]
        /\ \A q \in DOMAIN hdr : cur < q => at[q] = Target[q] + RealSize(n)
        /\ at[p] = Target[cur] + Length(cur)
    BY <1>1, <1>2
  <1>7. at[allocs'] = 0
    BY <1>1, <1>4, <1>5, <1>6
  <1>8. ASSUME NEW q \in DOMAIN hdr' \ {last_alloc'}
        PROVE  at[hdr'[q].next] = at[q] + (hdr'[q].end - q)
    <2> HIDE DEF at
    <2>1. CASE q = p
      <3>1. nxt \in DOMAIN hdr /\ cur < nxt /\ cur # last_alloc
        BY <1>1, <1>2, <1>5, <1>8, <2>1
      <3>2. at[nxt] = Target[nxt] + RealSize(n)
        BY <1>6, <3>1
      <3>3. Target[nxt] = Target[cur] + Length(cur)
        BY <1>1, <1>4, <3>1
      <3>4. hdr'[q].end - q = RealSize(n)
        BY <1>1, <1>3, <2>1
      <3>5. QED BY <1>3, <1>6, <2>1, <3>2, <3>3, <3>4
    <2>2. CASE q = cur
      BY <1>1, <1>2, <1>3, <1>6, <2>2 DEF Length
    <2>3. CASE q # p /\ q < cur
      <3>1. q \in DOMAIN hdr \ {last_alloc}
        BY <1>1, <1>2, <1>5, <2>3
      <3>2. hdr'[q].next = hdr[q].next /\ hdr'[q].end - q = Length(q)
        BY <1>1, <1>3, <2>3, <3>1 DEF Length
      <3>3. hdr[q].next \in DOMAIN hdr /\ hdr[q].next <= cur
        BY <1>1, <2>3, <3>1 DEF Sound, BlocksApart
      <3>4. QED BY <1>1, <1>4, <1>6, <2>3, <3>1, <3>2, <3>3
    <2>4. CASE q # p /\ cur < q
      <3>1. q \in DOMAIN hdr \ {last_alloc}
        BY <1>1, <1>2, <1>5, <1>8, <2>4
      <3>2. hdr'[q].next = hdr[q].next /\ hdr'[q].end - q = Length(q)
        BY <1>1, <1>3, <2>4, <3>1 DEF Length
      <3>3. hdr[q].next \in DOMAIN hdr /\ cur < hdr[q].next
        BY <1>1, <1>5, <2>4, <3>1
      <3>4. /\ at[hdr[q].next] = Target[hdr[q].next] + RealSize(n)
            /\ at[q] = Target[q] + RealSize(n)
            /\ Target[hdr[q].next] = Target[q] + Length(q)
        BY <1>4, <1>6, <2>4, <3>1, <3>3
      <3>5. Target[q] \in Nat /\ Length(q) \in Nat
        BY <1>4, <1>5, <3>1
      <3>6. QED BY <1>1, <3>2, <3>4, <3>5
    <2>5. q \in Nat /\ cur \in Nat
      BY <1>1, <1>2, <1>8
    <2>6. QED BY <2>1, <2>2, <2>3, <2>4, <2>5
  <1>9. \A q \in DOMAIN hdr' : at[q] = Target'[q]
    <2> HIDE DEF at
    <2>1. DOMAIN hdr' # {}
      BY <1>2
    <2>2. QED BY <1>7, <1>8, <2>1, TargetUniqueNext
  <1>10. Span' = Target'[last_alloc'] + (hdr'[last_alloc'].end - last_alloc')
    BY <1>2 DEF Span, Length
  <1>11. Span = Target[last_alloc] + Length(last_alloc)
    BY <1>1 DEF Span
  <1>12. CASE nxt = Null
    <2>1. last_alloc' = p /\ cur = last_alloc /\ p \in DOMAIN hdr'
      BY <1>1, <1>2, <1>5, <1>12
    <2>2. Target'[p] = Target[cur] + Length(cur)
      BY <1>6, <1>9, <2>1
    <2>3. hdr'[p].end - p = RealSize(n)
      BY <1>1, <1>3
    <2>4. QED BY <1>10, <1>11, <2>1, <2>2, <2>3
  <1>13. CASE nxt # Null
    <2>1. last_alloc' = last_alloc /\ cur < last_alloc
      BY <1>1, <1>2, <1>5, <1>13
    <2>2. Target'[last_alloc] = Target[last_alloc] + RealSize(n)
      BY <1>2, <1>5, <1>6, <1>9, <2>1
    <2>3. hdr'[last_alloc].end - last_alloc = Length(last_alloc)
      BY <1>3, <1>5 DEF Length
    <2>4. Target[last_alloc] \in Nat /\ Length(last_alloc) \in Nat
      BY <1>4, <1>5
    <2>5. QED BY <1>1, <1>10, <1>11, <2>1, <2>2, <2>3, <2>4
  <1>14. QED BY <1>12, <1>13

\* The space adds up, and no owner loses a neighbour.
IInv == Sound /\ FreeAccounted /\ OwnersServed /\ RetryFits

LEMMA HandOutTypes ==
    ASSUME Sound, NEW p \in Nat, NEW n \in Nat, HandOut(p, n)
    PROVE  /\ total_free' \in Int /\ refused' = Null
           /\ DOMAIN owned' = DOMAIN owned \cup {p + RESERVE_ALLOC_SIZE}
           /\ DOMAIN owned' \subseteq Nat
           /\ owned' \in [DOMAIN owned' -> Nat]
           /\ owned'[p + RESERVE_ALLOC_SIZE] = n
           /\ \A d \in DOMAIN owned :
                 d # p + RESERVE_ALLOC_SIZE => owned'[d] = owned[d]
  BY MemPoolAssumption DEF HandOut, Sound, Types, RealSize

LEMMA PlacedOwners ==
    ASSUME Sound, OwnersServed, NEW cur, NEW p, NEW n,
           PlacedBehind(cur, p, n), HandOut(p, n)
    PROVE  OwnersServed'
  <1> DEFINE nxt == hdr[cur].next
             R == RESERVE_ALLOC_SIZE
  <1> USE MemPoolAssumption
  <1>1. /\ cur \in DOMAIN hdr /\ n \in Nat /\ p \in Nat /\ cur \in Nat
        /\ allocs' = allocs /\ RealSize(n) = n + RESERVE_ALLOC_SIZE
        /\ DOMAIN hdr \subseteq Nat /\ DOMAIN owned \subseteq Nat
    BY DEF PlacedBehind, RealSize, Sound, Types, Header
  <1>t. PlacedTable(cur, p, n)
    BY PlacedIs
  <1>2. /\ p \notin DOMAIN hdr
        /\ nxt # Null => nxt \in DOMAIN hdr /\ p < nxt
        /\ DOMAIN hdr' = DOMAIN hdr \cup {p}
        /\ hdr'[p].end = p + RealSize(n) /\ hdr'[p].prev = cur
        /\ hdr'[p].next = nxt
    BY <1>t DEF PlacedTable
  <1>3. \A q \in DOMAIN hdr :
           /\ hdr'[q].end = hdr[q].end
           /\ hdr'[q].prev = IF q = nxt THEN p ELSE hdr[q].prev
           /\ hdr'[q].next = IF q = cur THEN p ELSE hdr[q].next
    BY <1>t DEF PlacedTable
  <1>4. /\ DOMAIN owned' = DOMAIN owned \cup {p + R}
        /\ owned'[p + R] = n
        /\ \A d \in DOMAIN owned : d # p + R => owned'[d] = owned[d]
    BY <1>1, HandOutTypes
  <1>5. ASSUME NEW d \in DOMAIN owned'
        PROVE  LET q == d - R
               IN /\ q \in DOMAIN hdr'
                  /\ hdr'[q].end = d + owned'[d]
                  /\ hdr'[q].prev = Null => allocs' = q
                  /\ hdr'[q].prev # Null => /\ hdr'[q].prev \in DOMAIN hdr'
                                            /\ hdr'[hdr'[q].prev].next = q
                  /\ hdr'[q].next # Null => hdr'[q].next \in DOMAIN hdr'
    <2>1. CASE d = p + R
      <3>1. d - R = p /\ cur # Null /\ hdr'[cur].next = p
        BY <1>1, <1>3, <2>1 DEF Null
      <3>2. QED BY <1>1, <1>2, <1>4, <2>1, <3>1
    <2>2. CASE d # p + R
      <3> DEFINE q == d - R
      <3>1. d \in DOMAIN owned /\ owned'[d] = owned[d] /\ d \in Nat
        BY <1>1, <1>4, <2>2
      <3>2. /\ q \in DOMAIN hdr /\ hdr[q].end = d + owned[d]
            /\ hdr[q].prev = Null => allocs = q
            /\ hdr[q].prev # Null =>
                  hdr[q].prev \in DOMAIN hdr /\ hdr[hdr[q].prev].next = q
            /\ hdr[q].next # Null => hdr[q].next \in DOMAIN hdr
        BY <3>1 DEF OwnersServed
      <3> HIDE DEF q
      <3>3. CASE q = nxt
        <4>1. hdr'[q].prev = p /\ hdr'[p].next = q /\ p \in DOMAIN hdr'
          BY <1>2, <1>3, <3>2, <3>3
        <4>2. p # Null
          BY <1>1 DEF Null
        <4>3. hdr'[q].next # Null => hdr'[q].next \in DOMAIN hdr'
          BY <1>2, <1>3, <3>2
        <4>4. QED BY <1>2, <1>3, <3>1, <3>2, <4>1, <4>2, <4>3 DEF q
      <3>4. CASE q # nxt
        <4>1. hdr'[q].prev = hdr[q].prev
          BY <1>3, <3>2, <3>4
        <4>2. hdr[q].prev # Null => hdr'[hdr[q].prev].next = q
          BY <1>3, <3>2, <3>4
        <4>3. hdr'[q].next # Null => hdr'[q].next \in DOMAIN hdr'
          BY <1>2, <1>3, <3>2
        <4>4. QED BY <1>1, <1>2, <1>3, <3>1, <3>2, <4>1, <4>2, <4>3 DEF q
      <3>5. QED BY <3>3, <3>4
    <2>3. QED BY <2>1, <2>2
  <1>6. QED BY <1>5 DEF OwnersServed

LEMMA MallocPlaced ==
    ASSUME IInv, NEW cur, NEW p, NEW n, PlacedBehind(cur, p, n), HandOut(p, n)
    PROVE  IInv'
  <1>1. p \in Nat /\ n \in Nat /\ RealSize(n) \in Nat
    BY MemPoolAssumption
       DEF PlacedBehind, IInv, Sound, Types, Header, RealSize
  <1>2. Sound'
    BY <1>1, PlacedApart, HandOutTypes DEF IInv, Sound, Types, Null
  <1>3. Span' = Span + RealSize(n)
    BY <1>2, PlacedSpan DEF IInv
  <1>4. Span \in Int
    BY SoundTarget, Order DEF IInv, TargetFacts, Span
  <1>5. total_free = Capacity - Span /\ total_free' = total_free - RealSize(n)
    BY DEF IInv, FreeAccounted, Span, HandOut
  <1>6. total_free' = Capacity - Span'
    BY <1>1, <1>3, <1>4, <1>5, MemPoolAssumption
  <1>7. FreeAccounted'
    BY <1>6 DEF FreeAccounted, Span
  <1>8. OwnersServed' /\ RetryFits'
    BY <1>1, PlacedOwners DEF IInv, RetryFits, HandOut
  <1>9. QED BY <1>2, <1>7, <1>8 DEF IInv

LEMMA MallocTailStep ==
    ASSUME IInv, NEW n \in Request, MallocTail(n)
    PROVE  IInv'
  <1> DEFINE p == hdr[last_alloc].end
  <1>1. last_alloc \in DOMAIN hdr /\ hdr[last_alloc].next = Null
    <2>1. DOMAIN hdr # {}
      BY DEF IInv, Sound, BlocksApart, MallocTail, TailFits
    <2>2. QED BY <2>1, Order DEF IInv
  <1>2. n \in Nat /\ p \in Nat /\ RealSize(n) \in Nat
    BY <1>1, MemPoolAssumption DEF IInv, Sound, Types, Header, RealSize
  <1>3. p + RealSize(n) <= Capacity
    BY <1>2, MemPoolAssumption DEF MallocTail, TailFits
  <1>4. PlacedBehind(last_alloc, p, n)
    BY <1>1, <1>2, <1>3 DEF PlacedBehind, MallocTail
  <1>5. HandOut(p, n)
    BY DEF MallocTail
  <1>6. QED BY <1>4, <1>5, MallocPlaced

LEMMA MallocGapStep ==
    ASSUME IInv, NEW n \in Request, MallocGap(n)
    PROVE  IInv'
  <1> DEFINE cur == Min(Gaps(n))
             p == hdr[cur].end
  <1>1. cur \in Gaps(n)
    <2>1. Gaps(n) \in SUBSET Nat /\ Gaps(n) # {}
      BY DEF Gaps, MallocGap, IInv, Sound, Types
    <2>2. \E x \in Gaps(n) : \A y \in Gaps(n) : x <= y
      BY <2>1, LeastNumber
    <2>3. QED BY <2>2 DEF Min
  <1> HIDE DEF cur
  <1>2. /\ cur \in DOMAIN hdr /\ hdr[cur].next # Null
        /\ hdr[cur].next - p > RealSize(n)
    BY <1>1 DEF Gaps
  <1>3. n \in Nat /\ p \in Nat /\ RealSize(n) \in Nat /\ hdr[cur].next \in Int
    BY <1>2, MemPoolAssumption DEF IInv, Sound, Types, Header, RealSize
  <1>4. p + RealSize(n) <= hdr[cur].next
    BY <1>2, <1>3
  <1>5. /\ hdr' = Placed(p, n, cur, hdr[cur].next)
        /\ HandOut(p, n)
        /\ allocs' = allocs /\ last_alloc' = last_alloc
    BY DEF MallocGap, cur
  <1>6. PlacedBehind(cur, p, n)
    BY <1>2, <1>3, <1>4, <1>5 DEF PlacedBehind
  <1>7. QED BY <1>5, <1>6, MallocPlaced

LEMMA MallocFirstStep ==
    ASSUME IInv, NEW n \in Request, MallocFirst(n)
    PROVE  IInv'
  <1> USE MemPoolAssumption
  <1>1. DOMAIN hdr = {} /\ DOMAIN owned = {} /\ allocs = Null
    <2>1. DOMAIN hdr = {}
      <3> SUFFICES ASSUME DOMAIN hdr # {} PROVE FALSE
        OBVIOUS
      <3>1. last_alloc \in DOMAIN hdr
        BY Order DEF IInv
      <3>2. last_alloc \in Nat
        BY <3>1 DEF IInv, Sound, Types
      <3>3. QED BY <3>2 DEF MallocFirst, Null
    <2>2. QED BY <2>1 DEF IInv, OwnersServed, Sound, BlocksApart
  <1>2. n \in Nat /\ RealSize(n) = n + RESERVE_ALLOC_SIZE
    BY DEF RealSize
  <1>3. total_free = Capacity /\ RealSize(n) <= Capacity
    BY <1>1, <1>2 DEF IInv, FreeAccounted, MallocFirst, Enough
  <1>4. /\ DOMAIN hdr' = {0}
        /\ hdr'[0] = [end |-> RealSize(n), prev |-> Null, next |-> Null]
        /\ hdr' = [q \in {0} |-> hdr'[0]]
    <2>1. hdr' = Placed(0, n, Null, Null)
      BY DEF MallocFirst
    <2>2. hdr' = [q \in {0} |-> hdr'[q]] /\ DOMAIN hdr' = {0}
      BY <1>1, <2>1 DEF Placed
    <2>3. hdr'[0] = [end |-> 0 + RealSize(n), prev |-> Null, next |-> Null]
      BY <1>1, <2>1 DEF Placed, Null
    <2>4. QED BY <1>2, <2>2, <2>3
  <1>5. allocs' = 0 /\ last_alloc' = 0 /\ HandOut(0, n)
    BY DEF MallocFirst
  <1>6. /\ hdr' \in [DOMAIN hdr' -> Header]
        /\ hdr'[0].end = RealSize(n) /\ hdr'[0].next = Null
        /\ hdr'[0].prev = Null
    BY <1>2, <1>4 DEF Header, Null
  <1>7. BlocksApart'
    BY <1>3, <1>4, <1>5, <1>6 DEF BlocksApart
  <1>8. Sound'
    <2>1. /\ total_free' \in Int /\ refused' = Null
          /\ DOMAIN owned' \subseteq Nat /\ owned' \in [DOMAIN owned' -> Nat]
      BY <1>2, <1>5, HandOutTypes DEF IInv
    <2>2. QED BY <1>2, <1>4, <1>5, <1>6, <1>7, <2>1 DEF Sound, Types
  <1>9. FreeAccounted'
    <2>1. Target'[0] = 0
      BY <1>4, <1>5, <1>8, SoundTargetNext DEF TargetFacts
    <2>2. total_free' = Capacity - RealSize(n)
      BY <1>3 DEF MallocFirst, HandOut
    <2>3. (Target[last_alloc] + Length(last_alloc))' = RealSize(n)
      BY <1>2, <1>5, <1>6, <2>1 DEF Length
    <2>4. QED BY <1>4, <2>2, <2>3 DEF FreeAccounted
  <1>10. OwnersServed'
    <2>1. DOMAIN owned' = {RESERVE_ALLOC_SIZE} /\ owned'[RESERVE_ALLOC_SIZE] = n
      <3>1. 0 + RESERVE_ALLOC_SIZE = RESERVE_ALLOC_SIZE
        OBVIOUS
      <3>2. QED BY <1>1, <1>5, <3>1 DEF HandOut
    <2>2. RESERVE_ALLOC_SIZE - RESERVE_ALLOC_SIZE = 0
      OBVIOUS
    <2>3. QED BY <1>2, <1>4, <1>5, <1>6, <2>1, <2>2 DEF OwnersServed
  <1>11. RetryFits'
    BY DEF RetryFits, MallocFirst, HandOut
  <1>12. QED BY <1>8, <1>9, <1>10, <1>11 DEF IInv

-----------------------------------------------------------------------------
(* Free.                                                                    *)

\* The block at p with its neighbours, of which one or both may be Null.
Between(prev, p, next) ==
    /\ p \in DOMAIN hdr /\ p \in Nat /\ prev \in Int /\ next \in Int
    /\ next = hdr[p].next
    /\ prev = Null <=> p = allocs
    /\ next = Null <=> p = last_alloc
    /\ prev # Null => /\ prev \in DOMAIN hdr /\ prev < p /\ prev \in Nat
                      /\ hdr[prev].next = p
    /\ next # Null => next \in DOMAIN hdr /\ p < next /\ next \in Nat
    /\ \A q \in DOMAIN hdr :
          /\ hdr[q].next = p => q = prev
          /\ q < p => prev # Null /\ q <= prev
          /\ p < q => next # Null /\ next <= q

LEMMA OwnedBetween ==
    ASSUME IInv, NEW d \in DOMAIN owned
    PROVE  LET p == d - RESERVE_ALLOC_SIZE
           IN Between(hdr[p].prev, p, hdr[p].next)
  <1> USE MemPoolAssumption
  <1> DEFINE p == d - RESERVE_ALLOC_SIZE
             prev == hdr[p].prev
             next == hdr[p].next
  <1>1. /\ p \in DOMAIN hdr
        /\ prev = Null => allocs = p
        /\ prev # Null => prev \in DOMAIN hdr /\ hdr[prev].next = p
    BY DEF IInv, OwnersServed
  <1> HIDE DEF p
  <1>2. DOMAIN hdr \subseteq Nat /\ p \in Nat /\ prev \in Int /\ next \in Int
    BY <1>1 DEF IInv, Sound, Types, Header
  <1>3. /\ allocs \in DOMAIN hdr /\ last_alloc \in DOMAIN hdr
        /\ \A q \in DOMAIN hdr : allocs <= q /\ q <= last_alloc
        /\ \A q \in DOMAIN hdr \ {last_alloc} :
              hdr[q].next \in DOMAIN hdr /\ q < hdr[q].next
        /\ \A q \in DOMAIN hdr : hdr[q].next = Null <=> q = last_alloc
    BY <1>1, Order DEF IInv
  <1>4. prev # Null => prev < p /\ prev \in Nat /\ prev # last_alloc
    BY <1>1, <1>2, <1>3 DEF Null
  <1>5. prev = Null <=> p = allocs
    BY <1>1, <1>2, <1>3, <1>4
  <1>6. next # Null => next \in DOMAIN hdr /\ p < next /\ next \in Nat
    BY <1>1, <1>2, <1>3
  <1>7. ASSUME NEW q \in DOMAIN hdr, hdr[q].next = p PROVE q = prev
    <2>1. q # last_alloc
      BY <1>2, <1>3, <1>7 DEF Null
    <2>2. p # allocs
      BY <1>2, <1>3, <1>7, <2>1
    <2>3. QED BY <1>1, <1>5, <1>7, <2>2, BeforeIs DEF IInv
  <1>8. ASSUME NEW q \in DOMAIN hdr, q < p PROVE prev # Null /\ q <= prev
    <2>1. prev # Null
      BY <1>2, <1>3, <1>5, <1>8
    <2>2. ASSUME prev < q PROVE FALSE
      <3>1. hdr[prev].next \in prev + 1..q
        BY <1>1, <2>1, <2>2 DEF IInv, Sound, BlocksApart
      <3>2. QED BY <1>1, <1>2, <1>4, <1>8, <2>1, <3>1
    <2>3. QED BY <1>2, <1>4, <2>1, <2>2
  <1>9. ASSUME NEW q \in DOMAIN hdr, p < q PROVE next # Null /\ next <= q
    <2>1. next \in p + 1..q
      BY <1>1, <1>9 DEF IInv, Sound, BlocksApart
    <2>2. QED BY <1>2, <2>1 DEF Null
  <1>10. next = Null <=> p = last_alloc
    BY <1>1, <1>3
  <1>11. Between(prev, p, next)
    BY <1>1, <1>2, <1>4, <1>5, <1>6, <1>7, <1>8, <1>9, <1>10 DEF Between
  <1>12. QED BY <1>11 DEF p

\* The table without the block at p.
Unlinked(prev, p, next) ==
    /\ DOMAIN hdr' = DOMAIN hdr \ {p}
    /\ hdr' \in [DOMAIN hdr' -> Header]
    /\ \A q \in DOMAIN hdr \ {p} :
          /\ hdr'[q].end = hdr[q].end
          /\ hdr'[q].prev = IF q = next THEN prev ELSE hdr[q].prev
          /\ hdr'[q].next = IF q = prev THEN next ELSE hdr[q].next
    /\ allocs' = IF prev = Null THEN next ELSE allocs
    /\ last_alloc' = IF next = Null THEN prev ELSE last_alloc

LEMMA FreeUnlinks ==
    ASSUME Sound, NEW d \in DOMAIN owned, Free(d),
           NEW p, p = d - RESERVE_ALLOC_SIZE,
           NEW prev, prev = hdr[p].prev, NEW next, next = hdr[p].next,
           Between(prev, p, next)
    PROVE  Unlinked(prev, p, next)
  <1> DEFINE linked == [q \in DOMAIN hdr |->
                     CASE q = prev -> [hdr[q] EXCEPT !.next = next]
                       [] q = next -> [hdr[q] EXCEPT !.prev = prev]
                       [] OTHER -> hdr[q]]
  <1>1. /\ hdr' = Restrict(linked, DOMAIN hdr \ {p})
        /\ allocs' = IF prev = Null THEN next ELSE allocs
        /\ last_alloc' = IF next = Null THEN prev ELSE last_alloc
    BY DEF Free
  <1>2. hdr' = [q \in DOMAIN hdr \ {p} |-> linked[q]]
    BY <1>1 DEF Restrict
  <1>3. DOMAIN hdr' = DOMAIN hdr \ {p} /\ hdr' = [q \in DOMAIN hdr' |-> hdr'[q]]
    BY <1>2
  <1>4. /\ prev \in Int /\ next \in Int /\ p \in Nat
        /\ prev # Null => prev < p
        /\ next # Null => p < next
        /\ DOMAIN hdr \subseteq Nat
    BY DEF Between, Sound, Types
  <1>5. ASSUME NEW q \in DOMAIN hdr \ {p}
        PROVE  /\ hdr'[q] \in Header
               /\ hdr'[q].end = hdr[q].end
               /\ hdr'[q].prev = IF q = next THEN prev ELSE hdr[q].prev
               /\ hdr'[q].next = IF q = prev THEN next ELSE hdr[q].next
    <2>1. hdr'[q] = linked[q] /\ hdr[q] \in Header /\ q \in Nat /\ q \in DOMAIN hdr
      BY <1>2, <1>4 DEF Sound, Types
    <2>2. CASE q = prev
      <3>1. q # next
        BY <1>4, <2>1, <2>2 DEF Null
      <3>2. hdr'[q] = [hdr[q] EXCEPT !.next = next]
        BY <2>1, <2>2, <3>1
      <3>3. QED BY <1>4, <2>1, <2>2, <3>1, <3>2 DEF Header
    <2>3. CASE q # prev /\ q = next
      <3>1. hdr'[q] = [hdr[q] EXCEPT !.prev = prev]
        BY <2>1, <2>3
      <3>2. QED BY <1>4, <2>1, <2>3, <3>1 DEF Header
    <2>4. CASE q # prev /\ q # next
      <3>1. hdr'[q] = hdr[q]
        BY <2>1, <2>4
      <3>2. QED BY <2>1, <2>4, <3>1
    <2>5. QED BY <2>2, <2>3, <2>4
  <1>6. QED BY <1>1, <1>3, <1>5 DEF Unlinked

LEMMA UnlinkedApart ==
    ASSUME Sound, NEW prev, NEW p, NEW next,
           Between(prev, p, next), Unlinked(prev, p, next)
    PROVE  /\ BlocksApart'
           /\ DOMAIN hdr' \subseteq Nat
           /\ hdr' \in [DOMAIN hdr' -> Header]
           /\ \A q \in DOMAIN hdr' : q + RESERVE_ALLOC_SIZE <= hdr'[q].end
           /\ allocs' \in Int /\ last_alloc' \in Int
  <1> DEFINE D == DOMAIN hdr \ {p}
  <1>1. /\ p \in DOMAIN hdr /\ p \in Nat /\ prev \in Int /\ next \in Int
        /\ next = hdr[p].next
        /\ prev = Null <=> p = allocs
        /\ next = Null <=> p = last_alloc
        /\ prev # Null => prev \in D /\ prev < p /\ hdr[prev].next = p
        /\ next # Null => next \in D /\ p < next
        /\ \A q \in D :
              /\ hdr[q].next = p => q = prev
              /\ q < p => prev # Null /\ q <= prev
              /\ p < q => next # Null /\ next <= q
    BY DEF Between
  <1>2. /\ DOMAIN hdr' = D
        /\ \A q \in D :
              /\ hdr'[q].end = hdr[q].end
              /\ hdr'[q].next = IF q = prev THEN next ELSE hdr[q].next
        /\ allocs' = IF prev = Null THEN next ELSE allocs
        /\ last_alloc' = IF next = Null THEN prev ELSE last_alloc
    BY DEF Unlinked
  <1>3. /\ D \subseteq Nat /\ allocs \in Int /\ last_alloc \in Int
        /\ \A q \in DOMAIN hdr : hdr[q].end \in Nat /\ q < hdr[q].end
    BY MemPoolAssumption DEF Sound, Types, Header
  <1>4. /\ allocs \in DOMAIN hdr /\ allocs >= 0
        /\ last_alloc \in DOMAIN hdr
        /\ hdr[last_alloc].next = Null /\ hdr[last_alloc].end <= Capacity
        /\ \A q \in DOMAIN hdr :
              /\ allocs <= q
              /\ q # last_alloc => /\ hdr[q].next \in DOMAIN hdr
                                   /\ hdr[q].end <= hdr[q].next
              /\ \A x \in DOMAIN hdr : q < x => hdr[q].next \in q + 1..x
    BY <1>1 DEF Sound, BlocksApart
  <1>5. \A q \in D : q <= last_alloc
    BY Order DEF Sound
  <1>6. /\ hdr' \in [DOMAIN hdr' -> Header]
        /\ \A q \in DOMAIN hdr' : q + RESERVE_ALLOC_SIZE <= hdr'[q].end
        /\ allocs' \in Int /\ last_alloc' \in Int
    <2>1. \A q \in D : q + RESERVE_ALLOC_SIZE <= hdr'[q].end
      BY <1>2 DEF Sound, Types
    <2>2. hdr' \in [DOMAIN hdr' -> Header]
      BY DEF Unlinked
    <2>3. QED BY <1>1, <1>2, <1>3, <2>1, <2>2
  <1> HIDE DEF D
  <1>7. CASE D = {}
    <2>1. prev = Null /\ next = Null
      BY <1>1, <1>7
    <2>2. DOMAIN hdr' = {} /\ allocs' = Null /\ last_alloc' = Null
      BY <1>2, <1>7, <2>1
    <2>3. QED BY <1>6, <2>2 DEF BlocksApart
  <1>8. CASE D # {}
    <2>1. prev # Null \/ next # Null
      <3>1. PICK q \in D : TRUE
        BY <1>8
      <3>2. q \in Nat /\ q \in DOMAIN hdr
        BY <1>3, <3>1 DEF D
      <3>3. q # p
        BY <3>1 DEF D
      <3>4. QED BY <1>1, <3>1, <3>2, <3>3
    <2>2. /\ allocs' \in D /\ allocs' >= 0
          /\ \A q \in D : allocs' <= q
      <3>1. CASE prev = Null
        <4>1. \A q \in D : p < q
          BY <1>1, <1>3, <1>4, <3>1 DEF D
        <4>2. QED BY <1>1, <1>2, <1>3, <2>1, <3>1, <4>1
      <3>2. CASE prev # Null
        BY <1>1, <1>2, <1>3, <1>4, <3>2 DEF D
      <3>3. QED BY <3>1, <3>2
    <2>3. /\ last_alloc' \in D
          /\ hdr'[last_alloc'].next = Null /\ hdr'[last_alloc'].end <= Capacity
      <3>1. CASE next = Null
        <4>1. prev \in D /\ last_alloc' = prev /\ p = last_alloc /\ prev # p
          BY <1>1, <1>2, <2>1, <3>1
        <4>2. hdr'[prev].next = Null /\ hdr'[prev].end = hdr[prev].end
          BY <1>2, <3>1, <4>1
        <4>3. hdr[prev].end <= p /\ p < hdr[p].end /\ prev \in DOMAIN hdr
          BY <1>1, <1>3, <1>4, <2>1, <3>1, <4>1 DEF D
        <4>4. QED BY <1>1, <1>3, <1>4, <4>1, <4>2, <4>3, MemPoolAssumption
      <3>2. CASE next # Null
        <4>1. last_alloc' = last_alloc /\ last_alloc \in D
          BY <1>1, <1>2, <1>4, <3>2 DEF D
        <4>2. last_alloc # prev
          <5>1. p # Null
            BY <1>1 DEF Null
          <5>2. QED BY <1>1, <1>4, <5>1, <4>1, <1>3 DEF Null
        <4>3. QED BY <1>2, <1>4, <4>1, <4>2
      <3>3. QED BY <3>1, <3>2
    <2>4. ASSUME NEW q \in D, q # last_alloc'
          PROVE  hdr'[q].next \in D /\ hdr'[q].end <= hdr'[q].next
      <3>1. q \in DOMAIN hdr /\ q \in Nat
        BY <1>3 DEF D
      <3>2. CASE q = prev
        <4>1. next # Null /\ prev # Null
          BY <1>2, <2>4, <3>1, <3>2 DEF Null
        <4>2. q # last_alloc
          BY <1>1, <1>4, <3>1, <3>2, <4>1 DEF Null
        <4>3. hdr[q].end <= p
          BY <1>1, <1>4, <3>1, <3>2, <4>1, <4>2
        <4>4. QED BY <1>1, <1>2, <1>3, <3>1, <3>2, <4>1, <4>3 DEF D
      <3>3. CASE q # prev
        <4>1. q # last_alloc
          BY <1>1, <1>2, <2>4 DEF D
        <4>2. hdr[q].next \in D
          BY <1>1, <1>4, <3>1, <3>3, <4>1 DEF D
        <4>3. QED BY <1>2, <1>4, <3>1, <3>3, <4>1, <4>2
      <3>4. QED BY <3>2, <3>3
    <2>5. ASSUME NEW q \in D, NEW x \in D, q < x
          PROVE  hdr'[q].next \in q + 1..x
      <3>1. q \in DOMAIN hdr /\ q \in Nat /\ x \in DOMAIN hdr /\ x \in Nat
        BY <1>3 DEF D
      <3>2. CASE q = prev
        <4>1. p < x
          <5>1. x # p
            BY DEF D
          <5>2. QED BY <1>1, <2>5, <3>1, <3>2, <5>1
        <4>2. next \in p + 1..x
          BY <1>1, <1>4, <3>1, <4>1
        <4>3. q < p
          BY <1>1, <3>1, <3>2 DEF Null
        <4>4. QED BY <1>1, <1>2, <3>1, <3>2, <4>2, <4>3
      <3>3. CASE q # prev
        BY <1>2, <1>4, <2>5, <3>1, <3>3
      <3>4. QED BY <3>2, <3>3
    <2>6. BlocksApart'
      BY <1>2, <1>8, <2>2, <2>3, <2>4, <2>5 DEF BlocksApart
    <2>7. QED BY <1>2, <1>3, <1>6, <2>6
  <1>9. DOMAIN hdr' \subseteq Nat
    BY <1>2, <1>3
  <1>10. QED BY <1>6, <1>7, <1>8, <1>9

\* The blocks above move down by the size of the block, those below stay.
LEMMA UnlinkedSpan ==
    ASSUME Sound, Sound', NEW prev, NEW p, NEW next,
           Between(prev, p, next), Unlinked(prev, p, next)
    PROVE  Span' = Span - Length(p)
  <1> DEFINE D == DOMAIN hdr \ {p}
             L == Length(p)
             at == [q \in D |-> IF q < p THEN Target[q] ELSE Target[q] - L]
  <1>1. /\ p \in DOMAIN hdr /\ p \in Nat /\ prev \in Int /\ next \in Int
        /\ next = hdr[p].next
        /\ prev = Null <=> p = allocs
        /\ next = Null <=> p = last_alloc
        /\ prev # Null => prev \in D /\ prev < p /\ hdr[prev].next = p
        /\ next # Null => next \in D /\ p < next
        /\ \A q \in D :
              /\ hdr[q].next = p => q = prev
              /\ q < p => prev # Null /\ q <= prev
              /\ p < q => next # Null /\ next <= q
    BY DEF Between
  <1>2. /\ DOMAIN hdr' = D
        /\ \A q \in D :
              /\ hdr'[q].end = hdr[q].end
              /\ hdr'[q].next = IF q = prev THEN next ELSE hdr[q].next
        /\ allocs' = IF prev = Null THEN next ELSE allocs
        /\ last_alloc' = IF next = Null THEN prev ELSE last_alloc
    BY DEF Unlinked
  <1>3. /\ allocs \in DOMAIN hdr /\ last_alloc \in DOMAIN hdr
        /\ \A q \in DOMAIN hdr : q \in Nat /\ allocs <= q /\ q <= last_alloc
        /\ \A q \in DOMAIN hdr \ {last_alloc} :
              hdr[q].next \in DOMAIN hdr /\ q < hdr[q].next
        /\ \A q \in DOMAIN hdr : Length(q) \in Nat
    BY <1>1, Order DEF Sound, Types
  <1>4. /\ \A q \in DOMAIN hdr : Target[q] \in Nat
        /\ Target[allocs] = 0
        /\ \A q \in DOMAIN hdr \ {last_alloc} :
              Target[hdr[q].next] = Target[q] + Length(q)
    BY <1>1, SoundTarget DEF TargetFacts
  <1>5. L \in Nat
    BY <1>1, <1>3
  <1>6. /\ \A q \in D : q < p => at[q] = Target[q]
        /\ \A q \in D : p < q => at[q] = Target[q] - L
    BY <1>1, <1>3
  <1>a. prev # Null => Target[p] = Target[prev] + Length(prev)
    BY <1>1, <1>3, <1>4
  <1>b. next # Null => Target[next] = Target[p] + L
    BY <1>1, <1>4
  <1> HIDE DEF at, L
  <1>7. Span = Target[last_alloc] + Length(last_alloc)
    BY <1>1 DEF Span
  <1>8. CASE D = {}
    <2>1. prev = Null /\ next = Null
      BY <1>1, <1>8
    <2>2. p = allocs /\ p = last_alloc /\ DOMAIN hdr' = {}
      BY <1>1, <1>2, <1>8, <2>1
    <2>3. Span' = 0 /\ Span = L
      BY <1>4, <1>5, <1>7, <2>2 DEF Span, L
    <2>4. QED BY <1>5, <2>3 DEF L
  <1>9. CASE D # {}
    <2>1. prev # Null \/ next # Null
      <3>1. PICK q \in D : TRUE
        BY <1>9
      <3>2. q \in Nat /\ q # p
        BY <1>3, <3>1
      <3>3. QED BY <1>1, <3>1, <3>2
    <2>2. at[allocs'] = 0
      <3>1. CASE prev = Null
        <4>1. allocs' = next /\ p = allocs /\ next \in D /\ p < next
          BY <1>1, <1>2, <2>1, <3>1
        <4>2. at[next] = Target[next] - L /\ Target[next] = L
          BY <1>b, <1>4, <1>5, <1>6, <4>1, <2>1, <3>1
        <4>3. QED BY <1>5, <4>1, <4>2
      <3>2. CASE prev # Null
        <4>1. allocs' = allocs /\ allocs \in D /\ allocs < p
          BY <1>1, <1>2, <1>3, <3>2
        <4>2. QED BY <1>4, <1>6, <4>1
      <3>3. QED BY <3>1, <3>2
    <2>3. ASSUME NEW q \in D \ {last_alloc'}
          PROVE  at[hdr'[q].next] = at[q] + (hdr'[q].end - q)
      <3>1. /\ q \in DOMAIN hdr /\ q \in Nat /\ q \in D /\ q # p
            /\ hdr'[q].end - q = Length(q) /\ Length(q) \in Nat
            /\ Target[q] \in Nat
        BY <1>2, <1>3, <1>4 DEF Length
      <3>2. CASE q = prev
        <4>1. prev # Null /\ next # Null
          BY <1>2, <2>1, <2>3, <3>1, <3>2 DEF Null
        <4>2. hdr'[q].next = next /\ at[next] = Target[next] - L
          BY <1>1, <1>2, <1>6, <3>1, <3>2, <4>1
        <4>3. at[next] = Target[prev] + Length(prev)
          BY <1>a, <1>b, <1>1, <1>4, <1>5, <4>1, <4>2
        <4>4. at[q] = Target[prev]
          BY <1>1, <1>6, <3>1, <3>2, <4>1
        <4>5. QED BY <3>1, <3>2, <4>2, <4>3, <4>4
      <3>3. CASE q # prev /\ q < p
        <4>1. q # last_alloc
          BY <1>1, <1>3, <3>1, <3>3
        <4>2. hdr'[q].next = hdr[q].next /\ hdr[q].next \in DOMAIN hdr
          BY <1>2, <1>3, <3>1, <3>3, <4>1
        <4>3. prev \in DOMAIN hdr /\ q < prev /\ prev < p
          BY <1>1, <3>1, <3>3
        <4>4. hdr[q].next \in q + 1..prev
          BY <3>1, <4>3 DEF Sound, BlocksApart
        <4>5. hdr[q].next < p /\ hdr[q].next \in D
          BY <1>1, <1>3, <3>1, <4>2, <4>3, <4>4
        <4>6. QED BY <1>4, <1>6, <3>1, <3>3, <4>1, <4>2, <4>5
      <3>4. CASE q # prev /\ p < q
        <4>1. q # last_alloc
          BY <1>1, <1>2, <2>3, <3>1, <3>4
        <4>2. hdr'[q].next = hdr[q].next /\ hdr[q].next \in DOMAIN hdr
              /\ q < hdr[q].next
          BY <1>2, <1>3, <3>1, <3>4, <4>1
        <4>3. p < hdr[q].next /\ hdr[q].next \in D
          BY <1>1, <1>3, <3>1, <3>4, <4>2
        <4>4. /\ at[hdr[q].next] = Target[hdr[q].next] - L
              /\ at[q] = Target[q] - L
              /\ Target[hdr[q].next] = Target[q] + Length(q)
          BY <1>4, <1>6, <3>1, <3>4, <4>1, <4>3
        <4>5. QED BY <1>5, <3>1, <4>2, <4>4
      <3>5. QED BY <1>1, <3>1, <3>2, <3>3, <3>4
    <2>4. \A q \in D : at[q] = Target'[q]
      <3>1. DOMAIN hdr' # {}
        BY <1>2, <1>9
      <3>2. QED BY <1>2, <2>2, <2>3, <3>1, TargetUniqueNext
    <2>5. Span' = Target'[last_alloc'] + (hdr'[last_alloc'].end - last_alloc')
      BY <1>2, <1>9 DEF Span, Length
    <2>6. CASE next = Null
      <3>1. /\ last_alloc' = prev /\ p = last_alloc /\ prev \in D
            /\ prev < p /\ prev \in DOMAIN hdr
        BY <1>1, <1>2, <2>1, <2>6
      <3>2. Target'[prev] = Target[prev] /\ hdr'[prev].end - prev = Length(prev)
        BY <1>2, <1>6, <2>4, <3>1 DEF Length
      <3>3. Target[last_alloc] \in Nat
        BY <1>3, <1>4
      <3>4. QED BY <1>a, <1>5, <1>7, <2>1, <2>5, <2>6, <3>1, <3>2, <3>3 DEF L
    <2>7. CASE next # Null
      <3>1. last_alloc' = last_alloc /\ last_alloc \in D /\ p < last_alloc
        BY <1>1, <1>2, <1>3, <2>7
      <3>2. /\ Target'[last_alloc] = Target[last_alloc] - L
            /\ hdr'[last_alloc].end - last_alloc = Length(last_alloc)
        BY <1>2, <1>6, <2>4, <3>1 DEF Length
      <3>3. Target[last_alloc] \in Nat /\ Length(last_alloc) \in Nat
        BY <1>3, <1>4
      <3>4. QED BY <1>5, <1>7, <2>5, <3>1, <3>2, <3>3 DEF L
    <2>8. QED BY <2>6, <2>7
  <1>10. QED BY <1>8, <1>9

LEMMA FreeOwned ==
    ASSUME Sound, NEW d \in DOMAIN owned, Free(d)
    PROVE  /\ DOMAIN owned' = DOMAIN owned \ {d}
           /\ \A e \in DOMAIN owned' : owned'[e] = owned[e]
           /\ DOMAIN owned' \subseteq Nat /\ owned' \in [DOMAIN owned' -> Nat]
  BY DEF Free, Restrict, Sound, Types

LEMMA UnlinkedOwners ==
    ASSUME Sound, OwnersServed, NEW d \in DOMAIN owned, Free(d),
           NEW prev, NEW p, NEW next, p = d - RESERVE_ALLOC_SIZE,
           Between(prev, p, next), Unlinked(prev, p, next)
    PROVE  OwnersServed'
  <1> DEFINE D == DOMAIN hdr \ {p}
             R == RESERVE_ALLOC_SIZE
  <1>1. /\ p \in DOMAIN hdr /\ p \in Nat
        /\ next = hdr[p].next
        /\ prev = Null <=> p = allocs
        /\ prev # Null => prev \in D /\ hdr[prev].next = p
        /\ next # Null => next \in D
        /\ \A q \in D : hdr[q].next = p => q = prev
    BY DEF Between
  <1>2. /\ DOMAIN hdr' = D
        /\ \A q \in D :
              /\ hdr'[q].end = hdr[q].end
              /\ hdr'[q].prev = IF q = next THEN prev ELSE hdr[q].prev
              /\ hdr'[q].next = IF q = prev THEN next ELSE hdr[q].next
        /\ allocs' = IF prev = Null THEN next ELSE allocs
    BY DEF Unlinked
  <1>3. ASSUME NEW e \in DOMAIN owned'
        PROVE  LET q == e - R
               IN /\ q \in DOMAIN hdr'
                  /\ hdr'[q].end = e + owned'[e]
                  /\ hdr'[q].prev = Null => allocs' = q
                  /\ hdr'[q].prev # Null => /\ hdr'[q].prev \in DOMAIN hdr'
                                            /\ hdr'[hdr'[q].prev].next = q
                  /\ hdr'[q].next # Null => hdr'[q].next \in DOMAIN hdr'
    <2> DEFINE q == e - R
    <2>1. e \in DOMAIN owned /\ e # d /\ owned'[e] = owned[e]
      BY <1>3, FreeOwned
    <2>2. /\ q \in DOMAIN hdr /\ hdr[q].end = e + owned[e]
          /\ hdr[q].prev = Null => allocs = q
          /\ hdr[q].prev # Null =>
                hdr[q].prev \in DOMAIN hdr /\ hdr[hdr[q].prev].next = q
          /\ hdr[q].next # Null => hdr[q].next \in DOMAIN hdr
      BY <2>1 DEF OwnersServed
    <2>3. q # p
      BY <2>1, MemPoolAssumption DEF Sound, Types
    <2> HIDE DEF q
    <2>4. q \in D
      BY <2>2, <2>3
    <2> HIDE DEF D
    <2>5. hdr'[q].end = e + owned'[e]
      BY <1>2, <2>1, <2>2, <2>4
    <2>6. hdr'[q].next # Null => hdr'[q].next \in D
      <3>1. CASE q = prev
        BY <1>1, <1>2, <2>4, <3>1
      <3>2. CASE q # prev
        BY <1>1, <1>2, <2>2, <2>4, <3>2 DEF D
      <3>3. QED BY <3>1, <3>2
    <2>7. CASE q = next
      <3>1. hdr'[q].prev = prev
        BY <1>2, <2>4, <2>7
      <3>2. prev = Null => allocs' = q
        BY <1>2, <2>7
      <3>3. prev # Null => prev \in D /\ hdr'[prev].next = q
        BY <1>1, <1>2, <2>7
      <3>4. QED BY <1>2, <2>4, <2>5, <2>6, <3>1, <3>2, <3>3 DEF q
    <2>8. CASE q # next
      <3>1. hdr'[q].prev = hdr[q].prev
        BY <1>2, <2>4, <2>8
      <3>2. hdr[q].prev = Null => allocs' = q
        BY <1>1, <1>2, <2>2, <2>3
      <3>3. ASSUME hdr[q].prev # Null
            PROVE  hdr[q].prev \in D /\ hdr'[hdr[q].prev].next = q
        <4>1. hdr[q].prev \in DOMAIN hdr /\ hdr[hdr[q].prev].next = q
          BY <2>2, <3>3
        <4>2. hdr[q].prev # p
          BY <1>1, <2>8, <4>1
        <4>3. hdr[q].prev # prev
          BY <1>1, <2>3, <3>3, <4>1
        <4>4. QED BY <1>2, <4>1, <4>2, <4>3 DEF D
      <3>4. QED BY <1>2, <2>4, <2>5, <2>6, <3>1, <3>2, <3>3 DEF q
    <2>9. QED BY <2>7, <2>8
  <1>4. QED BY <1>3 DEF OwnersServed

LEMMA FreeStep ==
    ASSUME IInv, NEW d \in DOMAIN owned, Free(d)
    PROVE  IInv'
  <1> DEFINE p == d - RESERVE_ALLOC_SIZE
             prev == hdr[p].prev
             next == hdr[p].next
  <1>1. Between(prev, p, next)
    BY OwnedBetween
  <1>2. Unlinked(prev, p, next)
    BY <1>1, FreeUnlinks DEF IInv
  <1>3. Sound'
    <2>1. /\ BlocksApart' /\ DOMAIN hdr' \subseteq Nat
          /\ hdr' \in [DOMAIN hdr' -> Header]
          /\ \A q \in DOMAIN hdr' : q + RESERVE_ALLOC_SIZE <= hdr'[q].end
          /\ allocs' \in Int /\ last_alloc' \in Int
      BY <1>1, <1>2, UnlinkedApart DEF IInv
    <2>2. DOMAIN owned' \subseteq Nat /\ owned' \in [DOMAIN owned' -> Nat]
      BY FreeOwned DEF IInv
    <2>3. total_free' \in Int /\ refused' = Null
      <3>1. Length(p) \in Nat
        BY <1>1, Order DEF IInv, Between
      <3>2. QED BY <3>1 DEF Free, SpaceOf, IInv, Sound, Types
    <2>4. QED BY <2>1, <2>2, <2>3 DEF Sound, Types
  <1>4. FreeAccounted'
    <2>1. Span' = Span - Length(p)
      BY <1>1, <1>2, <1>3, UnlinkedSpan DEF IInv
    <2>2. total_free' = total_free + Length(p)
      BY DEF Free, SpaceOf
    <2>3. Length(p) \in Int /\ Span \in Int
      BY <1>1, SoundTarget, Order DEF IInv, TargetFacts, Span, Between
    <2>4. total_free = Capacity - Span
      BY DEF IInv, FreeAccounted, Span
    <2>5. total_free' = Capacity - Span'
      BY <2>1, <2>2, <2>3, <2>4, MemPoolAssumption
    <2>6. QED BY <2>5 DEF FreeAccounted, Span
  <1>5. OwnersServed'
    BY <1>1, <1>2, UnlinkedOwners DEF IInv
  <1>6. RetryFits'
    BY DEF RetryFits, Free
  <1>7. QED BY <1>3, <1>4, <1>5, <1>6 DEF IInv

LEMMA ResetStep ==
    ASSUME IInv, Reset
    PROVE  IInv'
  <1>1. /\ DOMAIN hdr' = {} /\ hdr' \in [DOMAIN hdr' -> Header]
        /\ DOMAIN owned' = {} /\ owned' \in [DOMAIN owned' -> Nat]
        /\ allocs' = Null /\ last_alloc' = Null /\ refused' = Null
        /\ total_free' = Capacity /\ Capacity \in Nat
    BY MemPoolAssumption DEF Reset
  <1>2. Sound'
    BY <1>1 DEF Sound, Types, BlocksApart, Null
  <1>3. FreeAccounted'
    BY <1>1 DEF FreeAccounted
  <1>4. OwnersServed' /\ RetryFits'
    BY <1>1 DEF OwnersServed, RetryFits
  <1>5. QED BY <1>2, <1>3, <1>4 DEF IInv

-----------------------------------------------------------------------------
(* Compress.                                                                *)

\* The table with every block at its target.
Moved ==
    /\ DOMAIN hdr # {}
    /\ DOMAIN hdr' = {Target[p] : p \in DOMAIN hdr}
    /\ hdr' \in [DOMAIN hdr' -> Header]
    /\ \A p \in DOMAIN hdr :
          /\ hdr'[Target[p]].end = Target[p] + Length(p)
          /\ hdr'[Target[p]].prev = hdr[p].prev
          /\ hdr'[Target[p]].next =
                IF hdr[p].next = Null THEN Null ELSE Target[hdr[p].next]
    /\ allocs' = Target[allocs]
    /\ last_alloc' = Target[last_alloc]

LEMMA TargetOrder ==
    ASSUME Sound
    PROVE  \A p, q \in DOMAIN hdr : /\ p < q <=> Target[p] < Target[q]
                                    /\ p = q <=> Target[p] = Target[q]
  <1> SUFFICES ASSUME NEW p \in DOMAIN hdr, NEW q \in DOMAIN hdr
               PROVE  /\ p < q <=> Target[p] < Target[q]
                      /\ p = q <=> Target[p] = Target[q]
    OBVIOUS
  <1>1. /\ p \in Nat /\ q \in Nat /\ Target[p] \in Nat /\ Target[q] \in Nat
        /\ Length(p) \in Nat /\ Length(p) > 0
        /\ Length(q) \in Nat /\ Length(q) > 0
    BY SoundTarget, Order DEF Sound, Types, TargetFacts
  <1>2. p < q => Target[p] + Length(p) <= Target[q]
    BY SoundTarget DEF TargetFacts
  <1>3. q < p => Target[q] + Length(q) <= Target[p]
    BY SoundTarget DEF TargetFacts
  <1>4. QED BY <1>1, <1>2, <1>3

LEMMA HeaderIs ==
    ASSUME NEW h, NEW e, NEW b, NEW f, h = [end |-> e, prev |-> b, next |-> f]
    PROVE  /\ h.end = e /\ h.prev = b /\ h.next = f
           /\ e \in Nat /\ b \in Int /\ f \in Int => h \in Header
  BY DEF Header

LEMMA CompressMoves ==
    ASSUME Sound, DOMAIN hdr # {}, CompressPool, ~HeadersOverlap
    PROVE  Moved
  <1> DEFINE last == CHOOSE p \in DOMAIN hdr : hdr[p].next = Null
             From(q) == CHOOSE b \in DOMAIN hdr : Target[b] = q
             to(p) == IF hdr[p].next = Null THEN Null ELSE Target[hdr[p].next]
  <1>1. hdr' = Compressed /\ allocs' = Target[allocs] /\ last_alloc' = Target[last]
    BY DEF CompressPool
  <1>2. last = last_alloc
    BY Order
  <1>3. \A p \in DOMAIN hdr : From(Target[p]) = p
    BY TargetOrder
  <1> HIDE DEF last
  <1>4. \A p \in DOMAIN hdr :
           /\ Target[p] \in Nat /\ Length(p) \in Nat
           /\ hdr[p].next # Null => hdr[p].next \in DOMAIN hdr
    BY SoundTarget, Order DEF TargetFacts
  <1>5. DOMAIN hdr' = {Target[p] : p \in DOMAIN hdr}
    BY <1>1 DEF Compressed
  <1>6. ASSUME NEW p \in DOMAIN hdr
        PROVE  hdr'[Target[p]] =
                 [end |-> Target[p] + Length(p),
                  prev |-> hdr[p].prev,
                  next |-> to(p)]
    <2>1. hdr'[Target[p]] =
            LET b == From(Target[p])
            IN [end |-> Target[p] + Length(b),
                prev |-> hdr[b].prev,
                next |-> to(b)]
      BY <1>1, <1>6 DEF Compressed
    <2> HIDE DEF From, to
    <2>2. QED BY <1>3, <2>1
  <1>7. ASSUME NEW p \in DOMAIN hdr PROVE hdr'[Target[p]] \in Header
    <2>1. hdr[p].prev \in Int /\ Null \in Int
      BY DEF Sound, Types, Header, Null
    <2>2. to(p) \in Int
      BY <1>4, <2>1
    <2> HIDE DEF to, From
    <2>3. Target[p] + Length(p) \in Nat
      BY <1>4
    <2> DEFINE h == hdr'[Target[p]]
    <2>4. h = [end |-> Target[p] + Length(p), prev |-> hdr[p].prev,
               next |-> to(p)]
      BY <1>6
    <2> HIDE DEF h
    <2>5. h \in Header
      BY <2>1, <2>2, <2>3, <2>4, HeaderIs
    <2>6. QED BY <2>5 DEF h
  <1>8. hdr' \in [DOMAIN hdr' -> Header]
    <2>1. hdr' = [q \in DOMAIN hdr' |-> hdr'[q]]
      BY <1>1 DEF Compressed
    <2>2. \A q \in DOMAIN hdr' : hdr'[q] \in Header
      BY <1>5, <1>7
    <2>3. QED BY <2>1, <2>2
  <1>9. ASSUME NEW p \in DOMAIN hdr
        PROVE  /\ hdr'[Target[p]].end = Target[p] + Length(p)
               /\ hdr'[Target[p]].prev = hdr[p].prev
               /\ hdr'[Target[p]].next = to(p)
    <2> HIDE DEF to, From
    <2> DEFINE h == hdr'[Target[p]]
    <2>1. h = [end |-> Target[p] + Length(p), prev |-> hdr[p].prev,
               next |-> to(p)]
      BY <1>6
    <2> HIDE DEF h
    <2>2. h.end = Target[p] + Length(p) /\ h.prev = hdr[p].prev /\ h.next = to(p)
      BY <2>1, HeaderIs
    <2>3. QED BY <2>2 DEF h
  <1>10. QED BY <1>1, <1>2, <1>5, <1>8, <1>9 DEF Moved

LEMMA MovedApart ==
    ASSUME Sound, Moved
    PROVE  /\ BlocksApart'
           /\ DOMAIN hdr' \subseteq Nat
           /\ \A q \in DOMAIN hdr' : q + RESERVE_ALLOC_SIZE <= hdr'[q].end
           /\ allocs' \in Int /\ last_alloc' \in Int
  <1> USE MemPoolAssumption
  <1>1. /\ DOMAIN hdr # {}
        /\ DOMAIN hdr' = {Target[p] : p \in DOMAIN hdr}
        /\ \A p \in DOMAIN hdr :
              /\ hdr'[Target[p]].end = Target[p] + Length(p)
              /\ hdr'[Target[p]].next =
                    IF hdr[p].next = Null THEN Null ELSE Target[hdr[p].next]
        /\ allocs' = Target[allocs] /\ last_alloc' = Target[last_alloc]
    BY DEF Moved
  <1>2. /\ allocs \in DOMAIN hdr /\ last_alloc \in DOMAIN hdr
        /\ \A p \in DOMAIN hdr :
              /\ p \in Nat /\ Target[p] \in Nat /\ Target[p] <= p
              /\ Length(p) \in Nat /\ allocs <= p
              /\ hdr[p].next = Null <=> p = last_alloc
        /\ Target[allocs] = 0
        /\ \A p \in DOMAIN hdr \ {last_alloc} :
              /\ hdr[p].next \in DOMAIN hdr /\ p < hdr[p].next
              /\ Target[hdr[p].next] = Target[p] + Length(p)
    BY <1>1, SoundTarget, Order DEF TargetFacts, Sound, Types
  <1>3. ASSUME NEW p \in DOMAIN hdr
        PROVE  Target[p] + RESERVE_ALLOC_SIZE <= hdr'[Target[p]].end
    BY <1>1, <1>2 DEF Sound, Types, Header, Length
  <1>4. hdr'[Target[last_alloc]].end <= Capacity
    <2>1. hdr[last_alloc].end \in Nat /\ hdr[last_alloc].end <= Capacity
      BY <1>1, <1>2 DEF Sound, Types, Header, BlocksApart
    <2>2. hdr'[Target[last_alloc]].end
            = Target[last_alloc] + (hdr[last_alloc].end - last_alloc)
      BY <1>1, <1>2 DEF Length
    <2>3. QED BY <1>2, <2>1, <2>2
  <1>5. ASSUME NEW p \in DOMAIN hdr, p # last_alloc
        PROVE  /\ hdr'[Target[p]].next \in DOMAIN hdr'
               /\ hdr'[Target[p]].end <= hdr'[Target[p]].next
    BY <1>1, <1>2, <1>5
  <1>6. ASSUME NEW p \in DOMAIN hdr, NEW x \in DOMAIN hdr,
               Target[p] < Target[x]
        PROVE  hdr'[Target[p]].next \in Target[p] + 1..Target[x]
    <2>1. p < x
      BY <1>6, TargetOrder
    <2>2. hdr[p].next \in p + 1..x
      BY <2>1 DEF Sound, BlocksApart
    <2>3. hdr[p].next # Null
      BY <1>2, <2>2 DEF Null
    <2>4. hdr[p].next \in DOMAIN hdr
      BY <1>2, <2>3
    <2>5. Target[p] < Target[hdr[p].next] /\ ~(Target[x] < Target[hdr[p].next])
      BY <1>2, <2>1, <2>2, <2>4, TargetOrder
    <2>6. QED BY <1>1, <1>2, <2>3, <2>4, <2>5
  <1>7. BlocksApart'
    <2>1. /\ allocs' \in DOMAIN hdr' /\ allocs' >= 0
          /\ last_alloc' \in DOMAIN hdr'
          /\ hdr'[last_alloc'].next = Null /\ hdr'[last_alloc'].end <= Capacity
      BY <1>1, <1>2, <1>4
    <2>2. ASSUME NEW q \in DOMAIN hdr'
          PROVE  /\ allocs' <= q
                 /\ q # last_alloc' => /\ hdr'[q].next \in DOMAIN hdr'
                                       /\ hdr'[q].end <= hdr'[q].next
                 /\ \A x \in DOMAIN hdr' : q < x => hdr'[q].next \in q + 1..x
      <3>1. PICK p \in DOMAIN hdr : q = Target[p]
        BY <1>1
      <3>2. allocs' <= q
        BY <1>1, <1>2, <3>1
      <3>3. q # last_alloc' => p # last_alloc
        BY <1>1, <3>1
      <3>4. QED BY <1>1, <1>5, <1>6, <3>1, <3>2, <3>3
    <2>3. QED BY <2>1, <2>2 DEF BlocksApart
  <1>8. QED BY <1>1, <1>2, <1>3, <1>7

\* A compressed pool is as long as its blocks, and stays where it is.
LEMMA MovedSpan ==
    ASSUME Sound, Sound', Moved
    PROVE  Span' = Span /\ hdr'[last_alloc'].end = Span
  <1> DEFINE at == [q \in DOMAIN hdr' |-> q]
  <1>1. /\ DOMAIN hdr # {}
        /\ DOMAIN hdr' = {Target[p] : p \in DOMAIN hdr}
        /\ \A p \in DOMAIN hdr :
              /\ hdr'[Target[p]].end = Target[p] + Length(p)
              /\ hdr'[Target[p]].next =
                    IF hdr[p].next = Null THEN Null ELSE Target[hdr[p].next]
        /\ allocs' = Target[allocs] /\ last_alloc' = Target[last_alloc]
    BY DEF Moved
  <1>2. /\ allocs \in DOMAIN hdr /\ last_alloc \in DOMAIN hdr
        /\ \A p \in DOMAIN hdr :
              /\ Target[p] \in Nat /\ Length(p) \in Nat
              /\ hdr[p].next = Null <=> p = last_alloc
        /\ Target[allocs] = 0
        /\ \A p \in DOMAIN hdr \ {last_alloc} :
              /\ hdr[p].next \in DOMAIN hdr
              /\ Target[hdr[p].next] = Target[p] + Length(p)
    BY <1>1, SoundTarget, Order DEF TargetFacts
  <1>3. at[allocs'] = 0 /\ last_alloc' \in DOMAIN hdr'
    BY <1>1, <1>2
  <1>4. ASSUME NEW q \in DOMAIN hdr' \ {last_alloc'}
        PROVE  at[hdr'[q].next] = at[q] + (hdr'[q].end - q)
    <2>1. PICK p \in DOMAIN hdr : q = Target[p]
      BY <1>1
    <2>2. p # last_alloc
      BY <1>1, <1>4, <2>1
    <2>3. hdr'[q].next = Target[p] + Length(p) /\ hdr'[q].next \in DOMAIN hdr'
      BY <1>1, <1>2, <2>1, <2>2
    <2>4. hdr'[q].end = Target[p] + Length(p)
      BY <1>1, <2>1
    <2>5. QED BY <1>2, <2>1, <2>3, <2>4
  <1>5. Target'[last_alloc'] = last_alloc'
    <2>1. DOMAIN hdr' # {}
      BY <1>3
    <2>2. \A q \in DOMAIN hdr' : at[q] = Target'[q]
      <3> HIDE DEF at
      <3>1. QED BY <1>3, <1>4, <2>1, TargetUniqueNext
    <2>3. QED BY <1>3, <2>2
  <1>6. Span' = last_alloc' + (hdr'[last_alloc'].end - last_alloc')
    BY <1>3, <1>5 DEF Span, Length
  <1>7. Span = Target[last_alloc] + Length(last_alloc)
    BY <1>1 DEF Span
  <1>8. QED BY <1>1, <1>2, <1>6, <1>7

\* A block that keeps its place has a neighbour in front that keeps its own.
LEMMA KeptOwners ==
    ASSUME Sound, OwnersServed, Moved,
           owned' = Restrict(owned,
                       {d \in DOMAIN owned :
                          Target[d - RESERVE_ALLOC_SIZE] = d - RESERVE_ALLOC_SIZE})
    PROVE  OwnersServed'
  <1> DEFINE R == RESERVE_ALLOC_SIZE
  <1>1. /\ DOMAIN hdr' = {Target[p] : p \in DOMAIN hdr}
        /\ \A p \in DOMAIN hdr :
              /\ hdr'[Target[p]].end = Target[p] + Length(p)
              /\ hdr'[Target[p]].prev = hdr[p].prev
              /\ hdr'[Target[p]].next =
                    IF hdr[p].next = Null THEN Null ELSE Target[hdr[p].next]
        /\ allocs' = Target[allocs]
    BY DEF Moved
  <1>2. /\ last_alloc \in DOMAIN hdr
        /\ \A p \in DOMAIN hdr :
              /\ p \in Nat /\ Target[p] \in Nat /\ Target[p] <= p
              /\ Length(p) \in Nat /\ hdr[p].end \in Nat
              /\ hdr[p].next = Null <=> p = last_alloc
        /\ \A p \in DOMAIN hdr \ {last_alloc} :
              /\ hdr[p].next \in DOMAIN hdr /\ hdr[p].end <= hdr[p].next
              /\ Target[hdr[p].next] = Target[p] + Length(p)
    <2>1. DOMAIN hdr # {}
      BY DEF Moved
    <2>2. last_alloc \in DOMAIN hdr
      BY <2>1, Order
    <2>3. ASSUME NEW p \in DOMAIN hdr
          PROVE  /\ p \in Nat /\ Target[p] \in Nat /\ Target[p] <= p
                 /\ Length(p) \in Nat /\ hdr[p].end \in Nat
                 /\ hdr[p].next = Null <=> p = last_alloc
      BY SoundTarget, Order DEF TargetFacts, Sound, Types, Header
    <2>4. ASSUME NEW p \in DOMAIN hdr \ {last_alloc}
          PROVE  /\ hdr[p].next \in DOMAIN hdr /\ hdr[p].end <= hdr[p].next
                 /\ Target[hdr[p].next] = Target[p] + Length(p)
      BY SoundTarget DEF TargetFacts, Sound, BlocksApart
    <2>5. QED BY <2>2, <2>3, <2>4
  <1>3. ASSUME NEW d \in DOMAIN owned'
        PROVE  LET p == d - R
               IN /\ p \in DOMAIN hdr'
                  /\ hdr'[p].end = d + owned'[d]
                  /\ hdr'[p].prev = Null => allocs' = p
                  /\ hdr'[p].prev # Null => /\ hdr'[p].prev \in DOMAIN hdr'
                                            /\ hdr'[hdr'[p].prev].next = p
                  /\ hdr'[p].next # Null => hdr'[p].next \in DOMAIN hdr'
    <2> DEFINE p == d - R
    <2>1. d \in DOMAIN owned /\ owned'[d] = owned[d] /\ Target[p] = p
      BY <1>3 DEF Restrict
    <2>2. /\ p \in DOMAIN hdr /\ hdr[p].end = d + owned[d]
          /\ hdr[p].prev = Null => allocs = p
          /\ hdr[p].prev # Null =>
                hdr[p].prev \in DOMAIN hdr /\ hdr[hdr[p].prev].next = p
      BY <2>1 DEF OwnersServed
    <2> HIDE DEF p
    <2> DEFINE b == hdr[p].prev
    <2>3. /\ p \in DOMAIN hdr' /\ hdr'[p].end = d + owned'[d]
          /\ hdr'[p].prev = b
      <3>1. p + Length(p) = hdr[p].end
        BY <1>2, <2>2 DEF Length
      <3>2. QED BY <1>1, <2>1, <2>2, <3>1
    <2>4. b = Null => allocs' = p
      BY <1>1, <2>1, <2>2
    <2>5. ASSUME b # Null PROVE b \in DOMAIN hdr' /\ hdr'[b].next = p
      <3>1. b \in DOMAIN hdr /\ hdr[b].next = p
        BY <2>2, <2>5
      <3>2. b # last_alloc
        BY <1>2, <2>2, <3>1 DEF Null
      <3>3. p = Target[b] + (hdr[b].end - b) /\ hdr[b].end <= p
        BY <1>2, <2>1, <3>1, <3>2 DEF Length
      <3>4. Target[b] = b
        <4>1. /\ b \in Nat /\ Target[b] \in Nat /\ Target[b] <= b
              /\ hdr[b].end \in Nat /\ p \in Nat
          BY <1>2, <2>2, <3>1
        <4> HIDE DEF b
        <4>2. QED BY <3>3, <4>1
      <3>5. hdr[b].next # Null
        BY <1>2, <3>1, <3>2
      <3>6. QED BY <1>1, <2>1, <3>1, <3>4, <3>5
    <2>6. hdr'[p].next # Null => hdr'[p].next \in DOMAIN hdr'
      BY <1>1, <1>2, <2>1, <2>2
    <2>7. QED BY <2>3, <2>4, <2>5, <2>6 DEF p
  <1>4. QED BY <1>3 DEF OwnersServed

LEMMA CompressStep ==
    ASSUME IInv, DOMAIN hdr # {}, CompressPool, refused' \in Nat \cup {Null}
    PROVE  /\ Sound' /\ FreeAccounted' /\ OwnersServed'
           /\ \/ state' = "corrupted"
              \/ /\ last_alloc' # Null
                 /\ Capacity - hdr'[last_alloc'].end = total_free
  <1>1. CASE HeadersOverlap
    <2>1. /\ state' = "corrupted"
          /\ UNCHANGED <<hdr, allocs, last_alloc, total_free, owned>>
      BY <1>1 DEF CompressPool, pool
    <2>2. Sound'
      BY <2>1 DEF IInv, Sound, Types, BlocksApart
    <2>3. Target' = Target
      BY <2>1 DEF Target, Before, Length
    <2>4. FreeAccounted' /\ OwnersServed'
      BY <2>1, <2>3 DEF IInv, FreeAccounted, OwnersServed, Length
    <2>5. QED BY <2>1, <2>2, <2>4
  <1>2. CASE ~HeadersOverlap
    <2>1. Moved
      BY <1>2, CompressMoves DEF IInv
    <2>2. /\ owned' = Restrict(owned, {d \in DOMAIN owned :
                         Target[d - RESERVE_ALLOC_SIZE] = d - RESERVE_ALLOC_SIZE})
          /\ total_free' = total_free
      BY <1>2 DEF CompressPool
    <2>3. OwnersServed'
      BY <2>1, <2>2, KeptOwners DEF IInv
    <2>4. Sound'
      <3>1. DOMAIN owned' \subseteq Nat /\ owned' \in [DOMAIN owned' -> Nat]
        BY <2>2 DEF Restrict, IInv, Sound, Types
      <3>2. hdr' \in [DOMAIN hdr' -> Header]
        BY <2>1 DEF Moved
      <3>3. QED BY <2>1, <2>2, <3>1, <3>2, MovedApart DEF IInv, Sound, Types
    <2>5. Span' = Span /\ hdr'[last_alloc'].end = Span
      BY <2>1, <2>4, MovedSpan DEF IInv
    <2>6. total_free = Capacity - Span /\ Span \in Int
      BY SoundTarget, Order
         DEF IInv, FreeAccounted, Span, TargetFacts
    <2>7. FreeAccounted'
      BY <2>2, <2>5, <2>6 DEF FreeAccounted, Span
    <2>8. last_alloc' # Null
      <3>1. last_alloc' \in Nat
        BY <2>1, Order, SoundTarget DEF Moved, IInv, TargetFacts
      <3>2. QED BY <3>1 DEF Null
    <2>9. QED BY <2>3, <2>4, <2>5, <2>6, <2>7, <2>8
  <1>3. QED BY <1>1, <1>2

LEMMA OwnerCompresses ==
    ASSUME IInv, Compress
    PROVE  IInv'
  <1>1. DOMAIN hdr # {} /\ refused' = Null /\ CompressPool
    BY DEF Compress, IInv, Sound, BlocksApart
  <1>2. QED BY <1>1, CompressStep DEF IInv, RetryFits

LEMMA MallocFragmentedStep ==
    ASSUME IInv, NEW n \in Request, MallocFragmented(n)
    PROVE  IInv'
  <1>1. DOMAIN hdr # {} /\ refused' = n /\ n \in Nat /\ CompressPool
    BY MemPoolAssumption
       DEF MallocFragmented, IInv, Sound, BlocksApart
  <1>2. Sound' /\ FreeAccounted' /\ OwnersServed'
    BY <1>1, CompressStep
  <1>3. RetryFits'
    <2>1. \/ state' = "corrupted"
          \/ /\ last_alloc' # Null
             /\ Capacity - hdr'[last_alloc'].end >= RealSize(n)
      BY <1>1, CompressStep DEF MallocFragmented, Enough
    <2>2. QED BY <1>1, <2>1 DEF RetryFits, TailFits, RealSize
  <1>4. QED BY <1>2, <1>3 DEF IInv

-----------------------------------------------------------------------------
(* The theorems.                                                            *)

LEMMA InitIInv == Init => IInv
  <1> SUFFICES ASSUME Init PROVE IInv
    OBVIOUS
  <1>1. /\ DOMAIN hdr = {} /\ hdr \in [DOMAIN hdr -> Header]
        /\ DOMAIN owned = {} /\ owned \in [DOMAIN owned -> Nat]
        /\ allocs = Null /\ last_alloc = Null /\ refused = Null
        /\ total_free = Capacity /\ Capacity \in Nat
    BY MemPoolAssumption DEF Init
  <1>2. Sound
    BY <1>1 DEF Sound, Types, BlocksApart, Null
  <1>3. QED BY <1>1, <1>2 DEF IInv, FreeAccounted, OwnersServed, RetryFits

\* Where the pool stays as it is.
LEMMA PoolKept ==
    ASSUME IInv, UNCHANGED <<pool, owned, refused>>,
           state' = state \/ state' # "live"
    PROVE  IInv'
  <1>1. UNCHANGED <<hdr, allocs, last_alloc, total_free, owned, refused>>
    BY DEF pool
  <1>2. Sound'
    BY <1>1 DEF IInv, Sound, Types, BlocksApart
  <1>3. Target' = Target
    BY <1>1 DEF Target, Before, Length
  <1>4. FreeAccounted' /\ OwnersServed'
    BY <1>1, <1>3 DEF IInv, FreeAccounted, OwnersServed, Length
  <1>5. RetryFits'
    BY <1>1 DEF IInv, RetryFits, TailFits, RealSize
  <1>6. QED BY <1>2, <1>4, <1>5 DEF IInv

LEMMA StepIInv == IInv /\ [Next]_vars => IInv'
  <1> SUFFICES ASSUME IInv, [Next]_vars PROVE IInv'
    OBVIOUS
  <1>1. ASSUME NEW n \in Request, MallocFirst(n) PROVE IInv'
    BY <1>1, MallocFirstStep
  <1>2. ASSUME NEW n \in Request, MallocTail(n) PROVE IInv'
    BY <1>2, MallocTailStep
  <1>3. ASSUME NEW n \in Request, MallocGap(n) PROVE IInv'
    BY <1>3, MallocGapStep
  <1>4. ASSUME NEW n \in Request, MallocFragmented(n) PROVE IInv'
    BY <1>4, MallocFragmentedStep
  <1>5. ASSUME NEW n \in Request, MallocShort(n) PROVE IInv'
    BY <1>5, PoolKept DEF MallocShort
  <1>6. ASSUME NEW n \in Request, CallocCrashes(n) PROVE IInv'
    BY <1>6, PoolKept DEF CallocCrashes
  <1>7. ASSUME NEW d \in DOMAIN owned, Free(d) PROVE IInv'
    BY <1>7, FreeStep
  <1>8. ASSUME Compress PROVE IInv'
    BY <1>8, OwnerCompresses
  <1>9. ASSUME CompressCrashes PROVE IInv'
    BY <1>9, PoolKept DEF CompressCrashes
  <1>10. ASSUME Reset PROVE IInv'
    BY <1>10, ResetStep
  <1>11. ASSUME Destroy PROVE IInv'
    BY <1>11, PoolKept DEF Destroy
  <1>12. ASSUME UNCHANGED vars PROVE IInv'
    BY <1>12, PoolKept DEF vars
  <1>13. QED BY <1>1, <1>2, <1>3, <1>4, <1>5, <1>6, <1>7, <1>8, <1>9, <1>10,
                <1>11, <1>12 DEF Next, Malloc, Over

LEMMA AlwaysIInv == Spec => []IInv
  BY InitIInv, StepIInv, PTL DEF Spec

\* The blocks of the pool stay in order and never overlap, in every pool of
\* every size: mpool_malloc, mpool_free and mpool_compress keep the list that
\* way (at_mpool.c:77-161).
THEOREM BlocksStayApart == Spec => []BlocksApart
  <1>1. IInv => BlocksApart
    BY DEF IInv, Sound
  <1>2. QED BY <1>1, AlwaysIInv, PTL

\* total_free, which mpool_malloc and mpool_free only count up and down, is at
\* all times what the blocks would leave of the buffer pushed together.
THEOREM SpaceStaysAccounted == Spec => []FreeAccounted
  <1>1. IInv => FreeAccounted
    BY DEF IInv
  <1>2. QED BY <1>1, AlwaysIInv, PTL

\* A block whose owner was not moved keeps its size and finds its neighbours,
\* through whatever mpool_free and mpool_compress did to those.
THEOREM OwnersStayServed == Spec => []OwnersServed
  <1>1. IInv => OwnersServed
    BY DEF IInv
  <1>2. QED BY <1>1, AlwaysIInv, PTL

\* mpool_malloc that compressed the pool and returned NULL succeeds behind the
\* last block when the caller asks again (at_mpool.c:121-125).
THEOREM RetriesFit == Spec => []RetryFits
  <1>1. IInv => RetryFits
    BY DEF IInv
  <1>2. QED BY <1>1, AlwaysIInv, PTL
=============================================================================
