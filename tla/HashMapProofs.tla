---------------------------- MODULE HashMapProofs ----------------------------
(***************************************************************************)
(* Proofs about HashMap and HashSet for all keys, hashes and values, every *)
(* capacity and any number of nodes on a list.                             *)
(***************************************************************************)
EXTENDS HashSet, FiniteSetTheorems, WellFoundedInduction, TLAPS

-----------------------------------------------------------------------------
(* Least numbers, and induction over sets of numbers.                       *)

Less == {ss \in Nat \X Nat : ss[1] < ss[2]}

LEMMA LessWellFounded == IsWellFoundedOn(Less, Nat)
  BY NatLessThanWellFounded, Zenon DEF OpToRel, Less

\* A set of natural numbers that is not empty has a least element.
LEMMA LeastNumber ==
    ASSUME NEW S \in SUBSET Nat, S # {}
    PROVE  \E n \in S : \A m \in S : n <= m
  <1>1. PICK n \in S : \A m \in S : <<m, n>> \notin Less
    BY LessWellFounded, WFMin
  <1>2. ASSUME NEW m \in S, m < n PROVE FALSE
    <2>1. <<m, n>> \in Nat \X Nat /\ <<m, n>>[1] < <<m, n>>[2]
      BY <1>2
    <2>2. QED BY <1>1, <2>1 DEF Less
  <1>3. QED BY <1>2

\* A bounded one has a greatest.
LEMMA GreatestNumber ==
    ASSUME NEW S \in SUBSET Nat, S # {}, NEW b \in Nat, \A m \in S : m <= b
    PROVE  \E n \in S : \A m \in S : m <= n
  <1> DEFINE D == {b - m : m \in S}
  <1>1. ASSUME NEW m \in S PROVE b - m \in Nat
    OBVIOUS
  <1>2. D \in SUBSET Nat /\ D # {}
    BY <1>1
  <1>3. PICK d \in D : \A e \in D : d <= e
    <2> HIDE DEF D
    <2>1. QED BY <1>2, LeastNumber
  <1>4. PICK n \in S : d = b - n
    OBVIOUS
  <1>5. ASSUME NEW m \in S PROVE m <= n
    <2>1. b - n <= b - m
      BY <1>3, <1>4
    <2>2. QED BY <2>1
  <1>6. QED BY <1>5

\* A set with 0 that has the successor of each of its members has them all.
LEMMA SetInduction ==
    ASSUME NEW S \in SUBSET Nat, 0 \in S, \A n \in S : n + 1 \in S
    PROVE  S = Nat
  <1> SUFFICES ASSUME Nat \ S # {} PROVE FALSE
    OBVIOUS
  <1>1. PICK n \in Nat \ S : \A m \in Nat \ S : n <= m
    BY LeastNumber
  <1>2. n - 1 \in S
    BY <1>1
  <1>3. QED BY <1>1, <1>2

-----------------------------------------------------------------------------
(* Tables.                                                                  *)

Node == [key : Key \cup {Zeros}, value : Value \cup {Zeros},
         prev : Int, next : Int, is_inuse : BOOLEAN]

InUse(t, L) == {p \in DOMAIN t \ L : t[p].is_inuse}
Followers(t, c, L) == DOMAIN t \ (L \cup 0..c - 1)
Home(t, c, p) == Hash[t[p].key] % c

\* The addresses of a table with c buckets and the lost nodes L.
Places(t, c, L) ==
    /\ c \in Nat \ {0} /\ c <= MaxCapcity
    /\ IsFiniteSet(DOMAIN t)
    /\ 0..c - 1 \subseteq DOMAIN t
    /\ \A a \in DOMAIN t : a \in 0..c - 1 \/ (a \in Nat /\ a >= MaxCapcity)
    /\ L \subseteq DOMAIN t \ 0..c - 1
    /\ t \in [DOMAIN t -> Node]

\* Its links: a follower's prev is the node whose next it is.
Links(t, c, L) ==
    /\ \A p \in L : t[p].next = Null
    /\ \A i \in 0..c - 1 : ~t[i].is_inuse => t[i].next = Null
    /\ \A p \in DOMAIN t \ L : t[p].next # Null =>
          t[p].next \in Followers(t, c, L) /\ t[t[p].next].prev = p
    /\ \A p \in Followers(t, c, L) :
          /\ t[p].is_inuse
          /\ t[p].prev \in DOMAIN t \ L
          /\ t[t[p].prev].next = p

\* Its keys: those of a list are at home in its bucket, and none is there twice.
Homes(t, c, L) ==
    /\ \A i \in 0..c - 1 : t[i].is_inuse => Home(t, c, i) = i
    /\ \A p \in Followers(t, c, L) :
          t[t[p].prev].is_inuse /\ Home(t, c, p) = Home(t, c, t[p].prev)
    /\ \A p \in InUse(t, L) : t[p].key \in Key
    /\ \A p, q \in InUse(t, L) : t[p].key = t[q].key => p = q

\* Lists end: every node is higher than its successor.
Descends(t, h, m) ==
    /\ m \in Nat /\ h \in [DOMAIN t -> 0..m]
    /\ \A p \in DOMAIN t : t[p].next # Null =>
          t[p].next \in DOMAIN t /\ h[t[p].next] < h[p]

Table(t, c, L) ==
    /\ Places(t, c, L) /\ Links(t, c, L) /\ Homes(t, c, L)
    /\ \E h, m : Descends(t, h, m)

\* The nodes of a list are its first one and those of the rest.
LEMMA ListedIs ==
    ASSUME NEW t, NEW h, NEW m, DOMAIN t \subseteq Nat, Descends(t, h, m)
    PROVE  /\ Listed(t, Null) = {}
           /\ \A p \in DOMAIN t : Listed(t, p) = {p} \cup Listed(t, t[p].next)
  <1> DEFINE N == DOMAIN t \cup {Null}
             Upto(n) == {Null} \cup {p \in DOMAIN t : h[p] <= n}
             Is(f, n) == f = [q \in Upto(n) |->
                                IF q = Null THEN {} ELSE {q} \cup f[t[q].next]]
             Whole(f) == f = [q \in N |->
                                IF q = Null THEN {} ELSE {q} \cup f[t[q].next]]
             Defined == {n \in Nat : \E f : Is(f, n)}
  <1>1. /\ m \in Nat /\ \A p \in DOMAIN t : p # Null /\ h[p] \in 0..m
        /\ \A p \in DOMAIN t : t[p].next # Null =>
              t[p].next \in DOMAIN t /\ h[t[p].next] < h[p]
    BY DEF Descends, Null
  <1>2. 0 \in Defined
    <2>1. \A p \in DOMAIN t : h[p] <= 0 => t[p].next = Null
      BY <1>1
    <2> DEFINE f == [q \in Upto(0) |-> IF q = Null THEN {} ELSE {q}]
    <2>2. \A q \in Upto(0) : q # Null => f[t[q].next] = {}
      BY <2>1
    <2>3. Is(f, 0)
      BY <2>2
    <2>4. QED BY <2>3
  <1>3. ASSUME NEW n \in Defined PROVE n + 1 \in Defined
    <2>1. PICK f : Is(f, n)
      OBVIOUS
    <2> DEFINE g == [q \in Upto(n + 1) |->
                       IF q = Null THEN {} ELSE {q} \cup f[t[q].next]]
    <2>2. \A q \in Upto(n + 1) : q # Null => t[q].next \in Upto(n)
      BY <1>1
    <2>3. \A q \in Upto(n) : q \in Upto(n + 1) /\ g[q] = f[q]
      <3>1. ASSUME NEW q \in Upto(n)
            PROVE  f[q] = IF q = Null THEN {} ELSE {q} \cup f[t[q].next]
        BY <2>1
      <3>2. Upto(n) \subseteq Upto(n + 1)
        BY <1>1
      <3>3. QED BY <3>1, <3>2
    <2>4. Is(g, n + 1)
      BY <2>2, <2>3
    <2>5. n + 1 \in Nat
      OBVIOUS
    <2>6. QED BY <2>4, <2>5
  <1>4. Defined = Nat
    <2>1. Defined \in SUBSET Nat
      OBVIOUS
    <2> HIDE DEF Defined
    <2>2. QED BY <1>2, <1>3, <2>1, SetInduction
  <1>5. \E f : Whole(f)
    <2>1. PICK f : Is(f, m)
      BY <1>1, <1>4
    <2>2. Upto(m) = N
      BY <1>1
    <2>3. QED BY <2>1, <2>2
  <1> DEFINE F == CHOOSE f : Whole(f)
  <1>6. Whole(F)
    BY <1>5
  <1>7. \A p : Listed(t, p) = F[p]
    BY DEF Listed
  <1> HIDE DEF F
  <1>8. \A p \in DOMAIN t : t[p].next \in N
    BY <1>1
  <1>9. F[Null] = {} /\ \A p \in DOMAIN t : F[p] = {p} \cup F[t[p].next]
    BY <1>1, <1>6
  <1>10. QED BY <1>7, <1>9

LEMMA LowestNode ==
    ASSUME NEW t, NEW h, NEW m, Descends(t, h, m),
           NEW S \in SUBSET DOMAIN t, S # {}
    PROVE  \E p \in S : \A q \in S : h[p] <= h[q]
  <1> DEFINE H == {h[p] : p \in S}
  <1>1. H \in SUBSET Nat /\ H # {}
    BY DEF Descends
  <1>2. PICK n \in H : \A k \in H : n <= k
    <2> HIDE DEF H
    <2>1. QED BY <1>1, LeastNumber
  <1>3. QED BY <1>2

LEMMA HighestNode ==
    ASSUME NEW t, NEW h, NEW m, Descends(t, h, m),
           NEW S \in SUBSET DOMAIN t, S # {}
    PROVE  \E p \in S : \A q \in S : h[q] <= h[p]
  <1> DEFINE H == {h[p] : p \in S}
  <1>1. H \in SUBSET Nat /\ H # {} /\ m \in Nat /\ \A k \in H : k <= m
    BY DEF Descends
  <1>2. PICK n \in H : \A k \in H : k <= n
    <2> HIDE DEF H
    <2>1. QED BY <1>1, GreatestNumber
  <1>3. QED BY <1>2

\* A list goes on as long as its nodes do.
LEMMA ListedClosed ==
    ASSUME NEW t, NEW h, NEW m, DOMAIN t \subseteq Nat, Descends(t, h, m),
           NEW p \in DOMAIN t, NEW q \in Listed(t, p)
    PROVE  /\ q \in DOMAIN t
           /\ t[q].next # Null => t[q].next \in Listed(t, p)
           /\ q = p \/ h[q] < h[p]
  <1> DEFINE Good(r) == \A x \in Listed(t, r) :
                           /\ x \in DOMAIN t
                           /\ t[x].next # Null => t[x].next \in Listed(t, r)
                           /\ x = r \/ h[x] < h[r]
             Bad == {r \in DOMAIN t : ~Good(r)}
  <1>1. CASE Bad # {}
    <2>1. PICK r \in Bad : \A x \in Bad : h[r] <= h[x]
      <3>1. Bad \in SUBSET DOMAIN t
        OBVIOUS
      <3> HIDE DEF Bad
      <3>2. QED BY <1>1, <3>1, LowestNode
    <2> DEFINE n == t[r].next
    <2>2. Listed(t, r) = {r} \cup Listed(t, n) /\ Listed(t, Null) = {}
      BY ListedIs
    <2>3. CASE n = Null
      BY <2>1, <2>2, <2>3
    <2>4. CASE n # Null
      <3>1. n \in DOMAIN t /\ h[n] < h[r] /\ h[n] \in Nat /\ h[r] \in Nat
        BY <2>4 DEF Descends
      <3>2. Good(n)
        BY <2>1, <3>1
      <3>3. n \in Listed(t, n)
        BY <3>1, ListedIs
      <3>4. \A x \in DOMAIN t : h[x] \in Nat
        BY DEF Descends
      <3>5. Good(r)
        <4> HIDE DEF n
        <4>1. ASSUME NEW x \in Listed(t, r)
              PROVE  /\ x \in DOMAIN t
                     /\ t[x].next # Null => t[x].next \in Listed(t, r)
                     /\ x = r \/ h[x] < h[r]
          <5>1. CASE x = r
            BY <2>2, <3>3, <5>1 DEF n
          <5>2. CASE x # r
            <6>1. x \in Listed(t, n)
              BY <2>2, <5>2
            <6>2. /\ x \in DOMAIN t
                  /\ t[x].next # Null => t[x].next \in Listed(t, n)
                  /\ x = n \/ h[x] < h[n]
              BY <3>2, <6>1
            <6>3. QED BY <2>2, <3>1, <3>4, <6>2
          <5>3. QED BY <5>1, <5>2
        <4>2. QED BY <4>1
      <3>6. QED BY <2>1, <3>5
    <2>5. QED BY <2>3, <2>4
  <1>2. CASE Bad = {}
    BY <1>2
  <1>3. QED BY <1>1, <1>2

\* The nodes behind a node in use are in use, and at home in the same bucket.
LEMMA ListedHome ==
    ASSUME NEW t, NEW c, NEW L, NEW h, NEW m, Places(t, c, L), Links(t, c, L),
           Homes(t, c, L), Descends(t, h, m),
           NEW p \in InUse(t, L), NEW q \in Listed(t, p)
    PROVE  q \in InUse(t, L) /\ Home(t, c, q) = Home(t, c, p)
  <1> DEFINE Good(r) == \A x \in Listed(t, r) :
                           x \in InUse(t, L) /\ Home(t, c, x) = Home(t, c, r)
             Bad == {r \in InUse(t, L) : ~Good(r)}
  <1>1. CASE Bad # {}
    <2>1. PICK r \in Bad : \A x \in Bad : h[r] <= h[x]
      <3>1. Bad \in SUBSET DOMAIN t
        BY DEF InUse
      <3> HIDE DEF Bad
      <3>2. QED BY <1>1, <3>1, LowestNode
    <2> DEFINE n == t[r].next
    <2>2. r \in DOMAIN t /\ r \notin L /\ DOMAIN t \subseteq Nat
      BY DEF InUse, Places
    <2>3. Listed(t, r) = {r} \cup Listed(t, n) /\ Listed(t, Null) = {}
      BY <2>2, ListedIs
    <2>4. CASE n = Null
      BY <2>1, <2>3, <2>4
    <2>5. CASE n # Null
      <3>1. n \in Followers(t, c, L) /\ t[n].prev = r
        BY <2>2, <2>5 DEF Links
      <3>2. h[n] < h[r] /\ h[n] \in Nat /\ h[r] \in Nat /\ n \in DOMAIN t
        BY <2>2, <2>5 DEF Descends
      <3>3. n \in InUse(t, L) /\ Home(t, c, n) = Home(t, c, r)
        BY <3>1 DEF Links, Homes, InUse, Followers
      <3>4. Good(n)
        BY <2>1, <3>2, <3>3
      <3>5. Good(r)
        BY <2>1, <2>3, <3>3, <3>4
      <3>6. QED BY <2>1, <3>5
    <2>6. QED BY <2>4, <2>5
  <1>2. CASE Bad = {}
    BY <1>2
  <1>3. QED BY <1>1, <1>2

\* Every node in use is on the list of the bucket where it is at home.
LEMMA HomeListed ==
    ASSUME NEW t, NEW c, NEW L, NEW h, NEW m, Places(t, c, L), Links(t, c, L),
           Homes(t, c, L), Descends(t, h, m), NEW p \in InUse(t, L)
    PROVE  /\ Home(t, c, p) \in 0..c - 1 /\ t[Home(t, c, p)].is_inuse
           /\ p \in Listed(t, Home(t, c, p))
  <1> DEFINE Good(r) == /\ Home(t, c, r) \in 0..c - 1
                        /\ t[Home(t, c, r)].is_inuse
                        /\ r \in Listed(t, Home(t, c, r))
             Bad == {r \in InUse(t, L) : ~Good(r)}
  <1>1. CASE Bad # {}
    <2>1. PICK r \in Bad : \A x \in Bad : h[x] <= h[r]
      <3>1. Bad \in SUBSET DOMAIN t
        BY DEF InUse
      <3> HIDE DEF Bad
      <3>2. QED BY <1>1, <3>1, HighestNode
    <2>2. r \in DOMAIN t /\ r \notin L /\ DOMAIN t \subseteq Nat /\ t[r].is_inuse
      BY DEF InUse, Places
    <2>3. CASE r \in 0..c - 1
      <3>1. Home(t, c, r) = r
        BY <2>2, <2>3 DEF Homes
      <3>2. r \in Listed(t, r)
        BY <2>2, ListedIs
      <3>3. QED BY <2>1, <2>2, <2>3, <3>1, <3>2
    <2>4. CASE r \notin 0..c - 1
      <3> DEFINE b == t[r].prev
                 i == Home(t, c, r)
      <3>1. r \in Followers(t, c, L)
        BY <2>2, <2>4 DEF Followers
      <3>2. /\ b \in InUse(t, L) /\ b \in DOMAIN t /\ t[b].next = r
            /\ Home(t, c, b) = i
        BY <3>1 DEF Links, Homes, InUse
      <3>3. h[r] < h[b] /\ h[b] \in Nat /\ h[r] \in Nat
        BY <2>2, <3>2 DEF Descends, Null
      <3>4. Good(b)
        BY <2>1, <3>2, <3>3
      <3> HIDE DEF b, i
      <3>5. i \in 0..c - 1 /\ t[i].is_inuse /\ b \in Listed(t, i) /\ i \in DOMAIN t
        BY <3>2, <3>4 DEF Places
      <3>6. r \in Listed(t, i)
        BY <2>2, <3>2, <3>5, ListedClosed DEF Null
      <3>7. QED BY <2>1, <3>5, <3>6 DEF i
    <2>5. QED BY <2>3, <2>4
  <1>2. CASE Bad = {}
    BY <1>2
  <1>3. QED BY <1>1, <1>2

\* What a search finds in a table, in one place.
LEMMA TableFacts ==
    ASSUME NEW t, NEW c, NEW L, Table(t, c, L)
    PROVE  /\ \A i \in 0..c - 1 :
                 Chain(t, i) = {p \in InUse(t, L) : Home(t, c, p) = i}
           /\ \A p \in InUse(t, L) : Home(t, c, p) \in 0..c - 1
           /\ UNION {Chain(t, i) : i \in 0..c - 1} = InUse(t, L)
           /\ \A p \in InUse(t, L) : p \in Listed(t, p)
  <1>1. PICK h, m : Descends(t, h, m)
    BY DEF Table
  <1>2. Places(t, c, L) /\ Links(t, c, L) /\ Homes(t, c, L)
    BY DEF Table
  <1>3. ASSUME NEW i \in 0..c - 1
        PROVE  Chain(t, i) = {p \in InUse(t, L) : Home(t, c, p) = i}
    <2>1. ASSUME NEW p \in Chain(t, i) PROVE p \in InUse(t, L) /\ Home(t, c, p) = i
      <3>1. t[i].is_inuse /\ p \in Listed(t, i)
        BY <2>1 DEF Chain
      <3>2. i \in InUse(t, L) /\ Home(t, c, i) = i
        BY <1>2, <3>1 DEF InUse, Places, Homes
      <3>3. QED BY <1>1, <1>2, <3>1, <3>2, ListedHome
    <2>2. ASSUME NEW p \in InUse(t, L), Home(t, c, p) = i PROVE p \in Chain(t, i)
      BY <1>1, <1>2, <2>2, HomeListed DEF Chain
    <2>3. QED BY <2>1, <2>2
  <1>4. \A p \in InUse(t, L) : Home(t, c, p) \in 0..c - 1
    BY <1>1, <1>2, HomeListed
  <1>5. UNION {Chain(t, i) : i \in 0..c - 1} = InUse(t, L)
    BY <1>3, <1>4
  <1>6. \A p \in InUse(t, L) : p \in Listed(t, p)
    BY <1>1, <1>2, ListedIs DEF InUse, Places
  <1>7. QED BY <1>3, <1>4, <1>5, <1>6

\* A search ends at the one node that has the key.
LEMMA FindIs ==
    ASSUME NEW t, NEW c, NEW L, Table(t, c, L), NEW k \in Key
    PROVE  /\ \A p \in InUse(t, L) : t[p].key = k => Find(t, c, k) = p
           /\ (\A p \in InUse(t, L) : t[p].key # k) => Find(t, c, k) = Null
  <1> DEFINE hits == {p \in Chain(t, key_hashcode(k, c)) : t[p].key = k}
  <1>1. key_hashcode(k, c) \in 0..c - 1
    BY HashMapAssumption DEF key_hashcode, Table, Places
  <1>2. hits = {p \in InUse(t, L) : t[p].key = k}
    BY <1>1, TableFacts DEF Home, key_hashcode
  <1> HIDE DEF hits
  <1>3. Find(t, c, k) = IF hits = {} THEN Null
                        ELSE CHOOSE p \in hits : hits \subseteq Listed(t, p)
    BY DEF Find, hits
  <1>4. ASSUME NEW p \in InUse(t, L), t[p].key = k PROVE Find(t, c, k) = p
    <2>1. hits = {p}
      BY <1>2, <1>4 DEF Table, Homes
    <2>2. p \in Listed(t, p)
      BY TableFacts
    <2>3. QED BY <1>3, <2>1, <2>2
  <1>5. ASSUME \A p \in InUse(t, L) : t[p].key # k PROVE Find(t, c, k) = Null
    BY <1>2, <1>3, <1>5
  <1>6. QED BY <1>4, <1>5

-----------------------------------------------------------------------------
(* Adding a key.                                                            *)

\* There is an address left for malloc, and it is no bucket's.
LEMMA MallocFresh ==
    ASSUME NEW t, NEW c, NEW L, Places(t, c, L)
    PROVE  /\ Malloc(t) \in Nat /\ Malloc(t) >= MaxCapcity
           /\ Malloc(t) \notin DOMAIN t /\ Malloc(t) \notin 0..c - 1
  <1> DEFINE n == Cardinality(DOMAIN t)
             I == MaxCapcity..MaxCapcity + n
             A == {a \in I : a \notin DOMAIN t}
  <1>1. MaxCapcity \in Nat /\ IsFiniteSet(DOMAIN t) /\ n \in Nat
    BY HashMapAssumption, FS_CardinalityType DEF Places
  <1>2. A # {}
    <2> SUFFICES ASSUME I \subseteq DOMAIN t PROVE FALSE
      OBVIOUS
    <2>1. IsFiniteSet(I) /\ Cardinality(I) <= n
      BY <1>1, FS_Subset
    <2>2. Cardinality(I) = n + 1
      <3> DEFINE e == MaxCapcity + n
      <3>1. MaxCapcity \in Int /\ e \in Int /\ ~(MaxCapcity > e) /\ e - MaxCapcity + 1 = n + 1
        BY <1>1
      <3> HIDE DEF e
      <3>2. Cardinality(MaxCapcity..e) = e - MaxCapcity + 1
        BY <3>1, FS_Interval
      <3>3. QED BY <3>1, <3>2 DEF e
    <2>3. QED BY <1>1, <2>1, <2>2
  <1>3. PICK a \in A : \A b \in A : a <= b
    <2>1. A \in SUBSET Nat
      BY <1>1
    <2> HIDE DEF A
    <2>2. QED BY <1>2, <2>1, LeastNumber
  <1>4. Malloc(t) = CHOOSE x \in A : \A y \in A : x <= y
    BY DEF Malloc, Min
  <1>5. Malloc(t) \in A
    <2> HIDE DEF A
    <2>1. QED BY <1>3, <1>4
  <1>6. QED BY <1>1, <1>5 DEF Places

\* Table u is t with one more node in use, at a, for key k and value v.
Adds(t, u, L, a, k, v) ==
    /\ a \notin InUse(t, L) /\ InUse(u, L) = InUse(t, L) \cup {a}
    /\ DOMAIN u = DOMAIN t \cup {a}
    /\ u[a].key = k /\ u[a].value = v
    /\ \A p \in InUse(t, L) : u[p].key = t[p].key /\ u[p].value = t[p].value

\* ... linked behind bucket i.
Behindmost(t, u, a, i, k, v) ==
    /\ DOMAIN u = DOMAIN t \cup {a} /\ a \notin DOMAIN t /\ a \in Nat
    /\ u \in [DOMAIN u -> Node]
    /\ u[a].key = k /\ u[a].value = v /\ u[a].prev = i
    /\ u[a].next = t[i].next /\ u[a].is_inuse
    /\ \A b \in DOMAIN t :
          /\ u[b].key = t[b].key /\ u[b].value = t[b].value
          /\ u[b].is_inuse = t[b].is_inuse
          /\ u[b].prev = IF b = t[i].next THEN a ELSE t[b].prev
          /\ u[b].next = IF b = i THEN a ELSE t[b].next

LEMMA LinkedIs ==
    ASSUME NEW t, NEW c, NEW L, Table(t, c, L), NEW i \in 0..c - 1,
           NEW k \in Key, NEW v \in Value \cup {Zeros}
    PROVE  Behindmost(t, Linked(t, i, k, v), Malloc(t), i, k, v)
  <1> DEFINE u == Linked(t, i, k, v)
             a == Malloc(t)
             n == t[i].next
  <1>1. a \in Nat /\ a \notin DOMAIN t /\ a \notin 0..c - 1
    BY MallocFresh DEF Table
  <1> HIDE DEF a
  <1>2. /\ i \in DOMAIN t /\ i \in Int /\ n # i /\ n # a /\ i # a /\ n \in Int
        /\ t \in [DOMAIN t -> Node]
    <2>1. i \in DOMAIN t /\ i \notin L /\ t \in [DOMAIN t -> Node] /\ i \in Int
      BY DEF Table, Places
    <2>2. n # Null => n \in Followers(t, c, L)
      BY <2>1 DEF Table, Links
    <2>3. n \in Int
      BY <2>1 DEF Node
    <2>4. i # Null /\ a # Null
      BY <1>1 DEF Null
    <2>5. n # a /\ n # i
      BY <1>1, <2>2, <2>4 DEF Followers
    <2>6. QED BY <1>1, <2>1, <2>3, <2>5
  <1>3. u = [b \in DOMAIN t \cup {a} |->
            CASE b = a -> [key |-> k, value |-> v, prev |-> i,
                           next |-> n, is_inuse |-> TRUE]
              [] b = i -> [t[i] EXCEPT !.next = a]
              [] b = n -> [t[b] EXCEPT !.prev = a]
              [] OTHER -> t[b]]
    BY DEF Linked, a
  <1> HIDE DEF u
  <1>4. DOMAIN u = DOMAIN t \cup {a} /\ u = [b \in DOMAIN u |-> u[b]]
    BY <1>3
  <1>5. u[a] = [key |-> k, value |-> v, prev |-> i, next |-> n, is_inuse |-> TRUE]
    BY <1>2, <1>3
  <1>6. /\ u[a].key = k /\ u[a].value = v /\ u[a].prev = i
        /\ u[a].next = n /\ u[a].is_inuse /\ u[a] \in Node
    BY <1>2, <1>5 DEF Node
  <1>7. ASSUME NEW b \in DOMAIN t
        PROVE  /\ u[b] \in Node
               /\ u[b].key = t[b].key /\ u[b].value = t[b].value
               /\ u[b].is_inuse = t[b].is_inuse
               /\ u[b].prev = IF b = n THEN a ELSE t[b].prev
               /\ u[b].next = IF b = i THEN a ELSE t[b].next
    <2> HIDE DEF n
    <2>1. b # a /\ t[b] \in Node /\ a \in Int
      BY <1>1, <1>2
    <2>2. CASE b = i
      <3>1. u[b] = [t[b] EXCEPT !.next = a]
        BY <1>2, <1>3, <2>1, <2>2
      <3>2. QED BY <1>2, <2>1, <2>2, <3>1 DEF Node
    <2>3. CASE b # i /\ b = n
      <3>1. u[b] = [t[b] EXCEPT !.prev = a]
        BY <1>2, <1>3, <2>1, <2>3
      <3>2. QED BY <2>1, <2>3, <3>1 DEF Node
    <2>4. CASE b # i /\ b # n
      <3>1. u[b] = t[b]
        BY <1>3, <2>1, <2>4
      <3>2. QED BY <2>1, <2>4, <3>1
    <2>5. QED BY <2>2, <2>3, <2>4
  <1>8. u \in [DOMAIN u -> Node]
    BY <1>4, <1>6, <1>7
  <1>9. QED BY <1>1, <1>4, <1>6, <1>7, <1>8 DEF Behindmost, u, a

\* A new node behind a bucket in use leaves the table in order, ...
LEMMA BehindTable ==
    ASSUME NEW t, NEW c, NEW L, Table(t, c, L), NEW u, NEW a, NEW k \in Key,
           NEW v \in Value \cup {Zeros}, NEW i \in 0..c - 1, i = Hash[k] % c, t[i].is_inuse,
           \A p \in InUse(t, L) : t[p].key # k,
           a >= MaxCapcity, Behindmost(t, u, a, i, k, v)
    PROVE  Table(u, c, L) /\ Adds(t, u, L, a, k, v)
  <1>1. Places(t, c, L) /\ Links(t, c, L) /\ Homes(t, c, L)
    BY DEF Table
  <1>2. PICK h, m : Descends(t, h, m)
    BY DEF Table
  <1>3. /\ c \in Nat \ {0} /\ MaxCapcity \in Nat /\ c <= MaxCapcity
        /\ DOMAIN t \subseteq Nat /\ 0..c - 1 \subseteq DOMAIN t
        /\ L \subseteq DOMAIN t \ 0..c - 1
    BY <1>1, HashMapAssumption DEF Places
  <1>4. /\ DOMAIN u = DOMAIN t \cup {a} /\ a \notin DOMAIN t /\ a \in Nat
        /\ u[a].key = k /\ u[a].value = v /\ u[a].prev = i
        /\ u[a].next = t[i].next /\ u[a].is_inuse
        /\ a \notin 0..c - 1 /\ a \notin L /\ i \notin L /\ i \in DOMAIN t
        /\ a # i /\ t[i].next # i /\ t[i].next # a
    <2>1. /\ DOMAIN u = DOMAIN t \cup {a} /\ a \notin DOMAIN t /\ a \in Nat
          /\ u[a].key = k /\ u[a].value = v /\ u[a].prev = i
          /\ u[a].next = t[i].next /\ u[a].is_inuse
      BY DEF Behindmost
    <2>2. a \notin 0..c - 1 /\ a \notin L /\ i \notin L /\ i \in DOMAIN t /\ a # i
      BY <1>3, <2>1
    <2>3. t[i].next # Null => t[i].next \in Followers(t, c, L)
      BY <1>1, <2>2 DEF Links
    <2>4. QED BY <1>3, <2>1, <2>2, <2>3 DEF Followers, Null
  <1>5. \A b \in DOMAIN t :
          /\ u[b].key = t[b].key /\ u[b].value = t[b].value
          /\ u[b].is_inuse = t[b].is_inuse
          /\ u[b].prev = IF b = t[i].next THEN a ELSE t[b].prev
          /\ u[b].next = IF b = i THEN a ELSE t[b].next
    BY DEF Behindmost
  <1>6. InUse(u, L) = InUse(t, L) \cup {a}
    BY <1>4, <1>5 DEF InUse
  <1>7. Followers(u, c, L) = Followers(t, c, L) \cup {a}
    BY <1>4 DEF Followers
  <1>8. Places(u, c, L)
    <2>1. IsFiniteSet(DOMAIN u)
      BY <1>1, <1>4, FS_AddElement DEF Places
    <2>2. u \in [DOMAIN u -> Node]
      BY DEF Behindmost
    <2>3. \A b \in DOMAIN u : b \in 0..c - 1 \/ (b \in Nat /\ b >= MaxCapcity)
      BY <1>1, <1>4 DEF Places
    <2>4. QED BY <1>3, <1>4, <2>1, <2>2, <2>3 DEF Places
  <1>9. Links(u, c, L)
    <2>1. \A p \in L : u[p].next = Null
      BY <1>1, <1>3, <1>4, <1>5 DEF Links
    <2>2. \A j \in 0..c - 1 : ~u[j].is_inuse => u[j].next = Null
      BY <1>1, <1>3, <1>5 DEF Links
    <2>3. ASSUME NEW p \in DOMAIN u \ L, u[p].next # Null
          PROVE  u[p].next \in Followers(u, c, L) /\ u[u[p].next].prev = p
      <3> DEFINE n == t[i].next
      <3>1. CASE p = a
        <4>1. n # Null /\ n \in Followers(t, c, L) /\ n \in DOMAIN t
          BY <1>1, <1>4, <2>3, <3>1 DEF Links, Followers
        <4>2. u[n].prev = a
          BY <1>5, <4>1
        <4>3. QED BY <1>4, <1>7, <3>1, <4>1, <4>2
      <3>2. CASE p = i
        BY <1>4, <1>5, <1>7, <3>2
      <3>3. CASE p # a /\ p # i
        <4>1. p \in DOMAIN t \ L /\ u[p].next = t[p].next
          BY <1>4, <1>5, <3>3
        <4> DEFINE r == t[p].next
        <4>2. r \in Followers(t, c, L) /\ t[r].prev = p /\ r \in DOMAIN t
          BY <1>1, <2>3, <4>1 DEF Links, Followers
        <4>3. r # n
          BY <1>1, <1>4, <3>3, <4>2, <2>3, <4>1 DEF Links
        <4>4. u[r].prev = p
          BY <1>5, <4>2, <4>3
        <4>5. QED BY <1>7, <4>1, <4>2, <4>4
      <3>4. QED BY <3>1, <3>2, <3>3
    <2>4. ASSUME NEW p \in Followers(u, c, L)
          PROVE  /\ u[p].is_inuse /\ u[p].prev \in DOMAIN u \ L
                 /\ u[u[p].prev].next = p
      <3> DEFINE n == t[i].next
      <3>1. CASE p = a
        BY <1>4, <1>5, <3>1
      <3>2. CASE p # a
        <4>1. p \in Followers(t, c, L) /\ p \in DOMAIN t
          BY <1>7, <3>2 DEF Followers
        <4>2. /\ t[p].is_inuse /\ t[p].prev \in DOMAIN t \ L
              /\ t[t[p].prev].next = p
          BY <1>1, <4>1 DEF Links
        <4>3. CASE p = n
          BY <1>4, <1>5, <4>1, <4>2, <4>3
        <4>4. CASE p # n
          <5>1. t[p].prev # i
            BY <4>2, <4>4
          <5>2. u[p].prev = t[p].prev /\ u[t[p].prev].next = p
            BY <1>5, <4>1, <4>2, <4>4, <5>1
          <5>3. QED BY <1>4, <1>5, <4>1, <4>2, <5>2
        <4>5. QED BY <4>3, <4>4
      <3>3. QED BY <3>1, <3>2
    <2>5. QED BY <2>1, <2>2, <2>3, <2>4 DEF Links
  <1>10. Homes(u, c, L)
    <2>1. \A p \in DOMAIN t : Home(u, c, p) = Home(t, c, p)
      BY <1>5 DEF Home
    <2>2. Home(u, c, a) = i
      BY <1>4 DEF Home
    <2>3. Home(t, c, i) = i
      BY <1>1 DEF Homes
    <2>4. \A j \in 0..c - 1 : u[j].is_inuse => Home(u, c, j) = j
      BY <1>1, <1>3, <1>5, <2>1 DEF Homes
    <2>5. ASSUME NEW p \in Followers(u, c, L)
          PROVE  u[u[p].prev].is_inuse /\ Home(u, c, p) = Home(u, c, u[p].prev)
      <3>1. CASE p = a
        BY <1>4, <1>5, <2>1, <2>2, <2>3, <3>1
      <3>2. CASE p # a /\ p = t[i].next
        <4>1. p \in Followers(t, c, L) /\ p \in DOMAIN t /\ t[p].prev = i
          BY <1>1, <1>3, <1>4, <1>7, <3>2 DEF Followers, Links, Null
        <4>2. Home(t, c, p) = i
          BY <1>1, <2>3, <4>1 DEF Homes
        <4>3. QED BY <1>4, <1>5, <2>1, <2>2, <3>2, <4>1, <4>2
      <3>3. CASE p # a /\ p # t[i].next
        <4>1. p \in Followers(t, c, L) /\ p \in DOMAIN t
          BY <1>7, <3>3 DEF Followers
        <4>2. t[p].prev \in DOMAIN t /\ u[p].prev = t[p].prev
          BY <1>1, <1>5, <3>3, <4>1 DEF Links
        <4>3. QED BY <1>1, <1>5, <2>1, <4>1, <4>2 DEF Homes
      <3>4. QED BY <3>1, <3>2, <3>3
    <2>6. \A p \in InUse(u, L) : u[p].key \in Key
      BY <1>1, <1>4, <1>5, <1>6 DEF Homes, InUse
    <2>7. ASSUME NEW p \in InUse(u, L), NEW q \in InUse(u, L), u[p].key = u[q].key
          PROVE  p = q
      BY <1>1, <1>4, <1>5, <1>6, <2>7 DEF Homes, InUse
    <2>8. QED BY <2>4, <2>5, <2>6, <2>7 DEF Homes
  <1>11. \E g, l : Descends(u, g, l)
    <2> DEFINE g == [b \in DOMAIN u |-> IF b = a THEN h[i]
                                        ELSE IF b = i THEN h[i] + 1 ELSE h[b]]
    <2>1. m \in Nat /\ \A b \in DOMAIN t : h[b] \in 0..m
      BY <1>2 DEF Descends
    <2>2. m + 1 \in Nat /\ g \in [DOMAIN u -> 0..m + 1]
      BY <1>4, <2>1
    <2>3. ASSUME NEW p \in DOMAIN u, u[p].next # Null
          PROVE  u[p].next \in DOMAIN u /\ g[u[p].next] < g[p]
      <3>1. CASE p = a
        <4>1. t[i].next # Null /\ t[i].next \in DOMAIN t /\ h[t[i].next] < h[i]
          BY <1>2, <1>4, <2>3, <3>1 DEF Descends
        <4>2. QED BY <1>4, <3>1, <4>1
      <3>2. CASE p = i
        BY <1>4, <1>5, <2>1, <3>2
      <3>3. CASE p # a /\ p # i
        <4>1. p \in DOMAIN t /\ u[p].next = t[p].next
          BY <1>4, <1>5, <3>3
        <4>2. t[p].next \in DOMAIN t /\ h[t[p].next] < h[p]
          BY <1>2, <2>3, <4>1 DEF Descends
        <4>3. t[p].next # i
          <5>1. p \notin L
            BY <1>1, <2>3, <4>1 DEF Links
          <5>2. t[p].next \in Followers(t, c, L)
            BY <1>1, <2>3, <4>1, <5>1 DEF Links
          <5>3. QED BY <5>2 DEF Followers
        <4>4. t[p].next # a
          BY <1>4, <4>2
        <4>5. QED BY <1>4, <3>3, <4>1, <4>2, <4>3, <4>4
      <3>4. QED BY <3>1, <3>2, <3>3
    <2> HIDE DEF g
    <2>4. QED BY <2>2, <2>3 DEF Descends
  <1>12. Table(u, c, L)
    BY <1>8, <1>9, <1>10, <1>11 DEF Table
  <1>13. Adds(t, u, L, a, k, v)
    BY <1>4, <1>5, <1>6 DEF Adds, InUse
  <1>14. QED BY <1>12, <1>13

\* ... and so does the use of a free bucket.
InPlace(t, u, i, k, v) ==
    /\ DOMAIN u = DOMAIN t /\ u \in [DOMAIN u -> Node]
    /\ u[i].key = k /\ u[i].value = v /\ u[i].is_inuse
    /\ \A b \in DOMAIN t :
          /\ u[b].prev = t[b].prev /\ u[b].next = t[b].next
          /\ b # i => u[b] = t[b]

LEMMA InPlaceIs ==
    ASSUME NEW t, NEW c, NEW L, Table(t, c, L), NEW i \in 0..c - 1,
           NEW k \in Key, NEW v \in Value \cup {Zeros}, NEW u,
           u = [t EXCEPT ![i].key = k, ![i].value = v, ![i].is_inuse = TRUE]
    PROVE  InPlace(t, u, i, k, v)
  <1>1. i \in DOMAIN t /\ t \in [DOMAIN t -> Node]
    BY DEF Table, Places
  <1>2. DOMAIN u = DOMAIN t /\ u = [b \in DOMAIN u |-> u[b]]
    OBVIOUS
  <1>3. \A b \in DOMAIN t : b # i => u[b] = t[b]
    OBVIOUS
  <1>4. /\ u[i].key = k /\ u[i].value = v /\ u[i].is_inuse
        /\ u[i].prev = t[i].prev /\ u[i].next = t[i].next /\ u[i] \in Node
    BY <1>1 DEF Node
  <1>5. u \in [DOMAIN u -> Node]
    BY <1>1, <1>2, <1>3, <1>4
  <1>6. QED BY <1>1, <1>2, <1>3, <1>4, <1>5 DEF InPlace

LEMMA InPlaceTable ==
    ASSUME NEW t, NEW c, NEW L, Table(t, c, L), NEW u, NEW k \in Key,
           NEW v \in Value \cup {Zeros}, NEW i \in 0..c - 1, i = Hash[k] % c,
           t[i].is_inuse = FALSE,
           \A p \in InUse(t, L) : t[p].key # k, InPlace(t, u, i, k, v)
    PROVE  Table(u, c, L) /\ Adds(t, u, L, i, k, v)
  <1>1. Places(t, c, L) /\ Links(t, c, L) /\ Homes(t, c, L)
    BY DEF Table
  <1>2. PICK h, m : Descends(t, h, m)
    BY DEF Table
  <1>3. /\ 0..c - 1 \subseteq DOMAIN t /\ L \subseteq DOMAIN t \ 0..c - 1
        /\ i \in DOMAIN t /\ i \notin L /\ i \notin InUse(t, L)
        /\ i \notin Followers(t, c, L)
    BY <1>1 DEF Places, InUse, Followers
  <1>4. /\ DOMAIN u = DOMAIN t /\ u[i].key = k /\ u[i].value = v /\ u[i].is_inuse
        /\ \A b \in DOMAIN t :
              /\ u[b].prev = t[b].prev /\ u[b].next = t[b].next
              /\ b # i => u[b] = t[b]
    BY DEF InPlace
  <1>5. InUse(u, L) = InUse(t, L) \cup {i} /\ Followers(u, c, L) = Followers(t, c, L)
    BY <1>3, <1>4 DEF InUse, Followers
  <1>6. Places(u, c, L)
    BY <1>1, <1>4 DEF Places, InPlace
  <1>7. t[i].next = Null
    BY <1>1 DEF Links
  <1>8. Links(u, c, L)
    <2>1. /\ \A p \in L : u[p].next = Null
          /\ \A j \in 0..c - 1 : ~u[j].is_inuse => u[j].next = Null
      BY <1>1, <1>3, <1>4 DEF Links
    <2>2. ASSUME NEW p \in DOMAIN t \ L, t[p].next # Null
          PROVE  t[p].next \in Followers(t, c, L) /\ u[t[p].next].prev = p
      BY <1>1, <1>4, <2>2 DEF Links, Followers
    <2>3. ASSUME NEW p \in Followers(t, c, L)
          PROVE  /\ u[p].is_inuse /\ u[p].prev \in DOMAIN t \ L
                 /\ u[u[p].prev].next = p
      <3>1. p \in DOMAIN t /\ p # i
        BY <1>3 DEF Followers
      <3>2. /\ t[p].is_inuse /\ t[p].prev \in DOMAIN t \ L
            /\ t[t[p].prev].next = p
        BY <1>1 DEF Links
      <3>3. QED BY <1>4, <3>1, <3>2
    <2>4. QED BY <1>4, <1>5, <2>1, <2>2, <2>3 DEF Links
  <1>9. Homes(u, c, L)
    <2>1. \A p \in DOMAIN t : p # i => Home(u, c, p) = Home(t, c, p)
      BY <1>4 DEF Home
    <2>2. Home(u, c, i) = i
      BY <1>4 DEF Home
    <2>3. \A j \in 0..c - 1 : u[j].is_inuse => Home(u, c, j) = j
      BY <1>1, <1>3, <1>4, <2>1, <2>2 DEF Homes
    <2>4. ASSUME NEW p \in Followers(t, c, L)
          PROVE  u[u[p].prev].is_inuse /\ Home(u, c, p) = Home(u, c, u[p].prev)
      <3>1. p \in DOMAIN t /\ p # i
        BY <1>3 DEF Followers
      <3>2. t[p].prev \in DOMAIN t /\ t[t[p].prev].next = p
        BY <1>1 DEF Links
      <3>3. t[p].prev # i
        <4>1. p # Null
          BY <1>1, <3>1, HashMapAssumption DEF Places, Null
        <4>2. QED BY <1>7, <3>2, <4>1
      <3>4. QED BY <1>1, <1>4, <2>1, <3>1, <3>2, <3>3 DEF Homes
    <2>5. \A p \in InUse(u, L) : u[p].key \in Key
      BY <1>1, <1>4, <1>5 DEF Homes, InUse
    <2>6. ASSUME NEW p \in InUse(u, L), NEW q \in InUse(u, L), u[p].key = u[q].key
          PROVE  p = q
      BY <1>1, <1>3, <1>4, <1>5, <2>6 DEF Homes, InUse
    <2>7. QED BY <1>5, <2>3, <2>4, <2>5, <2>6 DEF Homes
  <1>10. Descends(u, h, m)
    BY <1>2, <1>4 DEF Descends
  <1>11. Table(u, c, L)
    BY <1>6, <1>8, <1>9, <1>10 DEF Table
  <1>12. Adds(t, u, L, i, k, v)
    BY <1>3, <1>4, <1>5 DEF Adds, InUse
  <1>13. QED BY <1>11, <1>12

\* The next pointers of table u are those of t, but that one node may have got
\* node a behind it.
Extends(t, u, a) ==
    /\ DOMAIN t \subseteq DOMAIN u
    /\ \A p \in DOMAIN t :
          \/ u[p].next = t[p].next
          \/ a \in DOMAIN u /\ u[p].next = a /\ u[a].next = t[p].next

\* Whether it is linked behind a bucket or put into it, a key that was not
\* there is added to the table, and nothing else changes.
LEMMA AddedTable ==
    ASSUME NEW t, NEW c, NEW L, Table(t, c, L), NEW k \in Key, NEW v \in Value \cup {Zeros},
           \A p \in InUse(t, L) : t[p].key # k
    PROVE  \E a : /\ Table(Added(t, c, k, v), c, L)
                  /\ Adds(t, Added(t, c, k, v), L, a, k, v)
                  /\ Extends(t, Added(t, c, k, v), a)
  <1> DEFINE i == key_hashcode(k, c)
  <1>1. i \in 0..c - 1 /\ i = Hash[k] % c
    BY HashMapAssumption DEF key_hashcode, Table, Places
  <1> HIDE DEF i
  <1>2. CASE t[i].is_inuse
    <2> DEFINE u == Linked(t, i, k, v)
               a == Malloc(t)
    <2>1. Added(t, c, k, v) = u
      BY <1>2 DEF Added, i
    <2>2. Behindmost(t, u, a, i, k, v)
      BY <1>1, LinkedIs
    <2>3. a >= MaxCapcity
      BY MallocFresh DEF Table
    <2> HIDE DEF u, a
    <2>4. Table(u, c, L) /\ Adds(t, u, L, a, k, v)
      BY <1>1, <1>2, <2>2, <2>3, BehindTable
    <2>5. Extends(t, u, a)
      <3>1. i \in DOMAIN t
        BY <1>1 DEF Table, Places
      <3>2. QED BY <2>2, <3>1 DEF Behindmost, Extends
    <2>6. QED BY <2>1, <2>4, <2>5
  <1>3. CASE ~t[i].is_inuse
    <2> DEFINE u == [t EXCEPT ![i].key = k, ![i].value = v, ![i].is_inuse = TRUE]
    <2>1. Added(t, c, k, v) = u
      BY <1>3 DEF Added, i
    <2>2. InPlace(t, u, i, k, v)
      BY <1>1, InPlaceIs
    <2>3. t[i].is_inuse = FALSE
      BY <1>1, <1>3 DEF Table, Places, Node
    <2> HIDE DEF u
    <2>4. Table(u, c, L) /\ Adds(t, u, L, i, k, v)
      BY <1>1, <2>2, <2>3, InPlaceTable
    <2>5. Extends(t, u, i)
      BY <2>2 DEF InPlace, Extends
    <2>6. QED BY <2>1, <2>4, <2>5
  <1>4. QED BY <1>2, <1>3

\* Overwriting a value.
Revalued(t, u, p, v) == u = [t EXCEPT ![p].value = v]

LEMMA ValueTable ==
    ASSUME NEW t, NEW c, NEW L, Table(t, c, L), NEW p \in InUse(t, L),
           NEW v \in Value \cup {Zeros}, NEW u, Revalued(t, u, p, v)
    PROVE  /\ Table(u, c, L) /\ Extends(t, u, Null)
           /\ InUse(u, L) = InUse(t, L)
           /\ \A q \in InUse(t, L) :
                 /\ u[q].key = t[q].key
                 /\ u[q].value = IF q = p THEN v ELSE t[q].value
  <1>1. p \in DOMAIN t /\ t \in [DOMAIN t -> Node] /\ DOMAIN u = DOMAIN t
    BY DEF Table, Places, InUse, Revalued
  <1>2. \A q \in DOMAIN t :
           /\ u[q].key = t[q].key /\ u[q].prev = t[q].prev
           /\ u[q].next = t[q].next /\ u[q].is_inuse = t[q].is_inuse
           /\ u[q].value = IF q = p THEN v ELSE t[q].value
           /\ u[q] \in Node
    BY <1>1 DEF Node, Revalued
  <1>3. u \in [DOMAIN u -> Node]
    BY <1>1, <1>2 DEF Revalued
  <1>4. InUse(u, L) = InUse(t, L) /\ Followers(u, c, L) = Followers(t, c, L)
    BY <1>1, <1>2 DEF InUse, Followers
  <1>5. Places(u, c, L)
    BY <1>1, <1>3 DEF Table, Places
  <1>6. Links(u, c, L)
    <2>1. Links(t, c, L) /\ 0..c - 1 \subseteq DOMAIN t /\ L \subseteq DOMAIN t
      BY DEF Table, Places
    <2>2. \A q \in Followers(t, c, L) : q \in DOMAIN t
      BY DEF Followers
    <2>3. /\ \A q \in L : u[q].next = Null
          /\ \A i \in 0..c - 1 : ~u[i].is_inuse => u[i].next = Null
      BY <1>2, <2>1 DEF Links
    <2>4. ASSUME NEW q \in DOMAIN u \ L, u[q].next # Null
          PROVE  u[q].next \in Followers(u, c, L) /\ u[u[q].next].prev = q
      <3>1. /\ q \in DOMAIN t \ L /\ u[q].next = t[q].next
            /\ t[q].next \in Followers(t, c, L) /\ t[t[q].next].prev = q
        BY <1>1, <1>2, <2>1, <2>4 DEF Links
      <3>2. QED BY <1>2, <1>4, <2>2, <3>1
    <2>5. ASSUME NEW q \in Followers(u, c, L)
          PROVE  /\ u[q].is_inuse /\ u[q].prev \in DOMAIN u \ L
                 /\ u[u[q].prev].next = q
      <3>1. /\ q \in DOMAIN t /\ t[q].is_inuse /\ t[q].prev \in DOMAIN t \ L
            /\ t[t[q].prev].next = q
        BY <1>4, <2>1, <2>2 DEF Links
      <3>2. QED BY <1>1, <1>2, <3>1
    <2>6. QED BY <2>3, <2>4, <2>5 DEF Links
  <1>7. Homes(u, c, L)
    <2>1. \A q \in DOMAIN t : Home(u, c, q) = Home(t, c, q)
      BY <1>2 DEF Home
    <2>2. \A q \in Followers(t, c, L) : q \in DOMAIN t /\ t[q].prev \in DOMAIN t
      BY DEF Table, Links, Followers
    <2>3. Homes(t, c, L) /\ 0..c - 1 \subseteq DOMAIN t
      BY DEF Table, Places
    <2>4. \A q \in InUse(t, L) : q \in DOMAIN t
      BY DEF InUse
    <2>5. \A i \in 0..c - 1 : u[i].is_inuse => Home(u, c, i) = i
      BY <1>2, <2>1, <2>3 DEF Homes
    <2>6. ASSUME NEW q \in Followers(u, c, L)
          PROVE  u[u[q].prev].is_inuse /\ Home(u, c, q) = Home(u, c, u[q].prev)
      <3>1. q \in DOMAIN t /\ t[q].prev \in DOMAIN t /\ u[q].prev = t[q].prev
        BY <1>2, <1>4, <2>2
      <3>2. t[t[q].prev].is_inuse /\ Home(t, c, q) = Home(t, c, t[q].prev)
        BY <1>4, <2>3 DEF Homes
      <3>3. QED BY <1>2, <2>1, <3>1, <3>2
    <2>7. /\ \A q \in InUse(u, L) : u[q].key \in Key
          /\ \A q, r \in InUse(u, L) : u[q].key = u[r].key => q = r
      <3>1. \A q \in InUse(u, L) : q \in InUse(t, L) /\ u[q].key = t[q].key
        BY <1>2, <1>4, <2>4
      <3>2. /\ \A q \in InUse(t, L) : t[q].key \in Key
            /\ \A q, r \in InUse(t, L) : t[q].key = t[r].key => q = r
        BY <2>3 DEF Homes
      <3>3. \A q \in InUse(u, L) : u[q].key \in Key
        BY <3>1, <3>2
      <3>4. ASSUME NEW q \in InUse(u, L), NEW r \in InUse(u, L), u[q].key = u[r].key
            PROVE  q = r
        <4>1. q \in InUse(t, L) /\ r \in InUse(t, L) /\ t[q].key = t[r].key
          BY <3>1, <3>4
        <4>2. QED BY <3>2, <4>1
      <3>5. QED BY <3>3, <3>4
    <2>8. QED BY <2>5, <2>6, <2>7 DEF Homes
  <1>8. ASSUME NEW h, NEW m, Descends(t, h, m) PROVE Descends(u, h, m)
    BY <1>1, <1>2, <1>8 DEF Descends
  <1>9. Table(u, c, L)
    BY <1>5, <1>6, <1>7, <1>8 DEF Table
  <1>10. QED BY <1>1, <1>2, <1>4, <1>9 DEF InUse, Extends

\* When a node is added, lists keep what is on them.
LEMMA ListedGrows ==
    ASSUME NEW t, NEW h, NEW m, NEW u, NEW g, NEW l, DOMAIN u \subseteq Nat,
           Descends(t, h, m), Descends(u, g, l), NEW a, Extends(t, u, a),
           NEW p \in DOMAIN t
    PROVE  Listed(t, p) \subseteq Listed(u, p) /\ Listed(u, p) \subseteq Listed(t, p) \cup {a}
  <1> DEFINE Good(r) == /\ Listed(t, r) \subseteq Listed(u, r)
                        /\ Listed(u, r) \subseteq Listed(t, r) \cup {a}
             Bad == {r \in DOMAIN t : ~Good(r)}
  <1>1. /\ DOMAIN t \subseteq DOMAIN u /\ DOMAIN t \subseteq Nat
        /\ Listed(t, Null) = {} /\ Listed(u, Null) = {}
        /\ \A r \in DOMAIN t : Listed(t, r) = {r} \cup Listed(t, t[r].next)
        /\ \A r \in DOMAIN u : Listed(u, r) = {r} \cup Listed(u, u[r].next)
    BY ListedIs DEF Extends
  <1>2. CASE Bad # {}
    <2>1. PICK r \in Bad : \A x \in Bad : h[r] <= h[x]
      <3>1. Bad \in SUBSET DOMAIN t
        OBVIOUS
      <3> HIDE DEF Bad
      <3>2. QED BY <1>2, <3>1, LowestNode
    <2> DEFINE n == t[r].next
    <2>2. Listed(t, n) \subseteq Listed(u, n) /\ Listed(u, n) \subseteq Listed(t, n) \cup {a}
      <3>1. CASE n = Null
        BY <1>1, <3>1
      <3>2. CASE n # Null
        <4>1. n \in DOMAIN t /\ h[n] < h[r] /\ h[n] \in Nat /\ h[r] \in Nat
          BY <3>2 DEF Descends
        <4>2. n \notin Bad
          BY <2>1, <4>1
        <4>3. QED BY <4>1, <4>2
      <3>3. QED BY <3>1, <3>2
    <2>3. r \in DOMAIN t /\ r \in DOMAIN u
      BY <1>1
    <2>4. Listed(t, r) = {r} \cup Listed(t, n)
      BY <1>1, <2>3
    <2>5. Listed(u, r) = {r} \cup Listed(u, n) \/ Listed(u, r) = {r} \cup ({a} \cup Listed(u, n))
      BY <1>1, <2>3 DEF Extends
    <2>6. Good(r)
      <3> HIDE DEF n
      <3>1. QED BY <2>2, <2>4, <2>5
    <2>7. QED BY <2>1, <2>6
  <1>3. CASE Bad = {}
    BY <1>3
  <1>4. QED BY <1>2, <1>3

-----------------------------------------------------------------------------
(* The order of the nodes.                                                  *)

Itr == [next_node : Int, bucket_index : Int]

\* Iterator it stands at a node in use or at the end.
At(t, c, L, it) ==
    /\ it \in Itr
    /\ it.next_node # Null => /\ it.next_node \in InUse(t, L)
                              /\ it.bucket_index = Home(t, c, it.next_node)

\* The nodes it still comes to.
Remaining(t, c, L, it) ==
    IF it.next_node = Null THEN {}
    ELSE Listed(t, it.next_node)
         \cup {p \in InUse(t, L) : Home(t, c, p) > it.bucket_index}

LEMMA RemainingInUse ==
    ASSUME NEW t, NEW c, NEW L, Table(t, c, L), NEW it, At(t, c, L, it)
    PROVE  /\ Remaining(t, c, L, it) \subseteq InUse(t, L)
           /\ it.next_node # Null => it.next_node \in Remaining(t, c, L, it)
           /\ it.next_node = Null => Remaining(t, c, L, it) = {}
  <1>1. CASE it.next_node = Null
    BY <1>1 DEF Remaining
  <1>2. CASE it.next_node # Null
    <2>1. it.next_node \in InUse(t, L)
      BY <1>2 DEF At
    <2>2. it.next_node \in Listed(t, it.next_node)
      BY <2>1, TableFacts
    <2>3. \A q \in Listed(t, it.next_node) : q \in InUse(t, L)
      BY <2>1, ListedHome DEF Table
    <2>4. QED BY <1>2, <2>2, <2>3 DEF Remaining
  <1>3. QED BY <1>1, <1>2

\* next_valid_bucket stands before all nodes of bucket i and those after it.
LEMMA NextBucketIs ==
    ASSUME NEW L, Table(nodes, capcity, L), NEW i \in Nat
    PROVE  /\ At(nodes, capcity, L, NextBucket(i))
           /\ Remaining(nodes, capcity, L, NextBucket(i)) =
                 {p \in InUse(nodes, L) : Home(nodes, capcity, p) >= i}
  <1> DEFINE used == {j \in i..capcity - 1 : nodes[j].is_inuse}
             it == NextBucket(i)
             S == InUse(nodes, L)
  <1>1. /\ capcity \in Nat \ {0}
        /\ \A j \in 0..capcity - 1 : j \in DOMAIN nodes /\ j \notin L
        /\ \A j \in 0..capcity - 1 : nodes[j].is_inuse =>
              j \in S /\ Home(nodes, capcity, j) = j
    BY DEF Table, Places, Homes, InUse
  <1>2. \A p \in S : /\ Home(nodes, capcity, p) \in 0..capcity - 1
                     /\ nodes[Home(nodes, capcity, p)].is_inuse
                     /\ p \in Listed(nodes, Home(nodes, capcity, p))
    BY HomeListed DEF Table
  <1>3. CASE used = {}
    <2>1. it = [next_node |-> Null, bucket_index |-> i]
      BY <1>3 DEF NextBucket
    <2>2. it.next_node = Null /\ At(nodes, capcity, L, it)
      <3> HIDE DEF it
      <3>1. QED BY <2>1 DEF At, Itr, Null
    <2>3. Remaining(nodes, capcity, L, it) = {}
      BY <2>2 DEF Remaining
    <2>4. \A p \in S : ~(Home(nodes, capcity, p) >= i)
      BY <1>2, <1>3
    <2>5. QED BY <2>2, <2>3, <2>4
  <1>4. CASE used # {}
    <2> DEFINE b == Min(used)
    <2>1. it = [next_node |-> b, bucket_index |-> b]
      BY <1>4 DEF NextBucket
    <2>2. b \in used /\ \A j \in used : b <= j
      <3>1. used \in SUBSET Nat
        OBVIOUS
      <3> HIDE DEF used
      <3>2. \E n \in used : \A j \in used : n <= j
        BY <1>4, <3>1, LeastNumber
      <3>3. QED BY <3>2 DEF Min
    <2>3. /\ b \in Nat /\ b >= i /\ b \in 0..capcity - 1 /\ b # Null
          /\ b \in S /\ Home(nodes, capcity, b) = b
      BY <1>1, <2>2 DEF Null
    <2>4. it \in Itr /\ it.next_node = b /\ it.bucket_index = b
      <3> HIDE DEF it, b
      <3>1. QED BY <2>1, <2>3 DEF Itr
    <2>5. Remaining(nodes, capcity, L, it) =
             Listed(nodes, b) \cup {p \in S : Home(nodes, capcity, p) > b}
      BY <2>3, <2>4 DEF Remaining
    <2>6. \A p \in Listed(nodes, b) : p \in S /\ Home(nodes, capcity, p) = b
      BY <2>3, ListedHome DEF Table
    <2>7. ASSUME NEW p \in S, Home(nodes, capcity, p) >= i
          PROVE  p \in Remaining(nodes, capcity, L, it)
      <3>1. Home(nodes, capcity, p) \in used
        BY <1>2, <2>7
      <3>2. b <= Home(nodes, capcity, p)
        BY <2>2, <3>1
      <3>3. QED BY <1>2, <2>3, <2>5, <3>2
    <2>8. ASSUME NEW p \in Remaining(nodes, capcity, L, it)
          PROVE  p \in S /\ Home(nodes, capcity, p) >= i
      BY <1>2, <2>3, <2>5, <2>6
    <2>9. At(nodes, capcity, L, it)
      BY <2>3, <2>4 DEF At
    <2>10. QED BY <2>7, <2>8, <2>9
  <1>5. QED BY <1>3, <1>4

\* A step of the iterator takes it past exactly one node.
LEMMA AfterIs ==
    ASSUME NEW L, Table(nodes, capcity, L), NEW it, At(nodes, capcity, L, it),
           it.next_node # Null
    PROVE  /\ At(nodes, capcity, L, After(it))
           /\ Remaining(nodes, capcity, L, After(it)) =
                 Remaining(nodes, capcity, L, it) \ {it.next_node}
  <1> DEFINE S == InUse(nodes, L)
             p == it.next_node
             b == it.bucket_index
             n == nodes[p].next
  <1>1. /\ p \in S /\ p \in DOMAIN nodes /\ p \notin L /\ DOMAIN nodes \subseteq Nat
        /\ b = Home(nodes, capcity, p) /\ b \in Nat
    <2>1. p \in S /\ b = Home(nodes, capcity, p)
      BY DEF At
    <2>2. b \in 0..capcity - 1
      BY <2>1, TableFacts
    <2>3. QED BY <2>1, <2>2 DEF InUse, Table, Places
  <1>2. PICK h, m : Descends(nodes, h, m)
    BY DEF Table
  <1>3. Listed(nodes, p) = {p} \cup Listed(nodes, n) /\ Listed(nodes, Null) = {}
    BY <1>1, <1>2, ListedIs
  <1>4. \A q \in S : Home(nodes, capcity, q) \in Nat
    BY TableFacts DEF Table, Places
  <1>5. CASE n # Null
    <2>1. /\ n \in S /\ Home(nodes, capcity, n) = b /\ h[n] < h[p]
          /\ h[n] \in Nat /\ h[p] \in Nat /\ n \in DOMAIN nodes
      <3>1. n \in Followers(nodes, capcity, L) /\ nodes[n].prev = p
        BY <1>1, <1>5 DEF Table, Links
      <3>2. QED BY <1>1, <1>2, <1>5, <3>1
            DEF Table, Links, Homes, InUse, Followers, Descends
    <2>2. p \notin Listed(nodes, n)
      <3>1. \A q \in Listed(nodes, n) : q = n \/ h[q] < h[n]
        BY <1>1, <1>2, <2>1, ListedClosed
      <3>2. QED BY <2>1, <3>1
    <2>3. After(it) = [it EXCEPT !.next_node = n]
      BY <1>5 DEF After
    <2>4. /\ After(it) \in Itr /\ After(it).next_node = n
          /\ After(it).bucket_index = b
      <3>1. it \in Itr /\ n \in Int
        BY <1>1, <2>1 DEF At
      <3> HIDE DEF n
      <3>2. QED BY <2>3, <3>1 DEF Itr
    <2>5. At(nodes, capcity, L, After(it))
      BY <2>1, <2>4 DEF At
    <2>6. Remaining(nodes, capcity, L, After(it)) =
             Listed(nodes, n) \cup {q \in S : Home(nodes, capcity, q) > b}
      BY <1>5, <2>4 DEF Remaining
    <2>7. Remaining(nodes, capcity, L, it) =
             Listed(nodes, p) \cup {q \in S : Home(nodes, capcity, q) > b}
      BY DEF Remaining
    <2>8. p \notin {q \in S : Home(nodes, capcity, q) > b}
      BY <1>1
    <2> HIDE DEF n, p, b, S
    <2>9. QED BY <1>3, <2>2, <2>5, <2>6, <2>7, <2>8 DEF p
  <1>6. CASE n = Null
    <2>1. After(it) = NextBucket(b + 1)
      BY <1>6 DEF After
    <2>2. b + 1 \in Nat
      BY <1>1
    <2>3. /\ At(nodes, capcity, L, NextBucket(b + 1))
          /\ Remaining(nodes, capcity, L, NextBucket(b + 1)) =
                {q \in S : Home(nodes, capcity, q) >= b + 1}
      BY <2>2, NextBucketIs
    <2>4. Remaining(nodes, capcity, L, it) =
             {p} \cup {q \in S : Home(nodes, capcity, q) > b}
      BY <1>3, <1>6 DEF Remaining
    <2>5. {q \in S : Home(nodes, capcity, q) >= b + 1} =
             {q \in S : Home(nodes, capcity, q) > b}
      BY <1>1, <1>4
    <2>6. p \notin {q \in S : Home(nodes, capcity, q) > b}
      BY <1>1
    <2>7. QED BY <2>1, <2>3, <2>4, <2>5, <2>6
  <1>7. QED BY <1>5, <1>6

-----------------------------------------------------------------------------
(* The expansion.                                                           *)

\* The nodes from and to which a key and its value have been copied.
Same(t, q, u, p) == u[p].key = t[q].key /\ u[p].value = t[q].value

\* Tables t and u have the same keys, with the same values.
SameEntries(t, u, L) ==
    /\ \A q \in InUse(t, L) : \E p \in InUse(u, L) : Same(t, q, u, p)
    /\ \A p \in InUse(u, L) : \E q \in InUse(t, L) : Same(t, q, u, p)

\* Table u holds copies of the nodes Q of t, one each.
Copies(t, Q, u, L) ==
    /\ \A q \in Q : \E p \in InUse(u, L) : Same(t, q, u, p)
    /\ \A p \in InUse(u, L) : \E q \in Q : Same(t, q, u, p)
    /\ Cardinality(InUse(u, L)) = Cardinality(Q)

LEMMA ExpandIs ==
    ASSUME IsFiniteSet(DOMAIN nodes)
    PROVE  LET N == Cardinality(DOMAIN nodes)
           IN \A n \in 0..N : expand_map[n] =
                 IF n = 0
                 THEN [at |-> IF size > 0 THEN NextBucket(0) ELSE NoItr,
                       tab |-> [a \in 0..2 * capcity - 1 \cup Leaked |->
                                  IF a \in Leaked THEN nodes[a] ELSE Blank]]
                 ELSE LET done == expand_map[n - 1]
                          p == done.at.next_node
                      IN IF p = Null THEN done
                         ELSE [at |-> IF nodes[p].next = Null /\ n >= size THEN NoItr
                                      ELSE After(done.at),
                               tab |-> Rehash(done.tab, nodes[p], 2 * capcity)]
  <1> DEFINE N == Cardinality(DOMAIN nodes)
             None == [at |-> IF size > 0 THEN NextBucket(0) ELSE NoItr,
                      tab |-> [a \in 0..2 * capcity - 1 \cup Leaked |->
                                 IF a \in Leaked THEN nodes[a] ELSE Blank]]
             More(done, n) ==
                LET p == done.at.next_node
                IN IF p = Null THEN done
                   ELSE [at |-> IF nodes[p].next = Null /\ n >= size THEN NoItr
                                ELSE After(done.at),
                         tab |-> Rehash(done.tab, nodes[p], 2 * capcity)]
             Is(f, k) == f = [n \in 0..k |->
                                IF n = 0 THEN None ELSE More(f[n - 1], n)]
             Defined == {k \in Nat : \E f : Is(f, k)}
  <1>1. N \in Nat
    BY FS_CardinalityType
  <1>2. expand_map = CHOOSE f : Is(f, N)
    BY DEF expand_map
  <1> HIDE DEF None, More, N
  <1>3. 0 \in Defined
    <2> DEFINE f == [n \in 0..0 |-> None]
    <2>1. Is(f, 0)
      OBVIOUS
    <2>2. QED BY <2>1
  <1>4. ASSUME NEW k \in Defined PROVE k + 1 \in Defined
    <2>1. PICK f : Is(f, k)
      OBVIOUS
    <2> DEFINE g == [n \in 0..k + 1 |-> IF n = 0 THEN None ELSE More(f[n - 1], n)]
    <2>2. \A n \in 0..k : g[n] = f[n]
      BY <2>1
    <2>3. \A n \in 0..k + 1 : n # 0 => n - 1 \in 0..k
      OBVIOUS
    <2>4. Is(g, k + 1)
      BY <2>2, <2>3
    <2>5. k + 1 \in Nat
      OBVIOUS
    <2>6. QED BY <2>4, <2>5
  <1>5. Defined = Nat
    <2>1. Defined \in SUBSET Nat
      OBVIOUS
    <2> HIDE DEF Defined
    <2>2. QED BY <1>3, <1>4, <2>1, SetInduction
  <1>6. PICK f : Is(f, N)
    BY <1>1, <1>5
  <1>7. Is(expand_map, N)
    <2> HIDE DEF Is
    <2>1. QED BY <1>2, <1>6
  <1>8. \A n \in 0..N : expand_map[n] =
           IF n = 0 THEN None ELSE More(expand_map[n - 1], n)
    BY <1>7
  <1>9. QED BY <1>8 DEF None, More, N

\* One more node is copied.
LEMMA CopyOne ==
    ASSUME NEW t, NEW L, NEW Q, IsFiniteSet(Q), Q \subseteq InUse(t, L),
           Homes(t, capcity, L), NEW p \in InUse(t, L) \ Q,
           NEW u, NEW c, Table(u, c, L), Copies(t, Q, u, L),
           t[p].value \in Value \cup {Zeros}
    PROVE  /\ Table(Rehash(u, t[p], c), c, L)
           /\ Copies(t, Q \cup {p}, Rehash(u, t[p], c), L)
  <1> DEFINE k == t[p].key
             v == t[p].value
             w == Added(u, c, k, v)
  <1>1. Rehash(u, t[p], c) = w
    BY DEF Rehash
  <1>2. k \in Key /\ v \in Value \cup {Zeros}
    BY DEF Homes
  <1>3. \A q \in InUse(u, L) : u[q].key # k
    BY DEF Copies, Same, Homes
  <1> HIDE DEF k, v, w
  <1>4. PICK a : Table(w, c, L) /\ Adds(u, w, L, a, k, v)
    BY <1>2, <1>3, AddedTable DEF w
  <1>5. /\ a \notin InUse(u, L) /\ InUse(w, L) = InUse(u, L) \cup {a}
        /\ w[a].key = k /\ w[a].value = v
        /\ \A q \in InUse(u, L) : w[q].key = u[q].key /\ w[q].value = u[q].value
    BY <1>4 DEF Adds
  <1>6. Cardinality(InUse(w, L)) = Cardinality(Q \cup {p})
    <2>1. IsFiniteSet(InUse(u, L))
      <3>1. IsFiniteSet(DOMAIN u) /\ InUse(u, L) \subseteq DOMAIN u
        BY DEF Table, Places, InUse
      <3>2. QED BY <3>1, FS_Subset
    <2>2. Cardinality(InUse(w, L)) = Cardinality(InUse(u, L)) + 1
      BY <1>5, <2>1, FS_AddElement
    <2>3. Cardinality(Q \cup {p}) = Cardinality(Q) + 1
      BY FS_AddElement
    <2>4. QED BY <2>2, <2>3 DEF Copies
  <1>7. ASSUME NEW q \in Q \cup {p} PROVE \E r \in InUse(w, L) : Same(t, q, w, r)
    <2>1. CASE q = p
      BY <1>5, <2>1 DEF Same, k, v
    <2>2. CASE q # p
      <3>1. PICK r \in InUse(u, L) : Same(t, q, u, r)
        BY <2>2 DEF Copies
      <3>2. r \in InUse(w, L) /\ Same(t, q, w, r)
        BY <1>5, <3>1 DEF Same
      <3>3. QED BY <3>2
    <2>3. QED BY <2>1, <2>2
  <1>8. ASSUME NEW r \in InUse(w, L) PROVE \E q \in Q \cup {p} : Same(t, q, w, r)
    <2>1. CASE r = a
      BY <1>5, <2>1 DEF Same, k, v
    <2>2. CASE r # a
      <3>1. r \in InUse(u, L)
        BY <1>5, <2>2
      <3>2. PICK q \in Q : Same(t, q, u, r)
        BY <3>1 DEF Copies
      <3>3. Same(t, q, w, r)
        BY <1>5, <3>1, <3>2 DEF Same
      <3>4. QED BY <3>3
    <2>3. QED BY <2>1, <2>2
  <1>9. QED BY <1>1, <1>4, <1>6, <1>7, <1>8 DEF Copies

\* The empty table the expansion begins with.
Emptied(t, L, d, u) ==
    u = [a \in 0..d - 1 \cup L |-> IF a \in L THEN t[a] ELSE Blank]

LEMMA EmptyTable ==
    ASSUME NEW t, NEW L, NEW d \in Nat \ {0}, d <= MaxCapcity,
           IsFiniteSet(L), NEW u, Emptied(t, L, d, u),
           \A a \in L : /\ a \in Nat /\ a >= MaxCapcity
                        /\ t[a] \in Node /\ t[a].next = Null
    PROVE  Table(u, d, L) /\ InUse(u, L) = {}
  <1>1. IsFiniteSet(DOMAIN u)
    <2>1. IsFiniteSet(0..d - 1)
      <3>1. d - 1 \in Int
        OBVIOUS
      <3>2. QED BY <3>1, FS_Interval
    <2>2. QED BY <2>1, FS_Union DEF Emptied
  <1>2. Blank \in Node /\ ~Blank.is_inuse /\ Blank.next = Null
    BY DEF Blank, Node, Null
  <1>3. /\ \A a \in L : t[a] \in Node /\ t[a].next = Null /\ a \in Nat
        /\ \A a \in 0..d - 1 : a \notin L /\ u[a] = Blank
        /\ \A a \in L : u[a] = t[a]
        /\ DOMAIN u = 0..d - 1 \cup L
    <2>1. MaxCapcity \in Nat
      BY HashMapAssumption
    <2>2. \A a \in 0..d - 1 : a \notin L
      BY <2>1
    <2>3. QED BY <2>2 DEF Emptied
  <1>4. Places(u, d, L)
    <2>1. u \in [DOMAIN u -> Node]
      <3>1. u = [a \in DOMAIN u |-> u[a]]
        BY DEF Emptied
      <3>2. \A a \in DOMAIN u : u[a] \in Node
        BY <1>2, <1>3
      <3>3. QED BY <3>1, <3>2
    <2>2. ASSUME NEW a \in DOMAIN u
          PROVE  a \in 0..d - 1 \/ (a \in Nat /\ a >= MaxCapcity)
      <3>1. a \in 0..d - 1 \/ a \in L
        BY <1>3
      <3>2. a \in L => a \in Nat /\ a >= MaxCapcity
        BY <1>3
      <3>3. QED BY <3>1, <3>2
    <2>3. 0..d - 1 \subseteq DOMAIN u /\ L \subseteq DOMAIN u \ 0..d - 1
      BY <1>3
    <2>4. QED BY <1>1, <2>1, <2>2, <2>3 DEF Places
  <1>5. InUse(u, L) = {} /\ Followers(u, d, L) = {}
    BY <1>2, <1>3 DEF InUse, Followers
  <1>6. Links(u, d, L) /\ Homes(u, d, L)
    BY <1>2, <1>3, <1>5 DEF Links, Homes
  <1>7. Descends(u, [a \in DOMAIN u |-> 0], 0)
    BY <1>2, <1>3 DEF Descends
  <1>8. QED BY <1>4, <1>5, <1>6, <1>7 DEF Table

\* The lists hold all nodes but the lost ones.
LEMMA StoredIs ==
    ASSUME NEW L, Table(nodes, capcity, L)
    PROVE  Stored = InUse(nodes, L) /\ Leaked = L
  <1>1. Stored = InUse(nodes, L)
    BY TableFacts DEF Stored, Buckets
  <1>2. \A p \in Followers(nodes, capcity, L) : nodes[p].is_inuse
    BY DEF Table, Links
  <1>3. L \subseteq DOMAIN nodes \ 0..capcity - 1
    BY DEF Table, Places
  <1>4. QED BY <1>1, <1>2, <1>3 DEF Leaked, Buckets, InUse, Followers

\* What expand_map has done after n nodes.
Copied(L, n) ==
    LET d == expand_map[n]
        Q == InUse(nodes, L) \ Remaining(nodes, capcity, L, d.at)
    IN /\ At(nodes, capcity, L, d.at)
       /\ Table(d.tab, 2 * capcity, L)
       /\ Copies(nodes, Q, d.tab, L)
       /\ d.at.next_node = Null \/ Cardinality(Q) = n

LEMMA CopiedFirst ==
    ASSUME NEW L, Table(nodes, capcity, L), 2 * capcity <= MaxCapcity,
           size = Cardinality(InUse(nodes, L))
    PROVE  Copied(L, 0)
  <1> DEFINE S == InUse(nodes, L)
             u == [a \in 0..2 * capcity - 1 \cup L |->
                      IF a \in L THEN nodes[a] ELSE Blank]
             it == IF size > 0 THEN NextBucket(0) ELSE NoItr
  <1>1. IsFiniteSet(DOMAIN nodes) /\ IsFiniteSet(S) /\ capcity \in Nat \ {0}
    <2>1. IsFiniteSet(DOMAIN nodes) /\ S \subseteq DOMAIN nodes /\ capcity \in Nat \ {0}
      BY DEF Table, Places, InUse
    <2>2. QED BY <2>1, FS_Subset
  <1>2. 0 \in 0..Cardinality(DOMAIN nodes)
    BY <1>1, FS_CardinalityType
  <1>3. expand_map[0] = [at |-> it, tab |-> u]
    <2>1. Leaked = L
      BY StoredIs
    <2>2. expand_map[0] = [at |-> it,
                           tab |-> [a \in 0..2 * capcity - 1 \cup Leaked |->
                                      IF a \in Leaked THEN nodes[a] ELSE Blank]]
      BY <1>1, <1>2, ExpandIs
    <2>3. QED BY <2>1, <2>2
  <1>4. Table(u, 2 * capcity, L) /\ InUse(u, L) = {}
    <2>1. /\ IsFiniteSet(L)
          /\ \A a \in L : /\ a \in Nat /\ a >= MaxCapcity
                          /\ nodes[a] \in Node /\ nodes[a].next = Null
      <3>1. L \subseteq DOMAIN nodes
        BY DEF Table, Places
      <3>2. IsFiniteSet(L)
        BY <1>1, <3>1, FS_Subset
      <3>3. QED BY <3>2 DEF Table, Places, Links
    <2>2. 2 * capcity \in Nat \ {0}
      BY <1>1
    <2> DEFINE d == 2 * capcity
    <2>3. Emptied(nodes, L, d, u)
      BY DEF Emptied
    <2>4. d \in Nat \ {0} /\ d <= MaxCapcity
      BY <2>2
    <2> HIDE DEF u, d
    <2>5. Table(u, d, L) /\ InUse(u, L) = {}
      BY <2>1, <2>3, <2>4, EmptyTable
    <2>6. QED BY <2>5 DEF d
  <1>5. At(nodes, capcity, L, it) /\ Remaining(nodes, capcity, L, it) = S
    <2>1. CASE size > 0
      <3>1. /\ At(nodes, capcity, L, NextBucket(0))
            /\ Remaining(nodes, capcity, L, NextBucket(0)) =
                  {p \in S : Home(nodes, capcity, p) >= 0}
        BY NextBucketIs
      <3>2. \A p \in S : Home(nodes, capcity, p) >= 0
        BY <1>1, TableFacts
      <3>3. QED BY <2>1, <3>1, <3>2
    <2>2. CASE ~(size > 0)
      <3>1. size = 0
        BY <1>1, <2>2, FS_CardinalityType
      <3>2. S = {}
        BY <1>1, <3>1, FS_EmptySet
      <3>3. it = NoItr
        BY <2>2
      <3>4. At(nodes, capcity, L, NoItr) /\ Remaining(nodes, capcity, L, NoItr) = {}
        BY DEF At, NoItr, Null, Itr, Remaining
      <3>5. QED BY <3>2, <3>3, <3>4
    <2>3. QED BY <2>1, <2>2
  <1> HIDE DEF it, u
  <1>6. expand_map[0].at = it /\ expand_map[0].tab = u
    BY <1>3
  <1>7. S \ Remaining(nodes, capcity, L, it) = {}
    BY <1>5
  <1>8. Copies(nodes, {}, u, L) /\ Cardinality({}) = 0
    BY <1>4, FS_EmptySet DEF Copies
  <1>9. QED BY <1>4, <1>5, <1>6, <1>7, <1>8 DEF Copied

LEMMA CopiedNext ==
    ASSUME NEW L, Table(nodes, capcity, L), size = Cardinality(InUse(nodes, L)),
           NEW n \in 1..Cardinality(DOMAIN nodes), Copied(L, n - 1)
    PROVE  Copied(L, n)
  <1> DEFINE S == InUse(nodes, L)
             d == expand_map[n - 1]
             p == d.at.next_node
             R == Remaining(nodes, capcity, L, d.at)
  <1>1. /\ IsFiniteSet(DOMAIN nodes) /\ IsFiniteSet(S) /\ S \subseteq DOMAIN nodes
        /\ Cardinality(DOMAIN nodes) \in Nat
    <2>1. IsFiniteSet(DOMAIN nodes) /\ S \subseteq DOMAIN nodes
      BY DEF Table, Places, InUse
    <2>2. QED BY <2>1, FS_Subset, FS_CardinalityType
  <1>2. n \in Nat /\ n # 0 /\ n \in 0..Cardinality(DOMAIN nodes)
    BY <1>1
  <1>3. /\ At(nodes, capcity, L, d.at) /\ Table(d.tab, 2 * capcity, L)
        /\ Copies(nodes, S \ R, d.tab, L)
        /\ p = Null \/ Cardinality(S \ R) = n - 1
    BY DEF Copied
  <1>4. CASE p = Null
    <2>1. expand_map[n] = d
      BY <1>1, <1>2, <1>4, ExpandIs
    <2>2. QED BY <1>3, <1>4, <2>1 DEF Copied
  <1>5. CASE p # Null
    <2> DEFINE it == IF nodes[p].next = Null /\ n >= size THEN NoItr ELSE After(d.at)
               u == Rehash(d.tab, nodes[p], 2 * capcity)
    <2>1. expand_map[n] = [at |-> it, tab |-> u]
      BY <1>1, <1>2, <1>5, ExpandIs
    <2>2. R \subseteq S /\ p \in R
      BY <1>3, <1>5, RemainingInUse
    <2>3. /\ At(nodes, capcity, L, After(d.at))
          /\ Remaining(nodes, capcity, L, After(d.at)) = R \ {p}
      BY <1>3, <1>5, AfterIs
    <2> DEFINE Q == (S \ R) \cup {p}
    <2>4. Cardinality(Q) = n /\ Q \subseteq S /\ Q = S \ (R \ {p}) /\ IsFiniteSet(S \ R)
      <3>1. IsFiniteSet(S \ R) /\ p \notin S \ R
        BY <1>1, <2>2, FS_Subset
      <3>2. Cardinality(Q) = Cardinality(S \ R) + 1
        BY <3>1, FS_AddElement
      <3>3. QED BY <1>2, <1>3, <1>5, <2>2, <3>1, <3>2
    <2>5. At(nodes, capcity, L, it) /\ Remaining(nodes, capcity, L, it) = R \ {p}
      <3>1. CASE nodes[p].next = Null /\ n >= size
        <4>1. Cardinality(Q) <= Cardinality(S) /\ (Cardinality(S) = Cardinality(Q) => S = Q)
          BY <1>1, <2>4, FS_Subset
        <4>2. S = Q
          <5>1. Cardinality(S) \in Nat
            BY <1>1, FS_CardinalityType
          <5> HIDE DEF Q
          <5>2. QED BY <1>2, <2>4, <3>1, <4>1, <5>1
        <4>3. R \ {p} = {}
          BY <2>2, <2>4, <4>2
        <4>4. At(nodes, capcity, L, NoItr) /\ Remaining(nodes, capcity, L, NoItr) = {}
          BY DEF At, NoItr, Null, Itr, Remaining
        <4>5. QED BY <3>1, <4>3, <4>4
      <3>2. CASE ~(nodes[p].next = Null /\ n >= size)
        BY <2>3, <3>2
      <3>3. QED BY <3>1, <3>2
    <2>6. Table(u, 2 * capcity, L) /\ Copies(nodes, Q, u, L)
      <3>1. nodes[p].value \in Value \cup {Zeros}
        BY <2>2 DEF Table, Places, Node, InUse
      <3>2. p \in S \ (S \ R) /\ S \ R \subseteq S
        BY <2>2
      <3>3. QED BY <1>3, <2>4, <3>1, <3>2, CopyOne DEF Table
    <2> HIDE DEF it, u, Q
    <2>7. expand_map[n].at = it /\ expand_map[n].tab = u
      BY <2>1
    <2>8. S \ Remaining(nodes, capcity, L, it) = Q
      BY <2>4, <2>5
    <2>9. QED BY <2>4, <2>5, <2>6, <2>7, <2>8 DEF Copied
  <1>6. QED BY <1>4, <1>5

\* The expansion loses no key and no value, and doubles none.
LEMMA ExpandedIs ==
    ASSUME NEW L, Table(nodes, capcity, L), 2 * capcity <= MaxCapcity,
           size = Cardinality(InUse(nodes, L))
    PROVE  /\ Table(Expanded, 2 * capcity, L)
           /\ SameEntries(nodes, Expanded, L)
           /\ Cardinality(InUse(Expanded, L)) = size
  <1> DEFINE N == Cardinality(DOMAIN nodes)
             S == InUse(nodes, L)
             Done == {n \in Nat : n <= N => Copied(L, n)}
  <1>1. /\ IsFiniteSet(DOMAIN nodes) /\ IsFiniteSet(S) /\ N \in Nat
        /\ Cardinality(S) <= N /\ Cardinality(S) \in Nat
    <2>1. IsFiniteSet(DOMAIN nodes) /\ S \subseteq DOMAIN nodes
      BY DEF Table, Places, InUse
    <2>2. QED BY <2>1, FS_Subset, FS_CardinalityType
  <1>2. 0 \in Done
    BY CopiedFirst
  <1>3. ASSUME NEW n \in Done PROVE n + 1 \in Done
    <2>1. CASE n + 1 <= N
      <3> DEFINE k == n + 1
      <3>1. k \in 1..N /\ k - 1 = n /\ k \in Nat
        BY <1>1, <2>1
      <3>2. Copied(L, k - 1)
        BY <1>1, <2>1, <3>1
      <3> HIDE DEF k
      <3>3. Copied(L, k)
        BY <3>1, <3>2, CopiedNext
      <3>4. k \in Done
        BY <3>1, <3>3
      <3>5. QED BY <3>4 DEF k
    <2>2. CASE ~(n + 1 <= N)
      BY <2>2
    <2>3. QED BY <2>1, <2>2
  <1>4. Done = Nat
    <2>1. Done \in SUBSET Nat
      OBVIOUS
    <2> HIDE DEF Done
    <2>2. QED BY <1>2, <1>3, <2>1, SetInduction
  <1>5. Copied(L, N)
    BY <1>1, <1>4
  <1> DEFINE d == expand_map[N]
             R == Remaining(nodes, capcity, L, d.at)
  <1>6. /\ At(nodes, capcity, L, d.at) /\ Table(d.tab, 2 * capcity, L)
        /\ Copies(nodes, S \ R, d.tab, L)
        /\ d.at.next_node = Null \/ Cardinality(S \ R) = N
    BY <1>5 DEF Copied
  <1>7. /\ R \subseteq S
        /\ d.at.next_node # Null => d.at.next_node \in R
        /\ d.at.next_node = Null => R = {}
    BY <1>6, RemainingInUse
  <1> HIDE DEF R, S, N
  <1>8. R = {}
    <2>1. CASE d.at.next_node = Null
      BY <1>7, <2>1
    <2>2. CASE d.at.next_node # Null
      <3>1. Cardinality(S \ R) = N /\ S \ R \subseteq S
        BY <1>6, <2>2
      <3>2. Cardinality(S) = Cardinality(S \ R)
        <4>1. Cardinality(S \ R) <= Cardinality(S)
          BY <1>1, FS_Subset
        <4>2. QED BY <1>1, <3>1, <4>1
      <3>3. S = S \ R
        BY <1>1, <3>2, FS_Subset
      <3>4. QED BY <1>7, <3>3
    <2>3. QED BY <2>1, <2>2
  <1>9. Copies(nodes, S, d.tab, L)
    <2>1. S \ R = S
      BY <1>8
    <2>2. QED BY <1>6, <2>1
  <1>10. Expanded = d.tab
    BY DEF Expanded, N
  <1>11. QED BY <1>6, <1>9, <1>10 DEF Copies, SameEntries, S

-----------------------------------------------------------------------------
(* Insertion and removal.                                                   *)

\* Put, with the tables and sizes before and after it.
PutIs(t, c, k, v, u, s, z) ==
    LET p == Find(t, c, k)
    IN IF p # Null THEN u = [t EXCEPT ![p].value = v] /\ z = s
                   ELSE u = Added(t, c, k, v) /\ z = s + 1

\* Table u is t with value v for key k; the nodes keep their keys.
Puts(t, u, L, k, v) ==
    /\ \E p \in InUse(u, L) : u[p].key = k /\ u[p].value = v
    /\ \A q \in InUse(t, L) : /\ q \in InUse(u, L) /\ u[q].key = t[q].key
                              /\ t[q].key # k => u[q].value = t[q].value
    /\ \A q \in InUse(u, L) \ InUse(t, L) : u[q].key = k

LEMMA PutKeeps ==
    ASSUME NEW t, NEW c, NEW L, Table(t, c, L), NEW k \in Key, NEW v \in Value,
           NEW u, NEW s, NEW z, s = Cardinality(InUse(t, L)),
           PutIs(t, c, k, v, u, s, z)
    PROVE  /\ Table(u, c, L) /\ Puts(t, u, L, k, v)
           /\ z = Cardinality(InUse(u, L)) /\ (z = s \/ z = s + 1)
           /\ \E a : a \notin InUse(t, L) /\ Extends(t, u, a)
  <1> DEFINE p == Find(t, c, k)
             S == InUse(t, L)
  <1>1. IsFiniteSet(S) /\ \A q \in S : q # Null
    <2>1. IsFiniteSet(DOMAIN t) /\ S \subseteq DOMAIN t /\ DOMAIN t \subseteq Nat
      BY HashMapAssumption DEF Table, Places, InUse
    <2>2. QED BY <2>1, FS_Subset DEF Null
  <1>2. v \in Value \cup {Zeros}
    OBVIOUS
  <1>3. CASE \E q \in S : t[q].key = k
    <2>1. PICK q \in S : t[q].key = k
      BY <1>3
    <2>2. p = q
      BY <2>1, FindIs
    <2> HIDE DEF p
    <2>3. Revalued(t, u, q, v) /\ z = s
      BY <1>1, <2>2 DEF PutIs, Revalued, p
    <2>4. /\ Table(u, c, L) /\ Extends(t, u, Null)
          /\ InUse(u, L) = S
          /\ \A r \in S :
                /\ u[r].key = t[r].key
                /\ u[r].value = IF r = q THEN v ELSE t[r].value
      BY <1>2, <2>1, <2>3, ValueTable
    <2>5. Puts(t, u, L, k, v)
      BY <2>1, <2>4 DEF Puts
    <2>6. QED BY <1>1, <2>3, <2>4, <2>5
  <1>4. CASE ~\E q \in S : t[q].key = k
    <2>1. p = Null
      BY <1>4, FindIs
    <2> HIDE DEF p
    <2>2. u = Added(t, c, k, v) /\ z = s + 1
      BY <2>1 DEF PutIs, p
    <2>3. PICK a : /\ Table(u, c, L) /\ Adds(t, u, L, a, k, v)
                   /\ Extends(t, u, a)
      BY <1>2, <1>4, <2>2, AddedTable
    <2>4. /\ a \notin S /\ InUse(u, L) = S \cup {a}
          /\ u[a].key = k /\ u[a].value = v
          /\ \A q \in S : u[q].key = t[q].key /\ u[q].value = t[q].value
      BY <2>3 DEF Adds
    <2>5. Cardinality(InUse(u, L)) = s + 1
      BY <1>1, <2>4, FS_AddElement
    <2>6. Puts(t, u, L, k, v)
      BY <2>4 DEF Puts
    <2>7. QED BY <2>2, <2>3, <2>4, <2>5, <2>6
  <1>5. QED BY <1>3, <1>4

\* Table u, with the lost nodes M, is t without the node of key k.
Drops(t, L, u, M, k) ==
    /\ \A q \in InUse(t, L) : t[q].key # k =>
          \E p \in InUse(u, M) : Same(t, q, u, p)
    /\ \A p \in InUse(u, M) :
          \E q \in InUse(t, L) : t[q].key # k /\ Same(t, q, u, p)
    /\ Cardinality(InUse(u, M)) = Cardinality(InUse(t, L)) - 1

\* The key is alone in its bucket.
Unused(t, i, u) == u = [t EXCEPT ![i].is_inuse = FALSE]

LEMMA AloneTable ==
    ASSUME NEW t, NEW c, NEW L, Table(t, c, L), NEW i \in 0..c - 1,
           t[i].is_inuse, t[i].next = Null, NEW u, Unused(t, i, u)
    PROVE  /\ Table(u, c, L) /\ Drops(t, L, u, L, t[i].key)
           /\ \A q \in InUse(t, L) : q # i => q \in InUse(u, L) /\ u[q] = t[q]
  <1>1. Places(t, c, L) /\ Links(t, c, L) /\ Homes(t, c, L)
    BY DEF Table
  <1>2. PICK h, m : Descends(t, h, m)
    BY DEF Table
  <1>3. /\ 0..c - 1 \subseteq DOMAIN t /\ L \subseteq DOMAIN t \ 0..c - 1
        /\ i \in DOMAIN t /\ i \notin L /\ i \in InUse(t, L)
        /\ i \notin Followers(t, c, L) /\ t \in [DOMAIN t -> Node]
        /\ \A b \in DOMAIN t : b # Null
    BY <1>1, HashMapAssumption DEF Places, InUse, Followers, Null
  <1>4. /\ DOMAIN u = DOMAIN t /\ u \in [DOMAIN u -> Node] /\ ~u[i].is_inuse
        /\ \A b \in DOMAIN t :
              /\ u[b].prev = t[b].prev /\ u[b].next = t[b].next
              /\ b # i => u[b] = t[b]
    <2>1. DOMAIN u = DOMAIN t /\ u = [b \in DOMAIN u |-> u[b]]
      BY DEF Unused
    <2>2. \A b \in DOMAIN t : b # i => u[b] = t[b]
      BY DEF Unused
    <2>3. ~u[i].is_inuse /\ u[i].prev = t[i].prev /\ u[i].next = t[i].next /\ u[i] \in Node
      BY <1>3 DEF Node, Unused
    <2>4. u \in [DOMAIN u -> Node]
      BY <1>3, <2>1, <2>2, <2>3
    <2>5. QED BY <2>1, <2>2, <2>3, <2>4
  <1>5. InUse(u, L) = InUse(t, L) \ {i} /\ Followers(u, c, L) = Followers(t, c, L)
    BY <1>3, <1>4 DEF InUse, Followers
  <1>6. Places(u, c, L)
    BY <1>1, <1>4 DEF Places
  <1>7. \A p \in Followers(t, c, L) :
           p \in DOMAIN t /\ p # i /\ t[p].prev # i /\ t[p].prev \in DOMAIN t
    BY <1>1, <1>3 DEF Links, Followers
  <1>8. Links(u, c, L)
    <2>1. /\ \A p \in L : u[p].next = Null
          /\ \A j \in 0..c - 1 : ~u[j].is_inuse => u[j].next = Null
      BY <1>1, <1>3, <1>4 DEF Links
    <2>2. ASSUME NEW p \in DOMAIN t \ L, t[p].next # Null
          PROVE  t[p].next \in Followers(t, c, L) /\ u[t[p].next].prev = p
      BY <1>1, <1>4, <1>7, <2>2 DEF Links
    <2>3. ASSUME NEW p \in Followers(t, c, L)
          PROVE  /\ u[p].is_inuse /\ u[p].prev \in DOMAIN t \ L
                 /\ u[u[p].prev].next = p
      <3>1. /\ t[p].is_inuse /\ t[p].prev \in DOMAIN t \ L
            /\ t[t[p].prev].next = p
        BY <1>1 DEF Links
      <3>2. QED BY <1>4, <1>7, <3>1
    <2>4. ASSUME NEW p \in DOMAIN u \ L, u[p].next # Null
          PROVE  u[p].next \in Followers(u, c, L) /\ u[u[p].next].prev = p
      BY <1>4, <1>5, <2>2, <2>4
    <2>5. \A p \in Followers(u, c, L) :
             /\ u[p].is_inuse /\ u[p].prev \in DOMAIN u \ L
             /\ u[u[p].prev].next = p
      BY <1>4, <1>5, <2>3
    <2>6. QED BY <2>1, <2>4, <2>5 DEF Links
  <1>9. Homes(u, c, L)
    <2>1. \A p \in DOMAIN t : p # i => Home(u, c, p) = Home(t, c, p)
      BY <1>4 DEF Home
    <2>2. \A j \in 0..c - 1 : u[j].is_inuse => Home(u, c, j) = j
      BY <1>1, <1>3, <1>4, <2>1 DEF Homes
    <2>3. ASSUME NEW p \in Followers(t, c, L)
          PROVE  u[u[p].prev].is_inuse /\ Home(u, c, p) = Home(u, c, u[p].prev)
      <3>1. /\ p \in DOMAIN t /\ p # i /\ t[p].prev # i /\ t[p].prev \in DOMAIN t
            /\ u[p].prev = t[p].prev /\ u[t[p].prev] = t[t[p].prev]
        BY <1>4, <1>7
      <3>2. t[t[p].prev].is_inuse /\ Home(t, c, p) = Home(t, c, t[p].prev)
        BY <1>1 DEF Homes
      <3>3. QED BY <2>1, <3>1, <3>2
    <2>4. \A p \in InUse(u, L) : u[p] = t[p] /\ p \in InUse(t, L)
      BY <1>4, <1>5 DEF InUse
    <2>5. \A p \in InUse(u, L) : u[p].key \in Key
      BY <1>1, <2>4 DEF Homes
    <2>6. ASSUME NEW p \in InUse(u, L), NEW q \in InUse(u, L), u[p].key = u[q].key
          PROVE  p = q
      BY <1>1, <2>4, <2>6 DEF Homes
    <2>7. QED BY <1>5, <2>2, <2>3, <2>5, <2>6 DEF Homes
  <1>10. Descends(u, h, m)
    BY <1>2, <1>4 DEF Descends
  <1>11. Table(u, c, L)
    BY <1>6, <1>8, <1>9, <1>10 DEF Table
  <1>12. \A q \in InUse(t, L) : q # i => q \in InUse(u, L) /\ u[q] = t[q] /\ t[q].key # t[i].key
    BY <1>1, <1>3, <1>4, <1>5 DEF InUse, Homes
  <1>13. Cardinality(InUse(u, L)) = Cardinality(InUse(t, L)) - 1
    <2>1. IsFiniteSet(InUse(t, L))
      <3>1. InUse(t, L) \subseteq DOMAIN t
        BY DEF InUse
      <3>2. QED BY <1>1, <3>1, FS_Subset DEF Places
    <2>2. QED BY <1>3, <1>5, <2>1, FS_RemoveElement
  <1>14. Drops(t, L, u, L, t[i].key)
    <2>1. \A q \in InUse(t, L) : t[q].key # t[i].key => q \in InUse(u, L) /\ Same(t, q, u, q)
      BY <1>12 DEF Same
    <2>2. \A p \in InUse(u, L) : p \in InUse(t, L) /\ t[p].key # t[i].key /\ Same(t, p, u, p)
      BY <1>5, <1>12 DEF Same
    <2>3. QED BY <1>13, <2>1, <2>2 DEF Drops
  <1>15. QED BY <1>11, <1>12, <1>14

\* The key is in the bucket, with one follower, which moves into the bucket and
\* is lost.
LEMMA HeadTable ==
    ASSUME NEW t, NEW c, NEW L, Table(t, c, L), NEW i \in 0..c - 1,
           t[i].is_inuse, NEW s, s = t[i].next, s # Null, t[s].next = Null,
           NEW u, u = Freed(Shifted(t, i), Null)
    PROVE  /\ Table(u, c, L \cup {s}) /\ Drops(t, L, u, L \cup {s}, t[i].key)
           /\ Cardinality(L \cup {s}) = Cardinality(L) + 1
           /\ \A q \in InUse(t, L) : q # i /\ q # s =>
                 q \in InUse(u, L \cup {s}) /\ u[q] = t[q]
  <1> DEFINE M == L \cup {s}
  <1>1. Places(t, c, L) /\ Links(t, c, L) /\ Homes(t, c, L)
    BY DEF Table
  <1>2. PICK h, m : Descends(t, h, m)
    BY DEF Table
  <1>3. /\ 0..c - 1 \subseteq DOMAIN t /\ L \subseteq DOMAIN t \ 0..c - 1
        /\ i \in DOMAIN t /\ i \notin L /\ i \in InUse(t, L)
        /\ t \in [DOMAIN t -> Node] /\ \A b \in DOMAIN t : b # Null
    BY <1>1, HashMapAssumption DEF Places, InUse, Null
  <1>4. /\ s \in Followers(t, c, L) /\ t[s].prev = i /\ s \in DOMAIN t /\ s \notin L
        /\ s \notin 0..c - 1 /\ s # i /\ t[s].is_inuse /\ s \in InUse(t, L)
        /\ Home(t, c, s) = i
    <2>1. s \in Followers(t, c, L) /\ t[s].prev = i
      BY <1>1, <1>3 DEF Links
    <2>2. t[s].is_inuse /\ Home(t, c, s) = i
      BY <1>1, <2>1 DEF Links, Homes
    <2>3. QED BY <2>1, <2>2 DEF Followers, InUse
  <1>5. /\ DOMAIN u = DOMAIN t /\ u \in [DOMAIN u -> Node]
        /\ u[i].key = t[s].key /\ u[i].value = t[s].value /\ u[i].is_inuse
        /\ u[i].next = Null
        /\ \A b \in DOMAIN t : b # i => u[b] = t[b]
    <2>1. DOMAIN t \ {Null} = DOMAIN t
      BY <1>3
    <2>2. Shifted(t, i) = [t EXCEPT ![i] = [t[s] EXCEPT !.prev = t[i].prev]]
      BY DEF Shifted
    <2>3. DOMAIN Shifted(t, i) = DOMAIN t
      BY <2>2
    <2>4. u = [b \in DOMAIN t |-> Shifted(t, i)[b]]
      BY <2>1, <2>3 DEF Freed, Restrict
    <2>5. u[i] = [t[s] EXCEPT !.prev = t[i].prev]
      BY <1>3, <2>2, <2>4
    <2>6. \A b \in DOMAIN t : b # i => u[b] = t[b]
      BY <2>2, <2>4
    <2>7. /\ u[i].key = t[s].key /\ u[i].value = t[s].value /\ u[i].is_inuse
          /\ u[i].next = Null /\ u[i] \in Node
      <3>1. t[s] \in Node /\ t[i].prev \in Int
        BY <1>3, <1>4 DEF Node
      <3>2. QED BY <1>4, <2>5, <3>1 DEF Node
    <2>8. DOMAIN u = DOMAIN t /\ u = [b \in DOMAIN u |-> u[b]]
      BY <2>4
    <2>9. u \in [DOMAIN u -> Node]
      BY <1>3, <2>6, <2>7, <2>8
    <2>10. QED BY <2>6, <2>7, <2>8, <2>9
  <1>6. InUse(u, M) = InUse(t, L) \ {s} /\ Followers(u, c, M) = Followers(t, c, L) \ {s}
    BY <1>3, <1>4, <1>5 DEF InUse, Followers
  <1>7. Places(u, c, M)
    BY <1>1, <1>4, <1>5 DEF Places
  <1>8. ASSUME NEW p \in Followers(u, c, M)
        PROVE  /\ p \in Followers(t, c, L) /\ p \in DOMAIN t /\ p # i /\ p # s
               /\ t[p].prev # i /\ t[p].prev # s /\ t[p].prev \in DOMAIN t \ L
               /\ u[p] = t[p] /\ u[t[p].prev] = t[t[p].prev]
    <2>1. p \in Followers(t, c, L) /\ p # s /\ p \in DOMAIN t /\ p # i
      BY <1>3, <1>6 DEF Followers
    <2>2. t[p].prev \in DOMAIN t \ L /\ t[t[p].prev].next = p
      BY <1>1, <2>1 DEF Links
    <2>3. t[p].prev # i /\ t[p].prev # s
      BY <1>3, <2>1, <2>2
    <2>4. QED BY <1>5, <2>1, <2>2, <2>3
  <1>9. Links(u, c, M)
    <2>1. \A p \in M : u[p].next = Null
      BY <1>1, <1>3, <1>4, <1>5 DEF Links
    <2>2. \A j \in 0..c - 1 : ~u[j].is_inuse => u[j].next = Null
      BY <1>1, <1>3, <1>5 DEF Links
    <2>3. ASSUME NEW p \in DOMAIN u \ M, u[p].next # Null
          PROVE  u[p].next \in Followers(u, c, M) /\ u[u[p].next].prev = p
      <3>1. p # i /\ p \in DOMAIN t \ L /\ u[p] = t[p]
        BY <1>5, <2>3
      <3>2. t[p].next \in Followers(t, c, L) /\ t[t[p].next].prev = p
        BY <1>1, <2>3, <3>1 DEF Links
      <3>3. t[p].next # s
        BY <1>4, <3>1, <3>2
      <3>4. t[p].next \in Followers(u, c, M)
        BY <1>6, <3>2, <3>3
      <3>5. QED BY <1>8, <3>1, <3>2, <3>4
    <2>4. ASSUME NEW p \in Followers(u, c, M)
          PROVE  /\ u[p].is_inuse /\ u[p].prev \in DOMAIN u \ M
                 /\ u[u[p].prev].next = p
      <3>1. t[p].is_inuse /\ t[t[p].prev].next = p
        BY <1>1, <1>8 DEF Links
      <3>2. u[p].prev \in DOMAIN u \ M
        BY <1>5, <1>8
      <3>3. QED BY <1>8, <3>1, <3>2
    <2>5. QED BY <2>1, <2>2, <2>3, <2>4 DEF Links
  <1>10. Homes(u, c, M)
    <2>1. \A p \in DOMAIN t : p # i => Home(u, c, p) = Home(t, c, p)
      BY <1>5 DEF Home
    <2>2. Home(u, c, i) = i
      BY <1>4, <1>5 DEF Home
    <2>3. \A j \in 0..c - 1 : u[j].is_inuse => Home(u, c, j) = j
      BY <1>1, <1>3, <1>5, <2>1, <2>2 DEF Homes
    <2>4. ASSUME NEW p \in Followers(u, c, M)
          PROVE  u[u[p].prev].is_inuse /\ Home(u, c, p) = Home(u, c, u[p].prev)
      <3>1. t[t[p].prev].is_inuse /\ Home(t, c, p) = Home(t, c, t[p].prev)
        BY <1>1, <1>8 DEF Homes
      <3>2. QED BY <1>8, <2>1, <3>1
    <2> DEFINE old(p) == IF p = i THEN s ELSE p
    <2>5. \A p \in InUse(u, M) : old(p) \in InUse(t, L) /\ u[p].key = t[old(p)].key
      BY <1>4, <1>5, <1>6 DEF InUse
    <2>6. \A p, q \in InUse(u, M) : old(p) = old(q) => p = q
      BY <1>6
    <2> HIDE DEF old
    <2>7. \A p \in InUse(u, M) : u[p].key \in Key
      BY <1>1, <2>5 DEF Homes
    <2>8. ASSUME NEW p \in InUse(u, M), NEW q \in InUse(u, M), u[p].key = u[q].key
          PROVE  p = q
      <3>1. old(p) = old(q)
        BY <1>1, <2>5, <2>8 DEF Homes
      <3>2. QED BY <2>6, <3>1
    <2>9. QED BY <2>3, <2>4, <2>7, <2>8 DEF Homes
  <1>11. Descends(u, h, m)
    BY <1>2, <1>5 DEF Descends
  <1>12. Table(u, c, M)
    BY <1>7, <1>9, <1>10, <1>11 DEF Table
  <1>13. \A q \in InUse(t, L) : q # i /\ q # s =>
            q \in InUse(u, M) /\ u[q] = t[q]
    BY <1>5, <1>6 DEF InUse
  <1>14. IsFiniteSet(InUse(t, L)) /\ IsFiniteSet(L)
    <2>1. InUse(t, L) \subseteq DOMAIN t /\ L \subseteq DOMAIN t
      BY <1>3 DEF InUse
    <2>2. QED BY <1>1, <2>1, FS_Subset DEF Places
  <1>15. Cardinality(M) = Cardinality(L) + 1
    BY <1>4, <1>14, FS_AddElement
  <1>16. Drops(t, L, u, M, t[i].key)
    <2>1. Cardinality(InUse(u, M)) = Cardinality(InUse(t, L)) - 1
      <3>1. Cardinality(InUse(t, L) \ {s}) = Cardinality(InUse(t, L)) - 1
        BY <1>4, <1>14, FS_RemoveElement
      <3>2. QED BY <1>6, <3>1
    <2>2. i \in InUse(u, M) /\ Same(t, s, u, i)
      BY <1>3, <1>4, <1>5, <1>6 DEF Same
    <2>3. \A q \in InUse(t, L) : q # i /\ q # s => q \in InUse(u, M) /\ Same(t, q, u, q)
      BY <1>13 DEF Same
    <2>4. \A q \in InUse(t, L) : q # i => t[q].key # t[i].key
      BY <1>1, <1>3 DEF Homes
    <2>5. \A p \in InUse(u, M) : p # i => p \in InUse(t, L) /\ p # s
      BY <1>6
    <2>6. ASSUME NEW q \in InUse(t, L), t[q].key # t[i].key
          PROVE  \E p \in InUse(u, M) : Same(t, q, u, p)
      BY <2>2, <2>3, <2>6
    <2>7. ASSUME NEW p \in InUse(u, M)
          PROVE  \E q \in InUse(t, L) : t[q].key # t[i].key /\ Same(t, q, u, p)
      <3>1. CASE p = i
        BY <1>4, <2>2, <2>4, <3>1
      <3>2. CASE p # i
        BY <2>3, <2>4, <2>5, <3>2
      <3>3. QED BY <3>1, <3>2
    <2>8. QED BY <2>1, <2>6, <2>7 DEF Drops
  <1>17. QED BY <1>12, <1>13, <1>15, <1>16

\* The key is in the first follower, which is unlinked and freed.
LEMMA SecondTable ==
    ASSUME NEW t, NEW c, NEW L, Table(t, c, L), NEW i \in 0..c - 1,
           t[i].is_inuse, NEW s, s = t[i].next, s # Null,
           NEW u, u = Freed(Unlinked(t, s), s)
    PROVE  /\ Table(u, c, L) /\ Drops(t, L, u, L, t[s].key)
           /\ \A q \in InUse(t, L) : q # s =>
                 /\ q \in InUse(u, L)
                 /\ u[q].key = t[q].key /\ u[q].value = t[q].value
  <1> DEFINE n == t[s].next
  <1>1. Places(t, c, L) /\ Links(t, c, L) /\ Homes(t, c, L)
    BY DEF Table
  <1>2. PICK h, m : Descends(t, h, m)
    BY DEF Table
  <1>3. /\ 0..c - 1 \subseteq DOMAIN t /\ L \subseteq DOMAIN t \ 0..c - 1
        /\ i \in DOMAIN t /\ i \notin L /\ i \in InUse(t, L)
        /\ t \in [DOMAIN t -> Node] /\ \A b \in DOMAIN t : b # Null
    BY <1>1, HashMapAssumption DEF Places, InUse, Null
  <1>4. /\ s \in Followers(t, c, L) /\ t[s].prev = i /\ s \in DOMAIN t /\ s \notin L
        /\ s \notin 0..c - 1 /\ s # i /\ t[s].is_inuse /\ s \in InUse(t, L)
        /\ Home(t, c, s) = i /\ n \in Int
    <2>1. s \in Followers(t, c, L) /\ t[s].prev = i
      BY <1>1, <1>3 DEF Links
    <2>2. Home(t, c, i) = i
      BY <1>1 DEF Homes
    <2>3. t[s].is_inuse /\ Home(t, c, s) = i
      BY <1>1, <2>1, <2>2 DEF Links, Homes
    <2>4. s \in DOMAIN t
      BY <2>1 DEF Followers
    <2>5. n \in Int
      BY <1>3, <2>4 DEF Node
    <2>6. QED BY <2>1, <2>3, <2>5 DEF Followers, InUse
  <1>5. /\ n # i /\ n # s
        /\ n # Null => /\ n \in Followers(t, c, L) /\ t[n].prev = s /\ n \in DOMAIN t
    <2>1. n # Null => n \in Followers(t, c, L) /\ t[n].prev = s /\ n \in DOMAIN t
      BY <1>1, <1>4 DEF Links, Followers
    <2>2. n # Null => n # i /\ n # s
      BY <1>4, <2>1 DEF Followers
    <2>3. i # Null /\ s # Null
      BY <1>3
    <2>4. QED BY <2>1, <2>2, <2>3
  <1>6. /\ DOMAIN u = DOMAIN t \ {s} /\ u \in [DOMAIN u -> Node]
        /\ \A b \in DOMAIN t \ {s} :
              /\ u[b].key = t[b].key /\ u[b].value = t[b].value
              /\ u[b].is_inuse = t[b].is_inuse
              /\ u[b].prev = IF b = n THEN i ELSE t[b].prev
              /\ u[b].next = IF b = i THEN n ELSE t[b].next
    <2> HIDE DEF n
    <2>1. Unlinked(t, s) =
             [q \in DOMAIN t |->
                CASE q = i -> [t[q] EXCEPT !.next = n]
                  [] q = n -> [t[q] EXCEPT !.prev = i]
                  [] OTHER -> t[q]]
      BY <1>4 DEF Unlinked, n
    <2>2. u = [q \in DOMAIN t \ {s} |->
                CASE q = i -> [t[q] EXCEPT !.next = n]
                  [] q = n -> [t[q] EXCEPT !.prev = i]
                  [] OTHER -> t[q]]
      BY <2>1 DEF Freed, Restrict
    <2>3. DOMAIN u = DOMAIN t \ {s} /\ u = [b \in DOMAIN u |-> u[b]]
      BY <2>2
    <2>4. ASSUME NEW b \in DOMAIN t \ {s}
          PROVE  /\ u[b] \in Node
                 /\ u[b].key = t[b].key /\ u[b].value = t[b].value
                 /\ u[b].is_inuse = t[b].is_inuse
                 /\ u[b].prev = IF b = n THEN i ELSE t[b].prev
                 /\ u[b].next = IF b = i THEN n ELSE t[b].next
      <3>1. t[b] \in Node /\ i \in Int /\ n # i
        BY <1>3, <1>5
      <3>2. CASE b = i
        <4>1. u[b] = [t[b] EXCEPT !.next = n]
          BY <1>5, <2>2, <3>2
        <4>2. QED BY <1>4, <3>1, <3>2, <4>1 DEF Node
      <3>3. CASE b # i /\ b = n
        <4>1. u[b] = [t[b] EXCEPT !.prev = i]
          BY <2>2, <3>3
        <4>2. QED BY <3>1, <3>3, <4>1 DEF Node
      <3>4. CASE b # i /\ b # n
        <4>1. u[b] = t[b]
          BY <2>2, <3>4
        <4>2. QED BY <3>1, <3>4, <4>1
      <3>5. QED BY <3>2, <3>3, <3>4
    <2>5. u \in [DOMAIN u -> Node]
      BY <2>3, <2>4
    <2>6. QED BY <2>3, <2>4, <2>5
  <1>7. InUse(u, L) = InUse(t, L) \ {s} /\ Followers(u, c, L) = Followers(t, c, L) \ {s}
    BY <1>3, <1>4, <1>6 DEF InUse, Followers
  <1>8. Places(u, c, L)
    <2>1. IsFiniteSet(DOMAIN u)
      BY <1>1, <1>6, FS_RemoveElement DEF Places
    <2>2. 0..c - 1 \subseteq DOMAIN u /\ L \subseteq DOMAIN u \ 0..c - 1
      BY <1>3, <1>4, <1>6
    <2>3. \A a \in DOMAIN u : a \in 0..c - 1 \/ (a \in Nat /\ a >= MaxCapcity)
      BY <1>1, <1>6 DEF Places
    <2>4. QED BY <1>1, <1>6, <2>1, <2>2, <2>3 DEF Places
  <1>9. Links(u, c, L)
    <2>1. \A p \in L : u[p].next = Null
      BY <1>1, <1>3, <1>4, <1>6 DEF Links
    <2>2. \A j \in 0..c - 1 : ~u[j].is_inuse => u[j].next = Null
      BY <1>1, <1>3, <1>4, <1>6 DEF Links
    <2>3. ASSUME NEW p \in DOMAIN u \ L, u[p].next # Null
          PROVE  u[p].next \in Followers(u, c, L) /\ u[u[p].next].prev = p
      <3>1. p \in DOMAIN t \ L /\ p # s
        BY <1>6
      <3>2. CASE p = i
        BY <1>4, <1>5, <1>6, <1>7, <2>3, <3>1, <3>2
      <3>3. CASE p # i
        <4>1. u[p].next = t[p].next
          BY <1>6, <3>1, <3>3
        <4>2. t[p].next \in Followers(t, c, L) /\ t[t[p].next].prev = p
          BY <1>1, <2>3, <3>1, <4>1 DEF Links
        <4>3. t[p].next # s /\ t[p].next # n /\ t[p].next \in DOMAIN t
          BY <1>4, <1>5, <3>1, <3>3, <4>2, <2>3, <4>1 DEF Followers
        <4>4. QED BY <1>6, <1>7, <4>1, <4>2, <4>3
      <3>4. QED BY <3>2, <3>3
    <2>4. ASSUME NEW p \in Followers(u, c, L)
          PROVE  /\ u[p].is_inuse /\ u[p].prev \in DOMAIN u \ L
                 /\ u[u[p].prev].next = p
      <3>1. p \in Followers(t, c, L) /\ p # s /\ p \in DOMAIN t
        BY <1>7 DEF Followers
      <3>2. /\ t[p].is_inuse /\ t[p].prev \in DOMAIN t \ L
            /\ t[t[p].prev].next = p
        BY <1>1, <3>1 DEF Links
      <3>3. CASE p = n
        BY <1>3, <1>4, <1>6, <3>1, <3>2, <3>3
      <3>4. CASE p # n
        <4>1. t[p].prev # i /\ t[p].prev # s
          BY <3>1, <3>2, <3>4
        <4>2. QED BY <1>6, <3>1, <3>2, <3>4, <4>1
      <3>5. QED BY <3>3, <3>4
    <2>5. QED BY <2>1, <2>2, <2>3, <2>4 DEF Links
  <1>10. Homes(u, c, L)
    <2>1. \A p \in DOMAIN t \ {s} : Home(u, c, p) = Home(t, c, p)
      BY <1>6 DEF Home
    <2>2. Home(t, c, i) = i
      BY <1>1 DEF Homes
    <2>3. \A j \in 0..c - 1 : u[j].is_inuse => Home(u, c, j) = j
      BY <1>1, <1>3, <1>4, <1>6, <2>1 DEF Homes
    <2>4. ASSUME NEW p \in Followers(u, c, L)
          PROVE  u[u[p].prev].is_inuse /\ Home(u, c, p) = Home(u, c, u[p].prev)
      <3>1. p \in Followers(t, c, L) /\ p # s /\ p \in DOMAIN t
        BY <1>7 DEF Followers
      <3>2. /\ t[p].prev \in DOMAIN t /\ t[t[p].prev].next = p
            /\ t[t[p].prev].is_inuse /\ Home(t, c, p) = Home(t, c, t[p].prev)
        BY <1>1, <3>1 DEF Homes, Links
      <3>3. CASE p = n
        <4>1. t[p].prev = s
          BY <1>3, <1>5, <3>1, <3>3
        <4>2. u[p].prev = i
          BY <1>6, <3>1, <3>3
        <4>3. QED BY <1>3, <1>4, <1>6, <2>1, <2>2, <3>1, <3>2, <4>1, <4>2
      <3>4. CASE p # n
        <4>1. t[p].prev # s /\ u[p].prev = t[p].prev
          BY <1>6, <3>1, <3>2, <3>4
        <4>2. QED BY <1>6, <2>1, <3>1, <3>2, <4>1
      <3>5. QED BY <3>3, <3>4
    <2>5. \A p \in InUse(u, L) : p \in InUse(t, L) /\ u[p].key = t[p].key
      BY <1>6, <1>7 DEF InUse
    <2>6. \A p \in InUse(u, L) : u[p].key \in Key
      BY <1>1, <2>5 DEF Homes
    <2>7. ASSUME NEW p \in InUse(u, L), NEW q \in InUse(u, L), u[p].key = u[q].key
          PROVE  p = q
      BY <1>1, <2>5, <2>7 DEF Homes
    <2>8. QED BY <2>3, <2>4, <2>6, <2>7 DEF Homes
  <1>11. Descends(u, [p \in DOMAIN u |-> h[p]], m)
    <2> DEFINE g == [p \in DOMAIN u |-> h[p]]
    <2>1. m \in Nat /\ \A p \in DOMAIN t : h[p] \in 0..m
      BY <1>2 DEF Descends
    <2>2. g \in [DOMAIN u -> 0..m]
      BY <1>6, <2>1
    <2>3. ASSUME NEW p \in DOMAIN u, u[p].next # Null
          PROVE  u[p].next \in DOMAIN u /\ g[u[p].next] < g[p]
      <3>1. CASE p = i
        <4>1. u[p].next = n /\ n # Null
          BY <1>6, <2>3, <3>1
        <4>2. h[n] < h[s] /\ h[s] < h[i] /\ n \in DOMAIN u /\ n \in DOMAIN t
          BY <1>2, <1>3, <1>4, <1>5, <1>6, <4>1 DEF Descends
        <4>3. h[n] < h[i]
          BY <1>3, <1>4, <2>1, <4>2
        <4>4. QED BY <3>1, <4>1, <4>2, <4>3
      <3>2. CASE p # i
        <4>1. u[p].next = t[p].next /\ p \in DOMAIN t
          BY <1>6, <3>2
        <4>2. t[p].next \in DOMAIN t /\ h[t[p].next] < h[p]
          BY <1>2, <2>3, <4>1 DEF Descends
        <4>3. t[p].next # s
          BY <1>1, <1>3, <1>4, <2>3, <3>2, <4>1 DEF Links
        <4>4. QED BY <1>6, <4>1, <4>2, <4>3
      <3>3. QED BY <3>1, <3>2
    <2> HIDE DEF g
    <2>4. Descends(u, g, m)
      BY <2>1, <2>2, <2>3 DEF Descends
    <2>5. QED BY <2>4 DEF g
  <1>12. Table(u, c, L)
    BY <1>8, <1>9, <1>10, <1>11 DEF Table
  <1>13. \A q \in InUse(t, L) : q # s =>
            /\ q \in InUse(u, L)
            /\ u[q].key = t[q].key /\ u[q].value = t[q].value
    BY <1>6, <1>7 DEF InUse
  <1>14. Drops(t, L, u, L, t[s].key)
    <2>1. Cardinality(InUse(u, L)) = Cardinality(InUse(t, L)) - 1
      <3>1. IsFiniteSet(InUse(t, L))
        <4>1. InUse(t, L) \subseteq DOMAIN t
          BY DEF InUse
        <4>2. QED BY <1>1, <4>1, FS_Subset DEF Places
      <3>2. Cardinality(InUse(t, L) \ {s}) = Cardinality(InUse(t, L)) - 1
        BY <1>4, <3>1, FS_RemoveElement
      <3>3. QED BY <1>7, <3>2
    <2>2. \A q \in InUse(t, L) : q # s => q \in InUse(u, L) /\ Same(t, q, u, q)
      BY <1>13 DEF Same
    <2>3. \A q \in InUse(t, L) : q # s => t[q].key # t[s].key
      BY <1>1, <1>4 DEF Homes
    <2>4. \A p \in InUse(u, L) : p \in InUse(t, L) /\ p # s
      BY <1>7
    <2>5. QED BY <2>1, <2>2, <2>3, <2>4 DEF Drops
  <1>15. QED BY <1>12, <1>13, <1>14

-----------------------------------------------------------------------------
(* The inductive invariant.                                                 *)

\* The pointer h that hashmap_get returned for key k.
Holding(t, L, h, k) == h # Null => h \in InUse(t, L) /\ t[h].key = k

\* The keys se that iterator it has returned are those of nodes it is past, and
\* the promised ones pr it has not returned are those of nodes it comes to.
Iterating(t, c, L, it, pr, se) ==
    it # NoItr =>
    /\ At(t, c, L, it)
    /\ se \in Seq(Key) /\ IsInjective(se)
    /\ \A i \in DOMAIN se :
          \E p \in InUse(t, L) \ Remaining(t, c, L, it) : t[p].key = se[i]
    /\ \A x \in pr : \/ \E i \in DOMAIN se : se[i] = x
                     \/ \E p \in Remaining(t, c, L, it) : t[p].key = x

\* A map in use, with the lost nodes L.
Kept(L) ==
    /\ Table(nodes, capcity, L)
    /\ size = Cardinality(InUse(nodes, L)) /\ shifts = Cardinality(L)
    /\ Holding(nodes, L, held, heldKey)
    /\ Iterating(nodes, capcity, L, itr, promised, seen)

Loads ==
    load_factor > 0 =>
    load_factor = 3 /\ threshold = Threshold(3, capcity) /\ size <= threshold

Powers == capcity \in Nat \ {0} /\ \E i \in 0..capcity : capcity = PowerOfTwo[i]

IInv ==
    /\ state = "live" => \E L : Kept(L)
    /\ state # "live" => itr = NoItr
    /\ state = "freed" => Cardinality(DOMAIN nodes) = shifts
    /\ Loads /\ Powers

LEMMA PowerIs ==
    /\ \A i \in Nat : PowerOfTwo[i] = IF i = 0 THEN 1 ELSE 2 * PowerOfTwo[i - 1]
    /\ \A i \in Nat : PowerOfTwo[i] \in Nat /\ i < PowerOfTwo[i]
  <1> DEFINE Is(f, S) == f = [n \in S |-> IF n = 0 THEN 1 ELSE 2 * f[n - 1]]
             Defined == {k \in Nat : \E f : Is(f, 0..k)}
             F(k) == CHOOSE f : Is(f, 0..k)
             G == [n \in Nat |-> F(n)[n]]
  <1>1. PowerOfTwo = CHOOSE f : Is(f, Nat)
    BY DEF PowerOfTwo
  <1>2. 0 \in Defined
    <2> DEFINE f == [n \in 0..0 |-> 1]
    <2>1. Is(f, 0..0)
      OBVIOUS
    <2>2. QED BY <2>1
  <1>3. ASSUME NEW k \in Defined PROVE k + 1 \in Defined
    <2>1. PICK f : Is(f, 0..k)
      OBVIOUS
    <2> DEFINE g == [n \in 0..k + 1 |-> IF n = 0 THEN 1 ELSE 2 * f[n - 1]]
    <2>2. \A n \in 0..k : g[n] = f[n]
      BY <2>1
    <2>3. \A n \in 0..k + 1 : n # 0 => n - 1 \in 0..k
      OBVIOUS
    <2>4. Is(g, 0..k + 1)
      BY <2>2, <2>3
    <2>5. k + 1 \in Nat
      OBVIOUS
    <2>6. QED BY <2>4, <2>5
  <1>4. Defined = Nat
    <2>1. Defined \in SUBSET Nat
      OBVIOUS
    <2> HIDE DEF Defined
    <2>2. QED BY <1>2, <1>3, <2>1, SetInduction
  <1>5. \A k \in Nat : Is(F(k), 0..k)
    BY <1>4
  <1> HIDE DEF F
  <1>6. \A k \in Nat : \A n \in 0..k :
           F(k)[n] = IF n = 0 THEN 1 ELSE 2 * F(k)[n - 1]
    BY <1>5
  <1> DEFINE Agree == {n \in Nat : \A k \in Nat : n <= k => F(k)[n] = F(n)[n]}
  <1>7. Agree = Nat
    <2>1. 0 \in Agree
      <3>1. \A k \in Nat : F(k)[0] = 1
        BY <1>6
      <3>2. QED BY <3>1
    <2>2. ASSUME NEW n \in Agree PROVE n + 1 \in Agree
      <3> DEFINE l == n + 1
      <3>1. l \in Nat /\ l # 0 /\ l - 1 = n
        OBVIOUS
      <3> HIDE DEF l
      <3>2. ASSUME NEW k \in Nat, l <= k PROVE F(k)[l] = 2 * F(n)[n]
        <4>1. F(k)[l] = 2 * F(k)[n]
          BY <1>6, <3>1, <3>2
        <4>2. F(k)[n] = F(n)[n]
          BY <3>1, <3>2
        <4>3. QED BY <4>1, <4>2
      <3>3. l \in Agree
        BY <3>1, <3>2
      <3>4. QED BY <3>3 DEF l
    <2>3. Agree \in SUBSET Nat
      OBVIOUS
    <2> HIDE DEF Agree
    <2>4. QED BY <2>1, <2>2, <2>3, SetInduction
  <1>8. Is(G, Nat)
    <2>1. ASSUME NEW n \in Nat PROVE G[n] = IF n = 0 THEN 1 ELSE 2 * G[n - 1]
      <3>1. CASE n = 0
        BY <1>6, <3>1
      <3>2. CASE n # 0
        <4>1. n - 1 \in Nat /\ n - 1 <= n
          BY <3>2
        <4>2. F(n)[n] = 2 * F(n)[n - 1]
          BY <1>6, <3>2
        <4>3. F(n)[n - 1] = F(n - 1)[n - 1]
          BY <1>7, <4>1
        <4>4. QED BY <3>2, <4>1, <4>2, <4>3
      <3>3. QED BY <3>1, <3>2
    <2>2. QED BY <2>1
  <1>9. Is(PowerOfTwo, Nat)
    <2> HIDE DEF Is, G
    <2>1. QED BY <1>1, <1>8
  <1>10. \A i \in Nat : PowerOfTwo[i] = IF i = 0 THEN 1 ELSE 2 * PowerOfTwo[i - 1]
    BY <1>9
  <1> DEFINE Above == {i \in Nat : PowerOfTwo[i] \in Nat /\ i < PowerOfTwo[i]}
  <1>11. 0 \in Above
    BY <1>10
  <1>12. ASSUME NEW i \in Above PROVE i + 1 \in Above
    <2>1. PowerOfTwo[i + 1] = 2 * PowerOfTwo[i]
      BY <1>10
    <2>2. PowerOfTwo[i] \in Nat /\ i < PowerOfTwo[i]
      OBVIOUS
    <2>3. QED BY <2>1, <2>2
  <1>13. Above = Nat
    <2>1. Above \in SUBSET Nat
      OBVIOUS
    <2> HIDE DEF Above
    <2>2. QED BY <1>11, <1>12, <2>1, SetInduction
  <1>14. QED BY <1>10, <1>13

LEMMA min2nIs ==
    ASSUME NEW n \in Nat
    PROVE  /\ min2n(n) \in Nat \ {0}
           /\ \E i \in 0..min2n(n) : min2n(n) = PowerOfTwo[i]
  <1> DEFINE P == {p \in {PowerOfTwo[i] : i \in 0..n} : p >= n}
  <1>1. P \in SUBSET Nat
    BY PowerIs
  <1>2. PowerOfTwo[n] \in P
    BY PowerIs
  <1>3. \A p \in P : \E i \in Nat : p = PowerOfTwo[i]
    OBVIOUS
  <1>4. min2n(n) = CHOOSE x \in P : \A y \in P : x <= y
    BY DEF min2n, Min
  <1> HIDE DEF P
  <1>5. \E x \in P : \A y \in P : x <= y
    BY <1>1, <1>2, LeastNumber
  <1>6. min2n(n) \in P
    BY <1>4, <1>5
  <1>7. PICK i \in Nat : min2n(n) = PowerOfTwo[i]
    BY <1>3, <1>6
  <1>8. min2n(n) \in Nat /\ i < min2n(n)
    BY <1>7, PowerIs
  <1>9. QED BY <1>7, <1>8

\* An iterator survives what does not expand the map and removes nothing.
LEMMA IteratingGrows ==
    ASSUME NEW t, NEW c, NEW L, Table(t, c, L), NEW u, Table(u, c, L),
           NEW k, NEW v, Puts(t, u, L, k, v),
           NEW a, a \notin InUse(t, L), Extends(t, u, a),
           NEW it, NEW pr, NEW se, Iterating(t, c, L, it, pr, se)
    PROVE  Iterating(u, c, L, it, pr, se)
  <1> SUFFICES ASSUME it # NoItr PROVE Iterating(u, c, L, it, pr, se)
    BY DEF Iterating
  <1> DEFINE p == it.next_node
             R == Remaining(t, c, L, it)
             W == Remaining(u, c, L, it)
  <1>1. /\ At(t, c, L, it)
        /\ se \in Seq(Key) /\ IsInjective(se)
        /\ \A i \in DOMAIN se : \E q \in InUse(t, L) \ R : t[q].key = se[i]
        /\ \A x \in pr : \/ \E i \in DOMAIN se : se[i] = x
                         \/ \E q \in R : t[q].key = x
    BY DEF Iterating
  <1>2. \A q \in InUse(t, L) :
           q \in InUse(u, L) /\ u[q].key = t[q].key /\ Home(u, c, q) = Home(t, c, q)
    BY DEF Puts, Home
  <1>3. At(u, c, L, it)
    BY <1>1, <1>2 DEF At
  <1>4. R \subseteq InUse(t, L)
    BY <1>1, RemainingInUse
  <1>5. R \subseteq W /\ \A q \in W : q \in InUse(t, L) => q \in R
    <2>1. CASE p = Null
      BY <2>1 DEF Remaining
    <2>2. CASE p # Null
      <3>1. p \in DOMAIN t
        BY <1>1, <2>2 DEF At, InUse
      <3>2. PICK h, m, g, l : Descends(t, h, m) /\ Descends(u, g, l)
        BY DEF Table
      <3>3. DOMAIN u \subseteq Nat
        BY HashMapAssumption DEF Table, Places
      <3>4. Listed(t, p) \subseteq Listed(u, p) /\ Listed(u, p) \subseteq Listed(t, p) \cup {a}
        BY <3>1, <3>2, <3>3, ListedGrows
      <3>5. R = Listed(t, p) \cup {q \in InUse(t, L) : Home(t, c, q) > it.bucket_index}
        BY <2>2 DEF Remaining
      <3>6. W = Listed(u, p) \cup {q \in InUse(u, L) : Home(u, c, q) > it.bucket_index}
        BY <2>2 DEF Remaining
      <3> HIDE DEF R, W, p
      <3>7. ASSUME NEW q \in R PROVE q \in W
        BY <1>2, <3>4, <3>5, <3>6
      <3>8. ASSUME NEW q \in W, q \in InUse(t, L) PROVE q \in R
        BY <1>2, <3>4, <3>5, <3>6, <3>8
      <3>9. QED BY <3>7, <3>8
    <2>3. QED BY <2>1, <2>2
  <1> HIDE DEF R, W
  <1>6. ASSUME NEW i \in DOMAIN se
        PROVE  \E q \in InUse(u, L) \ W : u[q].key = se[i]
    <2>1. PICK q \in InUse(t, L) \ R : t[q].key = se[i]
      BY <1>1
    <2>2. q \in InUse(u, L) \ W /\ u[q].key = se[i]
      BY <1>2, <1>5, <2>1
    <2>3. QED BY <2>2
  <1>7. ASSUME NEW x \in pr
        PROVE  \/ \E i \in DOMAIN se : se[i] = x
               \/ \E q \in W : u[q].key = x
    <2>1. ASSUME NEW q \in R, t[q].key = x PROVE q \in W /\ u[q].key = x
      BY <1>2, <1>4, <1>5, <2>1
    <2>2. QED BY <1>1, <2>1
  <1>8. QED BY <1>1, <1>3, <1>6, <1>7 DEF Iterating, W

LEMMA InitSound == Init => IInv
  <1> SUFFICES ASSUME Init PROVE IInv
    OBVIOUS
  <1>1. PICK c \in Requested : capcity = min2n(IF c <= 0 THEN DEFAULT_MAP_CAPCITY ELSE c)
    BY DEF Init
  <1>2. /\ capcity \in Nat \ {0} /\ \E i \in 0..capcity : capcity = PowerOfTwo[i]
    <2> DEFINE n == IF c <= 0 THEN DEFAULT_MAP_CAPCITY ELSE c
    <2>1. n \in Nat
      BY HashMapAssumption
    <2> HIDE DEF n
    <2>2. capcity = min2n(n)
      BY <1>1 DEF n
    <2>3. QED BY <2>1, <2>2, min2nIs
  <1>3. Table(nodes, capcity, {}) /\ InUse(nodes, {}) = {}
    <2>1. Emptied(nodes, {}, capcity, nodes)
      BY DEF Init, Buckets, Emptied
    <2>2. IsFiniteSet({}) /\ capcity <= MaxCapcity
      BY FS_EmptySet DEF Init
    <2>3. QED BY <1>2, <2>1, <2>2, EmptyTable
  <1>4. size = 0 /\ shifts = 0 /\ Cardinality({}) = 0
    BY FS_EmptySet DEF Init
  <1>5. Kept({})
    BY <1>3, <1>4 DEF Kept, Init, Holding, Iterating
  <1>6. Loads /\ Powers
    <2>1. load_factor = 3 /\ threshold = Threshold(3, capcity)
      BY DEF Init
    <2>2. Threshold(3, capcity) >= 0
      BY <1>2 DEF Threshold
    <2>3. QED BY <1>2, <1>4, <2>1, <2>2 DEF Loads, Powers
  <1>7. QED BY <1>5, <1>6 DEF IInv, Init

LEMMA InsertSound ==
    ASSUME IInv, state = "live", NEW k \in Key, NEW v \in Value, Insert(k, v)
    PROVE  IInv'
  <1>1. PICK L : Kept(L)
    BY DEF IInv
  <1>2. PutIs(nodes, capcity, k, v, nodes', size, size')
    BY DEF Insert, Put, PutIs
  <1>3. /\ capcity' = capcity /\ load_factor' = load_factor /\ threshold' = threshold
        /\ state' = state /\ shifts' = shifts /\ held' = held /\ heldKey' = heldKey
        /\ itr' = itr /\ promised' = promised /\ seen' = seen
        /\ ~(size >= threshold)
    BY DEF Insert, Full, client
  <1>4. /\ Table(nodes', capcity, L) /\ Puts(nodes, nodes', L, k, v)
        /\ size' = Cardinality(InUse(nodes', L))
        /\ size' = size \/ size' = size + 1
        /\ \E a : a \notin InUse(nodes, L) /\ Extends(nodes, nodes', a)
    BY <1>1, <1>2, PutKeeps DEF Kept
  <1>5. Holding(nodes', L, held, heldKey)
    BY <1>1, <1>4 DEF Kept, Holding, Puts
  <1>6. Iterating(nodes', capcity, L, itr, promised, seen)
    BY <1>1, <1>4, IteratingGrows DEF Kept
  <1>7. Kept(L)'
    BY <1>1, <1>3, <1>4, <1>5, <1>6 DEF Kept
  <1>8. Loads'
    <2>1. size \in Nat
      <3>1. InUse(nodes, L) \subseteq DOMAIN nodes /\ IsFiniteSet(DOMAIN nodes)
        BY <1>1 DEF Kept, Table, Places, InUse
      <3>2. QED BY <1>1, <3>1, FS_Subset, FS_CardinalityType DEF Kept
    <2>2. capcity \in Nat
      BY DEF IInv, Powers
    <2>3. ASSUME load_factor > 0
          PROVE  load_factor = 3 /\ threshold = Threshold(3, capcity) /\ size' <= threshold
      <3>1. load_factor = 3 /\ threshold = Threshold(3, capcity)
        BY <2>3 DEF IInv, Loads
      <3>2. Threshold(3, capcity) \in Int
        BY <2>2 DEF Threshold
      <3>3. QED BY <1>3, <1>4, <2>1, <3>1, <3>2
    <2>4. QED BY <1>3, <2>3 DEF Loads
  <1>9. QED BY <1>3, <1>7, <1>8 DEF IInv, Powers

LEMMA InsertExpandSound ==
    ASSUME IInv, state = "live", NEW k \in Key, NEW v \in Value, InsertExpand(k, v)
    PROVE  IInv'
  <1>1. PICK L : Kept(L)
    BY DEF IInv
  <1> DEFINE t == Expanded
             c == 2 * capcity
  <1>2. PutIs(t, c, k, v, nodes', size, size')
    BY DEF InsertExpand, Put, PutIs
  <1>3. /\ capcity' = c /\ load_factor' = load_factor
        /\ threshold' = Threshold(load_factor, c)
        /\ state' = state /\ shifts' = shifts /\ held' = Null /\ itr' = NoItr
        /\ c <= MaxCapcity
    BY DEF InsertExpand, DropIterator, DropPointer
  <1>4. Table(t, c, L) /\ size = Cardinality(InUse(t, L))
    BY <1>1, <1>3, ExpandedIs DEF Kept
  <1> HIDE DEF t, c
  <1>5. /\ Table(nodes', c, L) /\ size' = Cardinality(InUse(nodes', L))
        /\ size' = size \/ size' = size + 1
    BY <1>2, <1>4, PutKeeps
  <1>6. Kept(L)'
    BY <1>1, <1>3, <1>5 DEF Kept, Holding, Iterating
  <1>7. capcity \in Nat \ {0} /\ \E i \in 0..capcity : capcity = PowerOfTwo[i]
    BY DEF IInv, Powers
  <1>8. Powers'
    <2>1. PICK i \in 0..capcity : capcity = PowerOfTwo[i]
      BY <1>7
    <2>2. i \in Nat /\ i + 1 \in Nat /\ i + 1 # 0 /\ (i + 1) - 1 = i
      BY <1>7
    <2>3. PowerOfTwo[i + 1] = c
      BY <2>1, <2>2, PowerIs DEF c
    <2>4. i + 1 \in 0..c /\ c \in Nat \ {0}
      BY <1>7 DEF c
    <2>5. QED BY <1>3, <2>3, <2>4 DEF Powers
  <1>9. Loads'
    <2>1. size \in Nat
      <3>1. InUse(nodes, L) \subseteq DOMAIN nodes /\ IsFiniteSet(DOMAIN nodes)
        BY <1>1 DEF Kept, Table, Places, InUse
      <3>2. QED BY <1>1, <3>1, FS_Subset, FS_CardinalityType DEF Kept
    <2>2. ASSUME load_factor > 0
          PROVE  load_factor = 3 /\ size' <= Threshold(3, c)
      <3>1. load_factor = 3 /\ size <= Threshold(3, capcity)
        BY <2>2 DEF IInv, Loads
      <3>2. Threshold(3, capcity) + 1 <= Threshold(3, c) /\ Threshold(3, c) \in Int
            /\ Threshold(3, capcity) \in Int
        BY <1>7 DEF Threshold, c
      <3>3. QED BY <1>5, <2>1, <3>1, <3>2
    <2>3. QED BY <1>3, <2>2 DEF Loads
  <1>10. QED BY <1>3, <1>6, <1>8, <1>9 DEF IInv

\* What a removal of key k that leaves the map in use does: the lost nodes are M
\* after it, and no node but those of key k and at the places ps is disturbed.
TakenOut(L, k, M, ps) ==
    /\ state' = "live" /\ Removed(k, ps) /\ shifts' = Cardinality(M)
    /\ Table(nodes', capcity, M) /\ Drops(nodes, L, nodes', M, k)
    /\ \A q \in InUse(nodes, L) : nodes[q].key # k /\ q \notin ps =>
          q \in InUse(nodes', M) /\ nodes'[q].key = nodes[q].key

LEMMA RemoveIs ==
    ASSUME NEW L, Kept(L), state = "live", NEW k \in Key, RemoveKey(k)
    PROVE  \/ UNCHANGED vars
           \/ \E M, ps : TakenOut(L, k, M, ps)
           \/ /\ state' \in {"dangling", "hung"} /\ itr' = NoItr
              /\ UNCHANGED <<capcity, load_factor, threshold>>
              /\ size' = size \/ size' = size - 1
  <1> DEFINE i == Index(k)
             s == nodes[i].next
  <1>1. Table(nodes, capcity, L) /\ i \in 0..capcity - 1 /\ shifts = Cardinality(L)
    BY HashMapAssumption DEF Kept, Index, key_hashcode, Table, Places
  <1>2. CASE RemoveMiss(k)
    BY <1>2 DEF RemoveMiss
  <1>3. CASE RemoveAlone(k)
    <2>1. /\ nodes[i].is_inuse /\ nodes[i].key = k /\ nodes[i].next = Null
          /\ Unused(nodes, i, nodes')
          /\ Removed(k, {}) /\ state' = "live" /\ shifts' = shifts
      BY <1>3 DEF RemoveAlone, InBucket, Behind, Unused
    <2> HIDE DEF i
    <2>2. /\ Table(nodes', capcity, L) /\ Drops(nodes, L, nodes', L, nodes[i].key)
          /\ \A q \in InUse(nodes, L) : q # i =>
                q \in InUse(nodes', L) /\ nodes'[q] = nodes[q]
      BY <1>1, <2>1, AloneTable
    <2>3. TakenOut(L, k, L, {})
      BY <1>1, <2>1, <2>2 DEF TakenOut
    <2>4. QED BY <2>3
  <1>4. CASE RemoveSecond(k)
    <2>1. /\ nodes[i].is_inuse /\ s # Null /\ nodes[s].key = k
          /\ nodes' = Freed(Unlinked(nodes, s), s)
          /\ Removed(k, {}) /\ state' = "live" /\ shifts' = shifts
      BY <1>4 DEF RemoveSecond, InBucket, Behind
    <2>2. /\ Table(nodes', capcity, L) /\ Drops(nodes, L, nodes', L, nodes[s].key)
          /\ \A q \in InUse(nodes, L) : q # s =>
                /\ q \in InUse(nodes', L)
                /\ nodes'[q].key = nodes[q].key /\ nodes'[q].value = nodes[q].value
      BY <1>1, <2>1, SecondTable
    <2> HIDE DEF s
    <2>3. TakenOut(L, k, L, {})
      BY <1>1, <2>1, <2>2 DEF TakenOut
    <2>4. QED BY <2>3
  <1>5. CASE RemoveHead(k)
    <2> DEFINE third == nodes[s].next
    <2>1. /\ nodes[i].is_inuse /\ nodes[i].key = k /\ s # Null
          /\ nodes' = Freed(Shifted(nodes, i), third)
          /\ shifts' = shifts + 1
          /\ state' = IF third = Null THEN "live" ELSE "dangling"
          /\ Removed(k, {i, s, third})
      BY <1>5 DEF RemoveHead, InBucket, Behind
    <2>2. CASE third = Null
      <3> DEFINE M == L \cup {s}
                 ps == {i, s, third}
      <3>0. /\ i \in 0..capcity - 1 /\ nodes[i].is_inuse
            /\ s = nodes[i].next /\ s # Null /\ nodes[s].next = Null
        BY <1>1, <2>1, <2>2
      <3>1. nodes' = Freed(Shifted(nodes, i), Null)
        BY <2>1, <2>2
      <3> HIDE DEF i, s, third
      <3>2. /\ Table(nodes', capcity, L \cup {s})
            /\ Drops(nodes, L, nodes', L \cup {s}, nodes[i].key)
            /\ Cardinality(L \cup {s}) = Cardinality(L) + 1
            /\ \A q \in InUse(nodes, L) : q # i /\ q # s =>
                  q \in InUse(nodes', L \cup {s}) /\ nodes'[q] = nodes[q]
        BY <1>1, <3>0, <3>1, HeadTable
      <3>3. /\ shifts' = Cardinality(M) /\ state' = "live" /\ Removed(k, ps)
            /\ Table(nodes', capcity, M) /\ Drops(nodes, L, nodes', M, k)
        BY <1>1, <2>1, <2>2, <3>2 DEF M, ps
      <3>4. \A q \in InUse(nodes, L) : q \notin ps =>
               q \in InUse(nodes', M) /\ nodes'[q].key = nodes[q].key
        BY <3>2
      <3> HIDE DEF M, ps
      <3>5. TakenOut(L, k, M, ps)
        BY <3>3, <3>4 DEF TakenOut
      <3>6. QED BY <3>5
    <2>3. CASE third # Null
      BY <2>1, <2>3 DEF Removed, DropIterator
    <2>4. QED BY <2>2, <2>3
  <1>6. CASE RemoveHangs(k)
    BY <1>6 DEF RemoveHangs, table, DropIterator
  <1>7. QED BY <1>2, <1>3, <1>4, <1>5, <1>6 DEF RemoveKey

LEMMA RemoveSound ==
    ASSUME IInv, state = "live", NEW k \in Key, RemoveKey(k)
    PROVE  IInv'
  <1>1. PICK L : Kept(L)
    BY DEF IInv
  <1>2. size \in Nat /\ Threshold(3, capcity) \in Int
    <2>1. InUse(nodes, L) \subseteq DOMAIN nodes /\ IsFiniteSet(DOMAIN nodes)
      BY <1>1 DEF Kept, Table, Places, InUse
    <2>2. size \in Nat
      BY <1>1, <2>1, FS_Subset, FS_CardinalityType DEF Kept
    <2>3. capcity \in Nat
      BY DEF IInv, Powers
    <2>4. QED BY <2>2, <2>3 DEF Threshold
  <1>3. CASE UNCHANGED vars
    BY <1>3 DEF IInv, Kept, Loads, Powers, vars, table, client
  <1>4. ASSUME NEW M, NEW ps, TakenOut(L, k, M, ps)
        PROVE  IInv'
    <2>1. /\ size' = size - 1 /\ itr' = NoItr
          /\ capcity' = capcity /\ load_factor' = load_factor /\ threshold' = threshold
          /\ \/ held' = Null
             \/ heldKey # k /\ held \notin ps /\ held' = held /\ heldKey' = heldKey
      BY <1>4 DEF TakenOut, Removed, DropIterator, DropPointer
    <2>2. Holding(nodes', M, held', heldKey')
      BY <1>1, <1>4, <2>1 DEF Kept, Holding, TakenOut
    <2>3. size' = Cardinality(InUse(nodes', M))
      BY <1>1, <1>4, <2>1 DEF TakenOut, Drops, Kept
    <2>4. Kept(M)'
      BY <1>4, <2>1, <2>2, <2>3 DEF Kept, Iterating, TakenOut
    <2>5. Loads'
      BY <1>2, <2>1 DEF IInv, Loads
    <2>6. QED BY <1>4, <2>1, <2>4, <2>5 DEF IInv, Powers, TakenOut
  <1>5. CASE /\ state' \in {"dangling", "hung"} /\ itr' = NoItr
             /\ UNCHANGED <<capcity, load_factor, threshold>>
             /\ size' = size \/ size' = size - 1
    <2>1. Loads'
      BY <1>2, <1>5 DEF IInv, Loads
    <2>2. QED BY <1>5, <2>1 DEF IInv, Powers
  <1>6. QED BY <1>1, <1>3, <1>4, <1>5, RemoveIs

LEMMA IteratorNextSound ==
    ASSUME IInv, state = "live", IteratorNext
    PROVE  IInv'
  <1>1. PICK L : Kept(L)
    BY DEF IInv
  <1> DEFINE p == itr.next_node
             R == Remaining(nodes, capcity, L, itr)
             W == Remaining(nodes, capcity, L, itr')
             x == nodes[p].key
  <1>2. /\ p # Null /\ itr' = After(itr) /\ seen' = Append(seen, x)
        /\ promised' = promised /\ state' = state
        /\ UNCHANGED <<nodes, capcity, load_factor, threshold, size, shifts,
                       held, heldKey>>
    BY DEF IteratorNext, table
  <1>3. itr # NoItr
    BY <1>2 DEF NoItr
  <1>4. /\ Table(nodes, capcity, L) /\ At(nodes, capcity, L, itr)
        /\ seen \in Seq(Key) /\ IsInjective(seen)
        /\ \A i \in DOMAIN seen :
              \E q \in InUse(nodes, L) \ R : nodes[q].key = seen[i]
        /\ \A y \in promised : \/ \E i \in DOMAIN seen : seen[i] = y
                               \/ \E q \in R : nodes[q].key = y
    BY <1>1, <1>3 DEF Kept, Iterating
  <1>5. At(nodes, capcity, L, itr') /\ W = R \ {p}
    BY <1>2, <1>4, AfterIs
  <1>6. R \subseteq InUse(nodes, L) /\ p \in R
    BY <1>2, <1>4, RemainingInUse
  <1>7. x \in Key /\ \A q \in InUse(nodes, L) : nodes[q].key = x => q = p
    BY <1>4, <1>6 DEF Table, Homes
  <1> HIDE DEF R, W, x, p
  <1>8. \A i \in DOMAIN seen : seen[i] # x
    BY <1>4, <1>6, <1>7
  <1>9. /\ seen' \in Seq(Key) /\ Len(seen') = Len(seen) + 1
        /\ \A i \in 1..Len(seen) : seen'[i] = seen[i]
        /\ seen'[Len(seen) + 1] = x /\ DOMAIN seen = 1..Len(seen)
        /\ DOMAIN seen' = 1..Len(seen) + 1 /\ Len(seen) \in Nat
    BY <1>2, <1>4, <1>7
  <1>10. IsInjective(seen')
    <2>1. ASSUME NEW i \in DOMAIN seen', NEW j \in DOMAIN seen', seen'[i] = seen'[j]
          PROVE  i = j
      <3>1. CASE i \in DOMAIN seen /\ j \in DOMAIN seen
        BY <1>4, <1>9, <2>1, <3>1 DEF IsInjective
      <3>2. CASE i \notin DOMAIN seen
        BY <1>8, <1>9, <2>1, <3>2
      <3>3. CASE j \notin DOMAIN seen
        BY <1>8, <1>9, <2>1, <3>3
      <3>4. QED BY <3>1, <3>2, <3>3
    <2>2. QED BY <2>1 DEF IsInjective
  <1>11. ASSUME NEW i \in DOMAIN seen'
         PROVE  \E q \in InUse(nodes, L) \ W : nodes[q].key = seen'[i]
    <2>1. CASE i \in DOMAIN seen
      <3>1. PICK q \in InUse(nodes, L) \ R : nodes[q].key = seen[i]
        BY <1>4, <2>1
      <3>2. q \in InUse(nodes, L) \ W /\ nodes[q].key = seen'[i]
        BY <1>5, <1>9, <2>1, <3>1
      <3>3. QED BY <3>2
    <2>2. CASE i \notin DOMAIN seen
      <3>1. seen'[i] = x
        BY <1>9, <2>2
      <3>2. p \in InUse(nodes, L) \ W /\ nodes[p].key = x
        BY <1>5, <1>6 DEF x
      <3>3. QED BY <3>1, <3>2
    <2>3. QED BY <2>1, <2>2
  <1>12. ASSUME NEW y \in promised
         PROVE  \/ \E i \in DOMAIN seen' : seen'[i] = y
                \/ \E q \in W : nodes[q].key = y
    <2>1. CASE \E i \in DOMAIN seen : seen[i] = y
      <3>1. PICK i \in DOMAIN seen : seen[i] = y
        BY <2>1
      <3>2. i \in DOMAIN seen' /\ seen'[i] = y
        BY <1>9, <3>1
      <3>3. QED BY <3>2
    <2>2. CASE \E q \in R : nodes[q].key = y
      <3>1. PICK q \in R : nodes[q].key = y
        BY <2>2
      <3>2. CASE q = p
        <4>1. y = x /\ Len(seen) + 1 \in DOMAIN seen'
          BY <1>9, <3>1, <3>2 DEF x
        <4>2. QED BY <1>9, <4>1
      <3>3. CASE q # p
        BY <1>5, <3>1, <3>3
      <3>4. QED BY <3>2, <3>3
    <2>3. QED BY <1>4, <2>1, <2>2
  <1>13. Iterating(nodes, capcity, L, itr', promised, seen')
    BY <1>5, <1>9, <1>10, <1>11, <1>12 DEF Iterating, W
  <1>14. Kept(L)'
    BY <1>1, <1>2, <1>13 DEF Kept
  <1>15. QED BY <1>2, <1>14 DEF IInv, Loads, Powers

LEMMA IterateSound ==
    ASSUME IInv, state = "live", Iterate
    PROVE  IInv'
  <1>1. PICK L : Kept(L)
    BY DEF IInv
  <1> DEFINE it == NextBucket(0)
             S == InUse(nodes, L)
  <1>2. /\ itr' = it /\ seen' = <<>> /\ promised' = KeysIn
        /\ UNCHANGED <<nodes, capcity, load_factor, threshold, size, shifts,
                       state, held, heldKey>>
    BY DEF Iterate, table
  <1>3. Table(nodes, capcity, L)
    BY <1>1 DEF Kept
  <1>4. At(nodes, capcity, L, it) /\ Remaining(nodes, capcity, L, it) = S
    <2>1. /\ At(nodes, capcity, L, it)
          /\ Remaining(nodes, capcity, L, it) =
                {p \in S : Home(nodes, capcity, p) >= 0}
      BY <1>3, NextBucketIs
    <2>2. \A p \in S : Home(nodes, capcity, p) >= 0
      BY <1>3, TableFacts DEF Table, Places
    <2>3. QED BY <2>1, <2>2
  <1> HIDE DEF it
  <1>5. \A x \in KeysIn : \E p \in S : nodes[p].key = x
    BY <1>3, StoredIs DEF KeysIn
  <1>6. <<>> \in Seq(Key) /\ IsInjective(<<>>) /\ DOMAIN <<>> = {}
    BY DEF IsInjective
  <1>7. Iterating(nodes, capcity, L, it, KeysIn, <<>>)
    BY <1>4, <1>5, <1>6 DEF Iterating
  <1>8. Kept(L)'
    BY <1>1, <1>2, <1>7 DEF Kept
  <1>9. QED BY <1>2, <1>8 DEF IInv, Loads, Powers

LEMMA GetSound ==
    ASSUME IInv, state = "live", NEW k \in Key, Get(k)
    PROVE  IInv'
  <1>1. PICK L : Kept(L)
    BY DEF IInv
  <1>2. /\ held' = Find(nodes, capcity, k) /\ heldKey' = IF held' = Null THEN Zeros ELSE k
        /\ UNCHANGED <<nodes, capcity, load_factor, threshold, size, shifts,
                       state, itr, promised, seen>>
    BY DEF Get, table
  <1>3. Holding(nodes, L, held', heldKey')
    BY <1>1, <1>2, FindIs DEF Kept, Holding
  <1>4. Kept(L)'
    BY <1>1, <1>2, <1>3 DEF Kept
  <1>5. QED BY <1>2, <1>4 DEF IInv, Loads, Powers

LEMMA FreeSound ==
    ASSUME IInv, state = "live", Free
    PROVE  IInv'
  <1>1. PICK L : Kept(L)
    BY DEF IInv
  <1>2. /\ nodes' = Restrict(nodes, Leaked) /\ state' = "freed" /\ itr' = NoItr
        /\ UNCHANGED <<capcity, load_factor, threshold, size, shifts>>
    BY DEF Free, DropIterator
  <1>3. DOMAIN nodes' = L
    BY <1>1, <1>2, StoredIs DEF Kept, Restrict
  <1>4. Cardinality(DOMAIN nodes') = shifts
    BY <1>1, <1>3 DEF Kept
  <1>5. QED BY <1>2, <1>4 DEF IInv, Loads, Powers

LEMMA NextSound == IInv /\ [Next]_vars => IInv'
  <1> SUFFICES ASSUME IInv, [Next]_vars PROVE IInv'
    OBVIOUS
  <1>1. CASE UNCHANGED vars
    BY <1>1 DEF vars, table, client, IInv, Kept, Loads, Powers
  <1>2. CASE Next /\ state = "live"
    <2>1. ASSUME NEW k \in Key, NEW v \in Value, Insert(k, v) \/ InsertExpand(k, v)
          PROVE  IInv'
      BY <1>2, <2>1, InsertSound, InsertExpandSound
    <2>2. CASE InsertRefused
      BY <1>1, <2>2 DEF InsertRefused
    <2>3. CASE InsertBreaks
      BY <2>3 DEF InsertBreaks, table, DropIterator, IInv, Loads, Powers
    <2>4. ASSUME NEW l \in LoadFactors, SetLoadFactor(l) PROVE IInv'
      <3>1. l \in Int /\ ~(l > 0)
        BY <2>4, HashMapAssumption DEF SetLoadFactor
      <3>2. /\ load_factor' = l
            /\ UNCHANGED <<nodes, capcity, size, state, held, heldKey, itr,
                           promised, seen, shifts>>
        BY <2>4 DEF SetLoadFactor, client
      <3>3. QED BY <3>1, <3>2 DEF IInv, Kept, Loads, Powers
    <2>5. ASSUME NEW k \in Key, Get(k) \/ RemoveKey(k) PROVE IInv'
      BY <1>2, <2>5, GetSound, RemoveSound
    <2>6. CASE Iterate
      BY <1>2, <2>6, IterateSound
    <2>7. CASE IteratorNext
      BY <1>2, <2>7, IteratorNextSound
    <2>8. CASE IteratorEnd
      BY <2>8 DEF IteratorEnd, DropIterator, table, IInv, Kept, Loads, Powers, Iterating
    <2>9. CASE Free
      BY <1>2, <2>9, FreeSound
    <2>10. CASE Over
      BY <1>1, <2>10 DEF Over
    <2>11. QED
      BY <1>2, <2>1, <2>2, <2>3, <2>4, <2>5, <2>6, <2>7, <2>8, <2>9, <2>10 DEF Next
  <1>3. CASE Next /\ state # "live"
    BY <1>1, <1>3 DEF Next, Over
  <1>4. QED BY <1>1, <1>2, <1>3

LEMMA MapSound == Spec => []IInv
  <1>1. Init => IInv
    BY InitSound
  <1>2. IInv /\ [Next]_vars => IInv'
    BY NextSound
  <1>3. QED BY <1>1, <1>2, PTL DEF Spec

\* The map is well formed as long as it is in use: its links agree, searches
\* find every key, size is the number of nodes, its capacity a power of two,
\* and no node is lost but by hashmap_remove (hashmap_insert, expand_map,
\* hashmap_remove, hashmap_free), for any hashes, keys and capacities.
THEOREM StaysWellFormed == Spec => []MapWellFormed
  <1>1. IInv => MapWellFormed
    <2> SUFFICES ASSUME IInv PROVE MapWellFormed
      OBVIOUS
    <2>1. ASSUME state = "live"
          PROVE  /\ \E i \in 0..capcity : capcity = PowerOfTwo[i]
                 /\ LinksAgree /\ KeysFindable /\ SizeCounts
                 /\ Cardinality(Leaked) = shifts
      <3>1. PICK L : Kept(L)
        BY <2>1 DEF IInv
      <3>2. Table(nodes, capcity, L)
        BY <3>1 DEF Kept
      <3>3. Stored = InUse(nodes, L) /\ Leaked = L
        BY <3>2, StoredIs
      <3>4. LinksAgree
        <4>1. ASSUME NEW p \in Stored, nodes[p].next # Null
              PROVE  /\ nodes[p].next \in DOMAIN nodes \ Buckets
                     /\ nodes[nodes[p].next].prev = p
                     /\ nodes[nodes[p].next].is_inuse
          <5>1. p \in DOMAIN nodes \ L
            BY <3>3 DEF InUse
          <5>2. nodes[p].next \in Followers(nodes, capcity, L) /\ nodes[nodes[p].next].prev = p
            BY <3>2, <4>1, <5>1 DEF Table, Links
          <5>3. nodes[nodes[p].next].is_inuse
            BY <3>2, <5>2 DEF Table, Links
          <5>4. QED BY <5>2, <5>3 DEF Followers, Buckets
        <4>2. \A i \in Buckets : ~nodes[i].is_inuse => nodes[i].next = Null
          BY <3>2 DEF Table, Links, Buckets
        <4>3. QED BY <4>1, <4>2 DEF LinksAgree
      <3>5. KeysFindable
        <4>1. \A p \in InUse(nodes, L) : nodes[p].key \in Key
          BY <3>2 DEF Table, Homes
        <4>2. QED BY <3>2, <3>3, <4>1, FindIs DEF KeysFindable
      <3>6. SizeCounts
        BY <3>1, <3>3 DEF Kept, SizeCounts, IInv, Loads
      <3>7. QED BY <3>1, <3>3, <3>4, <3>5, <3>6 DEF Kept, IInv, Powers
    <2>2. QED BY <2>1 DEF MapWellFormed, IInv
  <1>2. QED BY <1>1, MapSound, PTL

\* A pointer of the caller's is to a node that is allocated, in use or not.
Pointing == held # Null => held \in DOMAIN nodes /\ nodes[held].key = heldKey

LEMMA KeptPointing ==
    ASSUME NEW t, NEW c, NEW L, NEW h, NEW k, Holding(t, L, h, k), h # Null
    PROVE  h \in DOMAIN t /\ t[h].key = k
  BY DEF Holding, InUse

LEMMA PointingStep ==
    ASSUME IInv, IInv', Pointing, [Next]_vars
    PROVE  Pointing'
  <1>1. CASE UNCHANGED vars
    BY <1>1 DEF vars, table, client, Pointing
  <1>2. CASE state' = "live"
    <2>1. PICK L : Kept(L)'
      BY <1>2 DEF IInv
    <2>2. QED BY <2>1, KeptPointing DEF Kept, Pointing
  <1>3. CASE held' = Null
    BY <1>3 DEF Pointing
  <1>4. ASSUME NEW k \in Key, RemoveHead(k)
        PROVE  Pointing'
    <2> DEFINE i == Index(k)
               s == nodes[i].next
               third == nodes[s].next
    <2>1. /\ nodes' = Freed(Shifted(nodes, i), third)
          /\ \/ held' = Null
             \/ held \notin {i, s, third} /\ held' = held /\ heldKey' = heldKey
      BY <1>4 DEF RemoveHead, Removed, Behind, DropPointer
    <2> HIDE DEF i, third
    <2>2. ASSUME held' # Null
          PROVE  held' \in DOMAIN nodes' /\ nodes'[held'].key = heldKey'
      <3>1. held \in DOMAIN nodes /\ nodes[held].key = heldKey
        BY <2>1, <2>2 DEF Pointing
      <3>2. /\ held \in DOMAIN Shifted(nodes, i)
            /\ Shifted(nodes, i)[held] = nodes[held]
        BY <2>1, <2>2, <3>1 DEF Shifted
      <3>3. held \in DOMAIN nodes' /\ nodes'[held] = nodes[held]
        BY <2>1, <2>2, <3>2 DEF Freed, Restrict
      <3>4. QED BY <2>1, <2>2, <3>1, <3>3
    <2>3. QED BY <2>2 DEF Pointing
  <1>5. CASE state = "live" /\ state' # "live" /\ Next
    <2>1. ASSUME NEW k \in Key, NEW v \in Value, Insert(k, v) \/ InsertExpand(k, v)
          PROVE  FALSE
      BY <1>5, <2>1 DEF Insert, InsertExpand
    <2>2. ASSUME NEW k \in Key, Get(k) PROVE FALSE
      BY <1>5, <2>2 DEF Get
    <2>3. ASSUME NEW l \in LoadFactors, SetLoadFactor(l) PROVE FALSE
      BY <1>5, <2>3 DEF SetLoadFactor
    <2>4. CASE Iterate \/ IteratorNext \/ IteratorEnd \/ InsertRefused \/ Over
      BY <1>5, <2>4
      DEF Iterate, IteratorNext, IteratorEnd, InsertRefused, Over, vars
    <2>5. CASE InsertBreaks \/ Free
      BY <1>3, <2>5 DEF InsertBreaks, Free, DropPointer
    <2>6. ASSUME NEW k \in Key, RemoveMiss(k) \/ RemoveAlone(k) \/ RemoveSecond(k)
          PROVE  FALSE
      BY <1>5, <2>6 DEF RemoveMiss, RemoveAlone, RemoveSecond, vars
    <2>7. ASSUME NEW k \in Key, RemoveHangs(k) PROVE Pointing'
      BY <1>3, <2>7 DEF RemoveHangs, DropPointer
    <2>8. QED
      BY <1>4, <1>5, <2>1, <2>2, <2>3, <2>4, <2>5, <2>6, <2>7 DEF Next, RemoveKey
  <1>6. CASE state # "live" /\ Next
    BY <1>1, <1>6 DEF Next, Over
  <1>7. QED BY <1>1, <1>2, <1>5, <1>6

\* The pointer hashmap_get returned is to the value of its key through any
\* insertion that does not expand the map and any removal of another key but
\* that of the bucket before it (hashmap_get, hashmap_insert, hashmap_remove).
THEOREM HeldPointersStay == Spec => []HeldIntact
  <1>1. Init => Pointing
    BY DEF Init, Pointing
  <1>2. IInv /\ IInv' /\ Pointing /\ [Next]_vars => Pointing'
    BY PointingStep
  <1>3. IInv /\ Pointing => HeldIntact
    <2> SUFFICES ASSUME IInv, Pointing, state = "live", held # Null
                 PROVE  held \in Stored
      BY DEF HeldIntact, Pointing
    <2>1. PICK L : Kept(L)
      BY DEF IInv
    <2>2. QED BY <2>1, StoredIs DEF Kept, Holding
  <1>4. QED BY <1>1, <1>2, <1>3, MapSound, PTL DEF Spec

\* An iteration returns no key twice and all the keys it began with, whatever
\* is inserted meanwhile (hashmap_iterator, hashmap_next, next_valid_bucket).
THEOREM IterationsExact == Spec => []IterationExact
  <1>1. IInv => IterationExact
    <2> SUFFICES ASSUME IInv, itr # NoItr
                 PROVE  /\ IsInjective(seen)
                        /\ itr.next_node = Null => promised \subseteq ToSet(seen)
                        /\ itr.next_node # Null => itr.next_node \in Stored
      BY DEF IterationExact
    <2>1. PICK L : Kept(L)
      BY DEF IInv
    <2>2. Table(nodes, capcity, L) /\ Stored = InUse(nodes, L)
      BY <2>1, StoredIs DEF Kept
    <2>3. /\ At(nodes, capcity, L, itr) /\ IsInjective(seen)
          /\ \A x \in promised :
                \/ \E i \in DOMAIN seen : seen[i] = x
                \/ \E p \in Remaining(nodes, capcity, L, itr) : nodes[p].key = x
      BY <2>1 DEF Kept, Iterating
    <2>4. itr.next_node = Null => promised \subseteq ToSet(seen)
      BY <2>3 DEF Remaining, ToSet
    <2>5. QED BY <2>2, <2>3, <2>4 DEF At
  <1>2. QED BY <1>1, MapSound, PTL

-----------------------------------------------------------------------------
(* The dictionary.                                                          *)

\* The keys of a table with their values.
Entries(t, L) ==
    [k \in {t[p].key : p \in InUse(t, L)} |->
        t[CHOOSE p \in InUse(t, L) : t[p].key = k].value]

IsEntries(t, L, e) ==
    /\ DOMAIN e = {t[p].key : p \in InUse(t, L)}
    /\ \A p \in InUse(t, L) : e[t[p].key] = t[p].value
    /\ e = [k \in DOMAIN e |-> e[k]]

LEMMA EntriesIs ==
    ASSUME NEW t, NEW c, NEW L, Table(t, c, L)
    PROVE  IsEntries(t, L, Entries(t, L))
  <1>1. DOMAIN Entries(t, L) = {t[p].key : p \in InUse(t, L)}
    BY DEF Entries
  <1>2. ASSUME NEW p \in InUse(t, L)
        PROVE  Entries(t, L)[t[p].key] = t[p].value
    <2> DEFINE k == t[p].key
               q == CHOOSE q \in InUse(t, L) : t[q].key = k
    <2>1. q \in InUse(t, L) /\ t[q].key = k
      OBVIOUS
    <2>2. Entries(t, L)[k] = t[q].value
      BY DEF Entries
    <2> HIDE DEF q
    <2>3. q = p
      BY <2>1 DEF Table, Homes
    <2>4. QED BY <2>2, <2>3
  <1>3. Entries(t, L) = [k \in DOMAIN Entries(t, L) |-> Entries(t, L)[k]]
    BY DEF Entries
  <1>4. QED BY <1>1, <1>2, <1>3 DEF IsEntries

\* Contents of a live map.
LEMMA ContentsIs ==
    ASSUME NEW t, NEW c, NEW L, Table(t, c, L), NEW S,
           S = {t[p].key : p \in UNION {Chain(t, i) : i \in 0..c - 1}}
    PROVE  [k \in S |-> t[Find(t, c, k)].value] = Entries(t, L)
  <1> DEFINE e == Entries(t, L)
  <1>1. IsEntries(t, L, e)
    BY EntriesIs
  <1> HIDE DEF e
  <1>2. S = {t[p].key : p \in InUse(t, L)}
    BY TableFacts
  <1>3. S = DOMAIN e /\ e = [k \in DOMAIN e |-> e[k]]
    BY <1>1, <1>2 DEF IsEntries
  <1>4. ASSUME NEW k \in S
        PROVE  t[Find(t, c, k)].value = e[k]
    <2>1. PICK p \in InUse(t, L) : t[p].key = k
      BY <1>2
    <2>2. k \in Key
      BY <2>1 DEF Table, Homes
    <2>3. Find(t, c, k) = p
      BY <2>1, <2>2, FindIs
    <2>4. QED BY <1>1, <2>1, <2>3 DEF IsEntries
  <1>5. [k \in S |-> t[Find(t, c, k)].value] = e
    BY <1>3, <1>4
  <1>6. QED BY <1>5 DEF e

\* Two functions are equal where their domains and values are.
LEMMA EntriesEqual ==
    ASSUME NEW t, NEW c, NEW L, Table(t, c, L), NEW f,
           f = [k \in DOMAIN f |-> f[k]],
           \A k \in DOMAIN f : \E p \in InUse(t, L) : t[p].key = k /\ t[p].value = f[k],
           \A p \in InUse(t, L) : t[p].key \in DOMAIN f
    PROVE  Entries(t, L) = f
  <1> DEFINE e == Entries(t, L)
  <1>1. IsEntries(t, L, e)
    BY EntriesIs
  <1> HIDE DEF e
  <1>2. DOMAIN e = DOMAIN f
    <2>1. \A k \in DOMAIN e : k \in DOMAIN f
      BY <1>1 DEF IsEntries
    <2>2. \A k \in DOMAIN f : k \in DOMAIN e
      BY <1>1 DEF IsEntries
    <2>3. QED BY <2>1, <2>2
  <1>3. \A k \in DOMAIN f : e[k] = f[k]
    BY <1>1 DEF IsEntries
  <1>4. e = f
    BY <1>1, <1>2, <1>3 DEF IsEntries
  <1>5. QED BY <1>4 DEF e

Updated(e, g, k, v) ==
    g = [j \in DOMAIN e \cup {k} |-> IF j = k THEN v ELSE e[j]]

LEMMA PutsEntries ==
    ASSUME NEW t, NEW c, NEW L, Table(t, c, L), NEW u, NEW d, Table(u, d, L),
           NEW k, NEW v, Puts(t, u, L, k, v)
    PROVE  Updated(Entries(t, L), Entries(u, L), k, v)
  <1> DEFINE e == Entries(t, L)
             f == [j \in DOMAIN e \cup {k} |-> IF j = k THEN v ELSE e[j]]
  <1>1. IsEntries(t, L, e)
    BY EntriesIs
  <1> HIDE DEF e
  <1>2. /\ DOMAIN e = {t[p].key : p \in InUse(t, L)}
        /\ \A p \in InUse(t, L) : e[t[p].key] = t[p].value
    BY <1>1 DEF IsEntries
  <1>3. f = [j \in DOMAIN f |-> f[j]] /\ DOMAIN f = DOMAIN e \cup {k}
    OBVIOUS
  <1>4. ASSUME NEW j \in DOMAIN f
        PROVE  \E p \in InUse(u, L) : u[p].key = j /\ u[p].value = f[j]
    <2>1. CASE j = k
      BY <2>1 DEF Puts
    <2>2. CASE j # k
      <3>1. PICK p \in InUse(t, L) : t[p].key = j
        BY <1>2, <2>2
      <3>2. p \in InUse(u, L) /\ u[p].key = j /\ u[p].value = t[p].value
        BY <2>2, <3>1 DEF Puts
      <3>3. f[j] = t[p].value
        BY <1>2, <2>2, <3>1
      <3>4. QED BY <3>2, <3>3
    <2>3. QED BY <2>1, <2>2
  <1>5. \A p \in InUse(u, L) : u[p].key \in DOMAIN f
    BY <1>2 DEF Puts
  <1> HIDE DEF f
  <1>6. Entries(u, L) = f
    BY <1>3, <1>4, <1>5, EntriesEqual
  <1>7. QED BY <1>6 DEF e, f, Updated

LEMMA SameIsEntries ==
    ASSUME NEW t, NEW c, NEW L, Table(t, c, L), NEW u, NEW d, Table(u, d, L),
           SameEntries(t, u, L)
    PROVE  Entries(u, L) = Entries(t, L)
  <1> DEFINE e == Entries(t, L)
  <1>1. IsEntries(t, L, e)
    BY EntriesIs
  <1> HIDE DEF e
  <1>2. /\ DOMAIN e = {t[p].key : p \in InUse(t, L)}
        /\ \A p \in InUse(t, L) : e[t[p].key] = t[p].value
    BY <1>1 DEF IsEntries
  <1>3. e = [j \in DOMAIN e |-> e[j]]
    BY <1>1 DEF IsEntries
  <1>4. ASSUME NEW j \in DOMAIN e
        PROVE  \E p \in InUse(u, L) : u[p].key = j /\ u[p].value = e[j]
    <2>1. PICK q \in InUse(t, L) : t[q].key = j
      BY <1>2
    <2>2. PICK p \in InUse(u, L) : Same(t, q, u, p)
      BY DEF SameEntries
    <2>3. QED BY <1>2, <2>1, <2>2 DEF Same
  <1>5. ASSUME NEW p \in InUse(u, L) PROVE u[p].key \in DOMAIN e
    BY <1>2 DEF SameEntries, Same
  <1>6. Entries(u, L) = e
    BY <1>3, <1>4, <1>5, EntriesEqual
  <1>7. QED BY <1>6 DEF e

LEMMA DropsEntries ==
    ASSUME NEW t, NEW c, NEW L, Table(t, c, L), NEW u, NEW M, Table(u, c, M),
           NEW k, Drops(t, L, u, M, k)
    PROVE  Entries(u, M) = Restrict(Entries(t, L), DOMAIN Entries(t, L) \ {k})
  <1> DEFINE e == Entries(t, L)
             f == [j \in DOMAIN e \ {k} |-> e[j]]
  <1>1. IsEntries(t, L, e)
    BY EntriesIs
  <1> HIDE DEF e
  <1>2. /\ DOMAIN e = {t[p].key : p \in InUse(t, L)}
        /\ \A p \in InUse(t, L) : e[t[p].key] = t[p].value
    BY <1>1 DEF IsEntries
  <1>3. f = [j \in DOMAIN f |-> f[j]] /\ DOMAIN f = DOMAIN e \ {k}
    OBVIOUS
  <1>4. ASSUME NEW j \in DOMAIN f
        PROVE  \E p \in InUse(u, M) : u[p].key = j /\ u[p].value = f[j]
    <2>1. PICK q \in InUse(t, L) : t[q].key = j
      BY <1>2
    <2>2. PICK p \in InUse(u, M) : Same(t, q, u, p)
      BY <2>1 DEF Drops
    <2>3. QED BY <1>2, <2>1, <2>2 DEF Same
  <1>5. ASSUME NEW p \in InUse(u, M) PROVE u[p].key \in DOMAIN f
    <2>1. PICK q \in InUse(t, L) : t[q].key # k /\ Same(t, q, u, p)
      BY DEF Drops
    <2>2. QED BY <1>2, <2>1 DEF Same
  <1> HIDE DEF f
  <1>6. Entries(u, M) = f
    BY <1>3, <1>4, <1>5, EntriesEqual
  <1>7. QED BY <1>6 DEF e, f, Restrict

LEMMA ContentsLive ==
    ASSUME NEW L, Table(nodes, capcity, L), state = "live"
    PROVE  Contents = Entries(nodes, L)
  <1>1. KeysIn = {nodes[p].key : p \in UNION {Chain(nodes, i) : i \in 0..capcity - 1}}
    BY DEF KeysIn, Stored, Buckets
  <1>2. QED BY <1>1, ContentsIs DEF Contents

LEMMA ContentsLiveNext ==
    ASSUME NEW L, Table(nodes', capcity', L), state' = "live"
    PROVE  Contents' = Entries(nodes', L)
  <1>1. KeysIn' = {nodes'[p].key : p \in UNION {Chain(nodes', i) : i \in 0..capcity' - 1}}
    BY DEF KeysIn, Stored, Buckets
  <1>2. [k \in KeysIn' |-> nodes'[Find(nodes', capcity', k)].value] = Entries(nodes', L)
    BY <1>1, ContentsIs
  <1>3. QED BY <1>2 DEF Contents

LEMMA StepImplements ==
    IInv /\ [Next]_vars => [Abstract!Next]_(Abstract!vars)
  <1> SUFFICES ASSUME IInv, [Next]_vars
               PROVE  [Abstract!Next]_(Abstract!vars)
    OBVIOUS
  <1> DEFINE open == state = "live"
  <1>1. CASE UNCHANGED vars
    <2>1. /\ nodes' = nodes /\ capcity' = capcity /\ state' = state
      BY <1>1 DEF vars, table
    <2>2. Contents' = Contents
      BY <2>1 DEF Contents, KeysIn, Stored, Buckets
    <2>3. QED BY <2>1, <2>2 DEF Abstract!vars
  <1>2. CASE state # "live"
    BY <1>1, <1>2 DEF Next, Over
  <1>3. CASE Next /\ state = "live"
    <2>1. PICK L : Kept(L)
      BY <1>3 DEF IInv
    <2>2. Table(nodes, capcity, L) /\ Contents = Entries(nodes, L)
      BY <1>3, <2>1, ContentsLive DEF Kept
    <2>3. ASSUME nodes' = nodes, capcity' = capcity, state' = state
          PROVE  [Abstract!Next]_(Abstract!vars)
      <3>1. Contents' = Contents
        BY <2>3 DEF Contents, KeysIn, Stored, Buckets
      <3>2. QED BY <2>3, <3>1 DEF Abstract!vars
    <2>4. ASSUME state' # "live" PROVE Abstract!Next
      <3>1. Contents' = [k \in {} |-> Zeros]
        BY <2>4 DEF Contents
      <3>2. Contents' = Abstract!Empty
        BY <3>1 DEF Abstract!Empty
      <3>3. QED BY <1>3, <2>4, <3>2 DEF Abstract!Next, Abstract!Close
    <2>5. ASSUME NEW k \in Key, NEW v \in Value, state' = "live",
                 Table(nodes', capcity', L),
                 Updated(Entries(nodes, L), Entries(nodes', L), k, v)
          PROVE  Abstract!Next
      <3>1. Contents' = Entries(nodes', L)
        BY <2>5, ContentsLiveNext
      <3>2. Abstract!Put(k, v)
        BY <1>3, <2>2, <2>5, <3>1 DEF Abstract!Put, Updated
      <3>3. QED BY <3>2 DEF Abstract!Next
    <2>6. ASSUME NEW k \in Key, NEW v \in Value, Insert(k, v) PROVE Abstract!Next
      <3>1. PutIs(nodes, capcity, k, v, nodes', size, size')
        BY <2>6 DEF Insert, Put, PutIs
      <3>2. capcity' = capcity /\ state' = "live"
        BY <1>3, <2>6 DEF Insert
      <3>3. Table(nodes', capcity, L) /\ Puts(nodes, nodes', L, k, v)
        BY <2>1, <3>1, PutKeeps DEF Kept
      <3>4. QED BY <2>2, <2>5, <3>2, <3>3, PutsEntries
    <2>7. ASSUME NEW k \in Key, NEW v \in Value, InsertExpand(k, v) PROVE Abstract!Next
      <3> DEFINE t == Expanded
                 c == 2 * capcity
      <3>1. PutIs(t, c, k, v, nodes', size, size')
        BY <2>7 DEF InsertExpand, Put, PutIs
      <3>2. capcity' = c /\ state' = "live" /\ c <= MaxCapcity
        BY <1>3, <2>7 DEF InsertExpand
      <3>3. /\ Table(t, c, L) /\ SameEntries(nodes, t, L)
            /\ size = Cardinality(InUse(t, L))
        BY <2>1, <3>2, ExpandedIs DEF Kept
      <3> HIDE DEF t, c
      <3>4. Table(nodes', c, L) /\ Puts(t, nodes', L, k, v)
        BY <3>1, <3>3, PutKeeps
      <3>5. Entries(t, L) = Entries(nodes, L)
        BY <2>2, <3>3, SameIsEntries
      <3>6. Updated(Entries(t, L), Entries(nodes', L), k, v)
        BY <3>3, <3>4, PutsEntries
      <3>7. QED BY <2>5, <3>2, <3>4, <3>5, <3>6
    <2>8. ASSUME NEW k \in Key, RemoveKey(k)
          PROVE  [Abstract!Next]_(Abstract!vars)
      <3>1. ASSUME NEW M, NEW ps, TakenOut(L, k, M, ps) PROVE Abstract!Next
        <4>1. /\ state' = "live" /\ capcity' = capcity /\ Table(nodes', capcity, M)
              /\ Drops(nodes, L, nodes', M, k)
          BY <3>1 DEF TakenOut, Removed
        <4>2. Contents' = Entries(nodes', M)
          BY <4>1, ContentsLiveNext
        <4>3. Entries(nodes', M) =
                 Restrict(Entries(nodes, L), DOMAIN Entries(nodes, L) \ {k})
          BY <2>2, <4>1, DropsEntries
        <4>4. Abstract!Drop(k)
          BY <1>3, <2>2, <4>1, <4>2, <4>3 DEF Abstract!Drop, Abstract!Restrict, Restrict
        <4>5. QED BY <4>4 DEF Abstract!Next
      <3>2. QED BY <1>1, <1>3, <2>1, <2>4, <2>8, <3>1, RemoveIs
    <2>9. CASE InsertRefused
      BY <1>1, <2>9 DEF InsertRefused
    <2>10. CASE InsertBreaks
      BY <2>4, <2>10 DEF InsertBreaks
    <2>11. ASSUME NEW l \in LoadFactors, SetLoadFactor(l)
           PROVE  [Abstract!Next]_(Abstract!vars)
      BY <2>3, <2>11 DEF SetLoadFactor
    <2>12. ASSUME NEW k \in Key, Get(k) PROVE [Abstract!Next]_(Abstract!vars)
      BY <2>3, <2>12 DEF Get, table
    <2>13. CASE Iterate \/ IteratorNext \/ IteratorEnd
      BY <2>3, <2>13 DEF Iterate, IteratorNext, IteratorEnd, table
    <2>14. CASE Free
      BY <2>4, <2>14 DEF Free
    <2>15. CASE Over
      BY <1>3, <2>15 DEF Over
    <2>16. QED
      BY <1>3, <2>6, <2>7, <2>8, <2>9, <2>10, <2>11, <2>12, <2>13, <2>14, <2>15
         DEF Next
  <1>4. QED BY <1>1, <1>2, <1>3

LEMMA InitImplements == Init => Abstract!Init
  <1> SUFFICES ASSUME Init PROVE Abstract!Init
    OBVIOUS
  <1>1. IInv /\ state = "live"
    BY InitSound DEF Init
  <1>2. PICK L : Kept(L)
    BY <1>1 DEF IInv
  <1>3. Table(nodes, capcity, L) /\ Contents = Entries(nodes, L)
    BY <1>1, <1>2, ContentsLive DEF Kept
  <1>4. InUse(nodes, L) = {}
    <2>1. \A p \in DOMAIN nodes : ~nodes[p].is_inuse
      BY DEF Init, Blank
    <2>2. QED BY <2>1 DEF InUse
  <1>5. DOMAIN Contents = {} /\ Contents = [k \in DOMAIN Contents |-> Contents[k]]
    <2>1. IsEntries(nodes, L, Contents)
      BY <1>3, EntriesIs
    <2>2. QED BY <1>4, <2>1 DEF IsEntries
  <1>6. Contents = Abstract!Empty
    BY <1>5 DEF Abstract!Empty
  <1>7. QED BY <1>1, <1>6 DEF Abstract!Init

\* The map is a dictionary: an insertion sets the value of its key and of no
\* other, with or without an expansion, a removal takes its key and no other,
\* and nothing else changes what the map holds (hashmap_insert, expand_map,
\* rehash, hashmap_remove, hashmap_get).
THEOREM MapIsDictionary == Spec => ImplementsDictionary
  <1>1. Init => Abstract!Init
    BY InitImplements
  <1>2. IInv /\ [Next]_vars => [Abstract!Next]_(Abstract!vars)
    BY StepImplements
  <1>3. QED BY <1>1, <1>2, MapSound, PTL DEF Spec, ImplementsDictionary, Abstract!Spec

-----------------------------------------------------------------------------
(* The set.                                                                 *)

\* Every behaviour of the set is one of its map, so that the theorems above
\* hold for it, too (at_hashset.c calls nothing but the map).
THEOREM SetIsMap == HashsetSpec => Spec
  <1>1. HashsetInit => Init
    BY DEF HashsetInit
  <1>2. [HashsetNext]_setVars => [Next]_vars
    BY DEF HashsetNext, HashsetArray, setVars, vars
  <1>3. QED BY <1>1, <1>2, PTL DEF HashsetSpec, Spec

LEMMA NextIs ==
    ASSUME IsFiniteSet(DOMAIN nodes)
    PROVE  \A n \in 0..Cardinality(DOMAIN nodes) : hashmap_next[n] =
              IF n = 0 THEN NextBucket(0)
              ELSE IF hashmap_next[n - 1].next_node = Null THEN hashmap_next[n - 1]
              ELSE After(hashmap_next[n - 1])
  <1> DEFINE N == Cardinality(DOMAIN nodes)
             First == NextBucket(0)
             More(it) == IF it.next_node = Null THEN it ELSE After(it)
             Is(f, k) == f = [n \in 0..k |->
                                IF n = 0 THEN First ELSE More(f[n - 1])]
             Defined == {k \in Nat : \E f : Is(f, k)}
  <1>1. N \in Nat
    BY FS_CardinalityType
  <1>2. hashmap_next = CHOOSE f : Is(f, N)
    BY DEF hashmap_next
  <1> HIDE DEF First, More, N
  <1>3. 0 \in Defined
    <2> DEFINE f == [n \in 0..0 |-> First]
    <2>1. Is(f, 0)
      OBVIOUS
    <2>2. QED BY <2>1
  <1>4. ASSUME NEW k \in Defined PROVE k + 1 \in Defined
    <2>1. PICK f : Is(f, k)
      OBVIOUS
    <2> DEFINE g == [n \in 0..k + 1 |-> IF n = 0 THEN First ELSE More(f[n - 1])]
    <2>2. \A n \in 0..k : g[n] = f[n]
      BY <2>1
    <2>3. \A n \in 0..k + 1 : n # 0 => n - 1 \in 0..k
      OBVIOUS
    <2>4. Is(g, k + 1)
      BY <2>2, <2>3
    <2>5. k + 1 \in Nat
      OBVIOUS
    <2>6. QED BY <2>4, <2>5
  <1>5. Defined = Nat
    <2>1. Defined \in SUBSET Nat
      OBVIOUS
    <2> HIDE DEF Defined
    <2>2. QED BY <1>3, <1>4, <2>1, SetInduction
  <1>6. PICK f : Is(f, N)
    BY <1>1, <1>5
  <1>7. Is(hashmap_next, N)
    <2> HIDE DEF Is
    <2>1. QED BY <1>2, <1>6
  <1>8. \A n \in 0..N : hashmap_next[n] =
           IF n = 0 THEN First ELSE More(hashmap_next[n - 1])
    BY <1>7
  <1>9. QED BY <1>8 DEF First, More, N

\* The nodes the first n calls of hashmap_next came to are n different ones, and
\* those the iterator is past.
Came(L, n) ==
    LET Q == InUse(nodes, L) \ Remaining(nodes, capcity, L, hashmap_next[n])
    IN /\ At(nodes, capcity, L, hashmap_next[n])
       /\ (\A j \in 0..n - 1 : hashmap_next[j].next_node # Null) =>
          Q = {hashmap_next[j].next_node : j \in 0..n - 1} /\ Cardinality(Q) = n

LEMMA CameIs ==
    ASSUME NEW L, Table(nodes, capcity, L)
    PROVE  \A n \in 0..Cardinality(DOMAIN nodes) : Came(L, n)
  <1> DEFINE N == Cardinality(DOMAIN nodes)
             S == InUse(nodes, L)
             R(n) == Remaining(nodes, capcity, L, hashmap_next[n])
             Done == {n \in Nat : n <= N => Came(L, n)}
  <1>1. /\ IsFiniteSet(DOMAIN nodes) /\ IsFiniteSet(S) /\ N \in Nat
        /\ capcity \in Nat
    <2>1. IsFiniteSet(DOMAIN nodes) /\ S \subseteq DOMAIN nodes /\ capcity \in Nat
      BY DEF Table, Places, InUse
    <2>2. QED BY <2>1, FS_Subset, FS_CardinalityType
  <1>2. 0 \in Done
    <2>1. hashmap_next[0] = NextBucket(0)
      BY <1>1, NextIs
    <2>2. /\ At(nodes, capcity, L, NextBucket(0))
          /\ Remaining(nodes, capcity, L, NextBucket(0)) =
                {p \in S : Home(nodes, capcity, p) >= 0}
      BY NextBucketIs
    <2>3. \A p \in S : Home(nodes, capcity, p) >= 0
      BY <1>1, TableFacts
    <2>4. S \ R(0) = {} /\ Cardinality({}) = 0
      BY <2>1, <2>2, <2>3, FS_EmptySet
    <2>5. {hashmap_next[j].next_node : j \in 0..0 - 1} = {}
      OBVIOUS
    <2>6. QED BY <2>1, <2>2, <2>4, <2>5 DEF Came
  <1>3. ASSUME NEW n \in Done PROVE n + 1 \in Done
    <2> SUFFICES ASSUME n + 1 <= N PROVE Came(L, n + 1)
      OBVIOUS
    <2> DEFINE it == hashmap_next[n]
               p == it.next_node
               k == n + 1
    <2>1. k \in 0..N /\ k # 0 /\ k - 1 = n /\ n <= N
      BY <1>1
    <2>2. Came(L, n)
      BY <2>1
    <2>3. hashmap_next[k] = IF p = Null THEN it ELSE After(it)
      BY <1>1, <2>1, NextIs
    <2>4. At(nodes, capcity, L, it)
      BY <2>2 DEF Came
    <2>5. CASE p = Null
      <3>1. n \in 0..k - 1
        BY <2>1
      <3> HIDE DEF k
      <3>2. Came(L, k)
        BY <2>3, <2>4, <2>5, <3>1 DEF Came
      <3>3. QED BY <3>2 DEF k
    <2>6. CASE p # Null
      <3>1. /\ At(nodes, capcity, L, hashmap_next[k]) /\ R(k) = R(n) \ {p}
        BY <2>3, <2>4, <2>6, AfterIs
      <3>2. p \in R(n) /\ R(n) \subseteq S
        BY <2>4, <2>6, RemainingInUse
      <3>3. S \ R(k) = (S \ R(n)) \cup {p} /\ p \notin S \ R(n)
        BY <3>1, <3>2
      <3>4. ASSUME \A j \in 0..k - 1 : hashmap_next[j].next_node # Null
            PROVE  /\ S \ R(k) = {hashmap_next[j].next_node : j \in 0..k - 1}
                   /\ Cardinality(S \ R(k)) = k
        <4>1. \A j \in 0..n - 1 : j \in 0..k - 1
          BY <2>1
        <4>2. /\ S \ R(n) = {hashmap_next[j].next_node : j \in 0..n - 1}
              /\ Cardinality(S \ R(n)) = n
          BY <2>2, <3>4, <4>1 DEF Came
        <4>3. IsFiniteSet(S \ R(n))
          BY <1>1, FS_Subset
        <4>4. Cardinality(S \ R(k)) = k
          BY <3>3, <4>2, <4>3, FS_AddElement
        <4>5. 0..k - 1 = 0..n - 1 \cup {n}
          BY <2>1
        <4>6. {hashmap_next[j].next_node : j \in 0..n - 1 \cup {n}} =
                 {hashmap_next[j].next_node : j \in 0..n - 1} \cup {p}
          OBVIOUS
        <4>7. QED BY <3>3, <4>2, <4>4, <4>5, <4>6
      <3> HIDE DEF k
      <3>5. Came(L, k)
        BY <3>1, <3>4 DEF Came
      <3>6. QED BY <3>5 DEF k
    <2>7. QED BY <2>5, <2>6
  <1>4. Done = Nat
    <2>1. Done \in SUBSET Nat
      OBVIOUS
    <2> HIDE DEF Done
    <2>2. QED BY <1>2, <1>3, <2>1, SetInduction
  <1>5. QED BY <1>1, <1>4

\* hashset_array comes to every member once.
LEMMA VisitedIs ==
    ASSUME NEW L, Table(nodes, capcity, L)
    PROVE  /\ Visited \in Seq(InUse(nodes, L))
           /\ Len(Visited) = Cardinality(InUse(nodes, L))
           /\ \A p \in InUse(nodes, L) : \E i \in DOMAIN Visited : Visited[i] = p
  <1> DEFINE N == Cardinality(DOMAIN nodes)
             S == InUse(nodes, L)
             ended == {n \in 0..N : hashmap_next[n].next_node = Null}
             m == Min(ended)
             at(n) == hashmap_next[n].next_node
             R(n) == Remaining(nodes, capcity, L, hashmap_next[n])
  <1>1. /\ IsFiniteSet(DOMAIN nodes) /\ IsFiniteSet(S) /\ N \in Nat
        /\ Cardinality(S) <= N /\ Cardinality(S) \in Nat
    <2>1. IsFiniteSet(DOMAIN nodes) /\ S \subseteq DOMAIN nodes
      BY DEF Table, Places, InUse
    <2>2. QED BY <2>1, FS_Subset, FS_CardinalityType
  <1>2. \A n \in 0..N : Came(L, n)
    BY CameIs
  <1>3. ended # {}
    <2> SUFFICES ASSUME \A n \in 0..N : at(n) # Null PROVE FALSE
      OBVIOUS
    <2>1. N \in 0..N /\ \A j \in 0..N - 1 : at(j) # Null
      BY <1>1
    <2>2. At(nodes, capcity, L, hashmap_next[N]) /\ Cardinality(S \ R(N)) = N
      BY <1>2, <2>1 DEF Came
    <2>3. at(N) \in R(N) /\ R(N) \subseteq S
      BY <2>1, <2>2, RemainingInUse
    <2>4. S \ R(N) \subseteq S /\ IsFiniteSet(S)
      BY <1>1
    <2>5. Cardinality(S) = Cardinality(S \ R(N))
      <3>1. Cardinality(S \ R(N)) <= Cardinality(S)
        BY <2>4, FS_Subset
      <3>2. QED BY <1>1, <2>2, <3>1
    <2>6. S = S \ R(N)
      BY <2>4, <2>5, FS_Subset
    <2>7. QED BY <2>3, <2>6
  <1>4. m \in ended /\ \A n \in ended : m <= n
    <2>1. ended \in SUBSET Nat
      OBVIOUS
    <2> HIDE DEF ended
    <2>2. \E n \in ended : \A j \in ended : n <= j
      BY <1>3, <2>1, LeastNumber
    <2>3. QED BY <2>2 DEF Min
  <1>5. m \in 0..N /\ m \in Nat /\ at(m) = Null
    BY <1>4
  <1>6. \A j \in 0..m - 1 : at(j) # Null
    BY <1>1, <1>4, <1>5
  <1> HIDE DEF m
  <1>7. S = {at(j) : j \in 0..m - 1} /\ Cardinality(S) = m
    <2>1. /\ At(nodes, capcity, L, hashmap_next[m])
          /\ S \ R(m) = {at(j) : j \in 0..m - 1} /\ Cardinality(S \ R(m)) = m
      BY <1>2, <1>5, <1>6 DEF Came
    <2>2. R(m) = {}
      BY <1>5, <2>1, RemainingInUse
    <2>3. S \ R(m) = S
      BY <2>2
    <2>4. QED BY <2>1, <2>3
  <1>8. Visited = [n \in 1..m |-> at(n - 1)]
    BY DEF Visited, m
  <1>9. \A n \in 1..m : n - 1 \in 0..m - 1
    BY <1>5
  <1>10. \A n \in 1..m : Visited[n] \in S
    BY <1>7, <1>8, <1>9
  <1>11. Visited \in Seq(S) /\ Len(Visited) = m /\ DOMAIN Visited = 1..m
    <2> HIDE DEF S, at
    <2>1. QED BY <1>5, <1>8, <1>10
  <1>12. ASSUME NEW p \in S PROVE \E i \in DOMAIN Visited : Visited[i] = p
    <2>1. PICK j \in 0..m - 1 : at(j) = p
      BY <1>7
    <2>2. j + 1 \in 1..m /\ (j + 1) - 1 = j
      BY <1>5
    <2>3. Visited[j + 1] = p
      BY <1>8, <2>1, <2>2
    <2>4. QED BY <1>11, <2>2, <2>3
  <1>13. QED BY <1>7, <1>11, <1>12

\* A search comes to a node exactly for the keys of the nodes in use.
LEMMA MembersAre ==
    ASSUME NEW L, Table(nodes, capcity, L)
    PROVE  {k \in Key : hashset_iscontain(k)} = {nodes[p].key : p \in InUse(nodes, L)}
  <1>1. \A p \in InUse(nodes, L) : p # Null /\ nodes[p].key \in Key
    BY HashMapAssumption DEF Table, Places, Homes, InUse, Null
  <1>2. ASSUME NEW k \in Key
        PROVE  hashset_iscontain(k) <=> \E p \in InUse(nodes, L) : nodes[p].key = k
    BY <1>1, FindIs DEF hashset_iscontain
  <1>3. QED BY <1>1, <1>2

\* There are as many keys as nodes in use.
LEMMA KeysCounted ==
    ASSUME NEW t, NEW c, NEW L, Table(t, c, L)
    PROVE  Cardinality({t[p].key : p \in InUse(t, L)}) = Cardinality(InUse(t, L))
  <1> DEFINE S == InUse(t, L)
             K == {t[p].key : p \in S}
             f == [p \in S |-> t[p].key]
  <1>1. IsFiniteSet(S)
    <2>1. IsFiniteSet(DOMAIN t) /\ S \subseteq DOMAIN t
      BY DEF Table, Places, InUse
    <2>2. QED BY <2>1, FS_Subset
  <1>2. \A p, q \in S : t[p].key = t[q].key => p = q
    BY DEF Table, Homes
  <1> HIDE DEF S
  <1>3. f \in Bijection(S, K)
    BY <1>2 DEF Bijection, Injection, Surjection, IsInjective
  <1>4. ExistsBijection(S, K)
    BY <1>3 DEF ExistsBijection
  <1> HIDE DEF K
  <1>5. Cardinality(K) = Cardinality(S)
    BY <1>1, <1>4, FS_Bijection
  <1>6. QED BY <1>5 DEF K, S

\* An array of the nodes stays while the map is in use.
ArrayInv == ArrayExact /\ (array # NoArray => state = "live")

\* hashset_array lists the members.
LEMMA ArraySound ==
    ASSUME IInv, state = "live", HashsetArray
    PROVE  ArrayInv'
  <1>1. PICK L : Kept(L)
    BY DEF IInv
  <1> DEFINE S == InUse(nodes, L)
  <1>2. /\ Table(nodes, capcity, L) /\ size = Cardinality(S) /\ Stored = S
    BY <1>1, StoredIs DEF Kept
  <1>3. nodes' = nodes /\ capcity' = capcity /\ state' = "live"
    BY DEF HashsetArray, vars, table
  <1>4. Stored' = S
    BY <1>2, <1>3 DEF Stored, Buckets
  <1>5. CASE size = 0
    BY <1>3, <1>5 DEF HashsetArray, ArrayInv, ArrayExact
  <1>6. CASE size # 0
    <2>1. /\ array' = Visited /\ room' = size + 1
          /\ listed' = {k \in Key : hashset_iscontain(k)}
      BY <1>6 DEF HashsetArray
    <2>2. /\ Visited \in Seq(S) /\ Len(Visited) = size
          /\ \A p \in S : \E i \in DOMAIN Visited : Visited[i] = p
      BY <1>2, VisitedIs
    <2>3. listed' = {nodes[p].key : p \in S} /\ Cardinality(listed') = size
      BY <1>2, <2>1, MembersAre, KeysCounted
    <2> HIDE DEF S
    <2>4. \A i \in DOMAIN Visited : Visited[i] \in S
      BY <2>2
    <2>5. {nodes[Visited[i]].key : i \in DOMAIN Visited} = {nodes[p].key : p \in S}
      BY <2>2, <2>4
    <2>6. ToSet(Visited) \subseteq S
      BY <2>4 DEF ToSet
    <2>7. ArrayExact'
      BY <1>3, <1>4, <2>1, <2>2, <2>3, <2>5, <2>6 DEF ArrayExact
    <2>8. QED BY <1>3, <2>7 DEF ArrayInv
  <1>7. QED BY <1>5, <1>6

NodesStay ==
    \A p \in Stored : p \in Stored' /\ nodes'[p].key = nodes[p].key

\* A step of the map after which an array is still used leaves its nodes.
LEMMA StayingNodes ==
    ASSUME IInv, IInv', state = "live", Next, PointersStay
    PROVE  NodesStay
  <1>1. PICK L : Kept(L)
    BY DEF IInv
  <1>2. Table(nodes, capcity, L) /\ Stored = InUse(nodes, L)
    BY <1>1, StoredIs DEF Kept
  <1>3. /\ capcity \in Nat \ {0} /\ size \in Nat
        /\ capcity' = capcity /\ size' >= size /\ state' = state
    <2>1. capcity \in Nat \ {0} /\ IsFiniteSet(DOMAIN nodes)
      BY <1>2 DEF Table, Places
    <2>2. size = Cardinality(InUse(nodes, L)) /\ InUse(nodes, L) \subseteq DOMAIN nodes
      BY <1>1 DEF Kept, InUse
    <2>3. QED BY <2>1, <2>2, FS_Subset, FS_CardinalityType DEF PointersStay
  <1>4. CASE nodes' = nodes
    BY <1>3, <1>4 DEF NodesStay, Stored, Buckets
  <1>5. ASSUME NEW k \in Key, NEW v \in Value, Insert(k, v)
        PROVE  NodesStay
    <2>1. PutIs(nodes, capcity, k, v, nodes', size, size')
      BY <1>5 DEF Insert, Put, PutIs
    <2>2. Table(nodes', capcity, L) /\ Puts(nodes, nodes', L, k, v)
      BY <1>1, <1>2, <2>1, PutKeeps DEF Kept
    <2>3. Stored' = InUse(nodes', L)
      BY <1>3, <2>2, TableFacts DEF Stored, Buckets
    <2>4. QED BY <1>2, <2>2, <2>3 DEF Puts, NodesStay
  <1>6. ASSUME NEW k \in Key, NEW v \in Value, InsertExpand(k, v)
        PROVE  FALSE
    BY <1>3, <1>6 DEF InsertExpand
  <1>7. CASE InsertBreaks \/ Free
    BY <1>3, <1>7 DEF InsertBreaks, Free
  <1>8. ASSUME NEW k \in Key, RemoveKey(k)
        PROVE  nodes' = nodes
    <2>1. ASSUME NEW M, NEW ps, TakenOut(L, k, M, ps) PROVE FALSE
      BY <1>3, <2>1 DEF TakenOut, Removed
    <2>2. CASE state' \in {"dangling", "hung"}
      BY <1>3, <2>2
    <2>3. \/ UNCHANGED vars
          \/ \E M, ps : TakenOut(L, k, M, ps)
          \/ state' \in {"dangling", "hung"}
      BY <1>1, <1>8, RemoveIs
    <2>4. CASE UNCHANGED vars
      BY <2>4 DEF vars, table
    <2>5. QED BY <2>1, <2>2, <2>3, <2>4
  <1>9. CASE InsertRefused
    BY <1>4, <1>9 DEF InsertRefused, vars, table
  <1>10. ASSUME NEW l \in LoadFactors, SetLoadFactor(l) PROVE nodes' = nodes
    BY <1>10 DEF SetLoadFactor
  <1>11. ASSUME NEW k \in Key, Get(k) PROVE nodes' = nodes
    BY <1>11 DEF Get, table
  <1>12. CASE Iterate \/ IteratorNext \/ IteratorEnd
    BY <1>4, <1>12 DEF Iterate, IteratorNext, IteratorEnd, table
  <1>13. QED
    BY <1>4, <1>5, <1>6, <1>7, <1>8, <1>9, <1>10, <1>11, <1>12 DEF Next, Over

LEMMA ArrayStep ==
    ASSUME IInv, IInv', ArrayInv, [HashsetNext]_setVars
    PROVE  ArrayInv'
  <1>1. CASE UNCHANGED setVars
    BY <1>1 DEF setVars, vars, table, ArrayInv, ArrayExact, Stored, Buckets
  <1>2. CASE state = "live" /\ HashsetArray
    BY <1>2, ArraySound
  <1>3. CASE array' = NoArray
    BY <1>3 DEF ArrayInv, ArrayExact
  <1>4. CASE Next /\ PointersStay /\ array # NoArray
    <2>1. /\ array' = array /\ room' = room /\ listed' = listed
          /\ state = "live" /\ state' = "live"
      BY <1>4 DEF PointersStay, ArrayInv
    <2>2. /\ Len(array) + 1 = room /\ Len(array) = Cardinality(listed)
          /\ ToSet(array) \subseteq Stored
          /\ {nodes[array[i]].key : i \in DOMAIN array} = listed
      BY <1>4 DEF ArrayInv, ArrayExact
    <2>3. \A p \in Stored : p \in Stored' /\ nodes'[p].key = nodes[p].key
      BY <1>4, <2>1, StayingNodes DEF NodesStay
    <2>4. \A i \in DOMAIN array : array[i] \in Stored
      BY <2>2 DEF ToSet
    <2>5. {nodes'[array[i]].key : i \in DOMAIN array} = listed
      BY <2>2, <2>3, <2>4
    <2>6. ToSet(array) \subseteq Stored'
      BY <2>2, <2>3
    <2>7. QED BY <2>1, <2>2, <2>5, <2>6 DEF ArrayInv, ArrayExact
  <1>5. QED
    BY <1>1, <1>2, <1>3, <1>4 DEF HashsetNext, PointersStay, ArrayDropped

\* The array of a set lists each of its members once, within the memory that
\* was allocated, and shows them through any insertions that do not expand the
\* table (hashset_array, hashmap_next, hashmap_insert).
THEOREM ArraysStay == HashsetSpec => []ArrayExact
  <1>1. HashsetInit => ArrayInv
    BY DEF HashsetInit, ArrayInv, ArrayExact
  <1>2. IInv /\ IInv' /\ ArrayInv /\ [HashsetNext]_setVars => ArrayInv'
    BY ArrayStep
  <1>3. ArrayInv => ArrayExact
    BY DEF ArrayInv
  <1>4. QED BY <1>1, <1>2, <1>3, SetIsMap, MapSound, PTL DEF HashsetSpec
=============================================================================
