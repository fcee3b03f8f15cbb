-------------------------- MODULE XmlParserProofs --------------------------
(***************************************************************************)
(* Proofs about XmlParser for every document, every length of the strings  *)
(* and of the array of handlers, and every registration in between: a      *)
(* parse makes exactly the calls that are due, in document order, and      *)
(* nothing goes wrong within the limits of the code.                       *)
(*                                                                         *)
(* What travel has done is told from where it is: the node and the parents *)
(* on its stack determine the paths it has built and the calls made.  The  *)
(* recursive definitions of the model are unfolded with one theorem on     *)
(* recursion along parents, which rests on the order of the numbers.       *)
(***************************************************************************)
EXTENDS BufferProofs, XmlParser

-----------------------------------------------------------------------------
\* Bytes that are not zero are bytes.
LEMMA NoZeros ==
    ASSUME NEW p \in Seq(Nat \ {0})
    PROVE  p \in Seq(Nat)
  <1>1. Len(p) \in Nat /\ p \in [1..Len(p) -> Nat]
    BY LenProperties
  <1>. QED  BY <1>1, FunctionIsSeq, Zenon

-----------------------------------------------------------------------------
(* Documents.                                                               *)

Final == Len(doc.parent)

\* What the proofs use of a document.
LEMMA DocIs ==
    ASSUME IsDocument(doc)
    PROVE  /\ Final \in Nat /\ Nodes = 1..Final
           /\ doc.parent \in [1..Final -> Nat]
           /\ \A n \in Nodes : doc.parent[n] < n
           /\ \A n \in Nodes : doc.parent[n] = 0 \/ doc.parent[n] \in Nodes
           /\ \A m, n \in Nodes :
                 m < n => doc.parent[n] >= m \/ doc.parent[n] <= doc.parent[m]
           /\ \A n \in Nodes : Name(n) \in Seq(Nat)
           /\ \A n \in Nodes : doc.parent[n] # 0 => IsElement(doc.parent[n])
  <1>1. /\ doc.parent \in Seq(Nat) /\ Final \in Nat /\ Nodes = 1..Final
        /\ doc.parent \in [1..Final -> Nat]
    BY DEF IsDocument, Nodes, Final
  <1>2. /\ \A n \in Nodes : doc.parent[n] < n
        /\ \A m, n \in Nodes :
                 m < n => doc.parent[n] >= m \/ doc.parent[n] <= doc.parent[m]
        /\ \A n \in Nodes : doc.parent[n] # 0 => IsElement(doc.parent[n])
    BY <1>1 DEF IsDocument, IsElement, Name, Final
  <1>3. \A n \in Nodes : doc.parent[n] = 0 \/ doc.parent[n] \in Nodes
    BY <1>1, <1>2
  <1>4. ASSUME NEW n \in Nodes PROVE Name(n) \in Seq(Nat)
    <2>1. Name(n) \in Seq(Nat \ {0})
      BY <1>1 DEF IsDocument, Name, Final
    <2>2. QED BY <2>1, NoZeros
  <1>5. QED BY <1>1, <1>2, <1>3, <1>4

\* The first node behind the subtree of node n, or of the whole document, and
\* the number behind the last if there is none.
Behind(n) == {m \in Nodes : m > n /\ doc.parent[m] < n}
After(n) == IF Behind(n) = {} THEN Final + 1 ELSE Min(Behind(n))

\* After(n) is the first node behind n that is not below it.
LEMMA AfterIs ==
    ASSUME IsDocument(doc), NEW n \in 0..Final
    PROVE  /\ After(n) \in Nat /\ n < After(n) /\ After(n) <= Final + 1
           /\ \A m \in Nodes : n < m /\ m < After(n) => doc.parent[m] >= n
           /\ After(n) <= Final => After(n) \in Nodes /\ doc.parent[After(n)] < n
  <1>1. Final \in Nat /\ Nodes = 1..Final /\ \A m \in Nodes : doc.parent[m] \in Nat
    BY DocIs
  <1>2. CASE Behind(n) = {}
    BY <1>1, <1>2 DEF After, Behind
  <1>3. CASE Behind(n) # {}
    <2>1. Behind(n) \in SUBSET Nat
      BY <1>1 DEF Behind
    <2>2. Min(Behind(n)) \in Behind(n) /\ \A m \in Behind(n) : Min(Behind(n)) <= m
      BY <1>3, <2>1, LeastNumber
    <2>3. After(n) = Min(Behind(n))
      BY <1>3 DEF After
    <2>4. /\ After(n) \in Nodes /\ n < After(n) /\ doc.parent[After(n)] < n
          /\ \A m \in Behind(n) : After(n) <= m
      BY <2>2, <2>3 DEF Behind
    <2>5. ASSUME NEW m \in Nodes, n < m, m < After(n) PROVE doc.parent[m] >= n
      BY <1>1, <2>4, <2>5 DEF Behind
    <2>6. QED BY <1>1, <2>4, <2>5
  <1>4. QED BY <1>2, <1>3

\* First picks the least node, and NULL when there is none.
LEMMA FirstIs ==
    ASSUME NEW S \in SUBSET (Nat \ {0})
    PROVE  /\ First(S) = NULL => S = {}
           /\ First(S) # NULL => First(S) \in S /\ \A m \in S : First(S) <= m
  <1>1. CASE S = {}
    BY <1>1 DEF First
  <1>2. CASE S # {}
    <2>1. Min(S) \in S /\ \A m \in S : Min(S) <= m
      BY <1>2, LeastNumber
    <2>2. QED BY <1>2, <2>1 DEF First, NULL
  <1>3. QED BY <1>1, <1>2

\* Where the traversal goes on below a node, ...
LEMMA FirstChildIs ==
    ASSUME IsDocument(doc), NEW n \in 0..Final
    PROVE  /\ FirstChild(n) = NULL => After(n) = n + 1
           /\ FirstChild(n) # NULL =>
                 /\ FirstChild(n) = n + 1 /\ n + 1 \in Nodes
                 /\ doc.parent[n + 1] = n
  <1> DEFINE S == {m \in Nodes : doc.parent[m] = n}
             c == FirstChild(n)
  <1>1. /\ Final \in Nat /\ Nodes = 1..Final
        /\ \A m \in Nodes : doc.parent[m] \in Nat /\ doc.parent[m] < m
        /\ \A k, m \in Nodes :
              k < m => doc.parent[m] >= k \/ doc.parent[m] <= doc.parent[k]
    BY DocIs
  <1>2. /\ c = NULL => S = {}
        /\ c # NULL => c \in S /\ \A m \in S : c <= m
    BY <1>1, FirstIs, SMTT(30) DEF FirstChild
  <1> HIDE DEF c
  <1>3. CASE c = NULL
    <2>1. /\ After(n) \in Nat /\ n < After(n) /\ After(n) <= Final + 1
          /\ \A m \in Nodes : n < m /\ m < After(n) => doc.parent[m] >= n
      BY AfterIs
    <2>2. ASSUME n + 1 < After(n) PROVE FALSE
      <3>1. n + 1 \in Nodes
        BY <1>1, <2>1, <2>2
      <3>2. doc.parent[n + 1] = n
        BY <1>1, <2>1, <2>2, <3>1
      <3>3. QED BY <1>2, <1>3, <3>1, <3>2
    <2>3. After(n) = n + 1
      BY <2>1, <2>2
    <2>4. QED BY <1>3, <2>3 DEF c
  <1>4. CASE c # NULL
    <2>1. c \in Nodes /\ doc.parent[c] = n /\ n < c
      BY <1>1, <1>2, <1>4
    <2>2. n + 1 \in Nodes
      BY <1>1, <2>1
    <2>3. doc.parent[n + 1] = n
      <3>1. CASE c = n + 1
        BY <2>1, <3>1
      <3>2. CASE c # n + 1
        <4>1. n + 1 < c
          BY <1>1, <2>1, <3>2
        <4>2. doc.parent[c] >= n + 1 \/ doc.parent[c] <= doc.parent[n + 1]
          BY <1>1, <2>1, <2>2, <4>1
        <4>3. doc.parent[n + 1] \in Nat /\ doc.parent[n + 1] < n + 1
          BY <1>1, <2>2
        <4>4. QED BY <2>1, <4>2, <4>3
      <3>3. QED BY <3>1, <3>2
    <2>4. c <= n + 1
      BY <1>2, <1>4, <2>2, <2>3
    <2>5. QED BY <1>1, <1>4, <2>1, <2>2, <2>3, <2>4 DEF c
  <1>5. QED BY <1>3, <1>4

\* ... and when it is done with one.
LEMMA NextSiblingIs ==
    ASSUME IsDocument(doc), NEW n \in Nodes
    PROVE  /\ NextSibling(n) = NULL => After(n) = After(doc.parent[n])
           /\ NextSibling(n) # NULL =>
                 /\ NextSibling(n) = After(n) /\ After(n) \in Nodes
                 /\ doc.parent[After(n)] = doc.parent[n]
  <1> DEFINE S == {m \in Nodes : m > n /\ doc.parent[m] = doc.parent[n]}
             s == NextSibling(n)
             p == doc.parent[n]
             a == After(n)
  <1>1. /\ Final \in Nat /\ Nodes = 1..Final
        /\ \A m \in Nodes : doc.parent[m] \in Nat /\ doc.parent[m] < m
        /\ \A k, m \in Nodes :
              k < m => doc.parent[m] >= k \/ doc.parent[m] <= doc.parent[k]
    BY DocIs
  <1>2. /\ s = NULL => S = {}
        /\ s # NULL => s \in S /\ \A m \in S : s <= m
    BY <1>1, FirstIs, SMTT(30) DEF NextSibling
  <1>3. n \in 0..Final /\ p \in 0..Final /\ p < n
    BY <1>1
  <1>4. /\ a \in Nat /\ n < a /\ a <= Final + 1
        /\ \A m \in Nodes : n < m /\ m < a => doc.parent[m] >= n
        /\ a <= Final => a \in Nodes /\ doc.parent[a] < n
    BY <1>3, AfterIs
  <1>5. /\ After(p) \in Nat /\ p < After(p) /\ After(p) <= Final + 1
        /\ \A m \in Nodes : p < m /\ m < After(p) => doc.parent[m] >= p
        /\ After(p) <= Final => After(p) \in Nodes /\ doc.parent[After(p)] < p
    BY <1>3, AfterIs
  <1> HIDE DEF s, a
  <1>6. CASE s = NULL
    <2>1. After(p) >= a
      <3> SUFFICES ASSUME After(p) < a PROVE FALSE
        BY <1>4, <1>5
      <3>1. After(p) \in Nodes /\ doc.parent[After(p)] < p
        BY <1>1, <1>4, <1>5
      <3>2. CASE After(p) > n
        BY <1>1, <1>3, <1>4, <3>1, <3>2
      <3>3. CASE After(p) = n
        BY <3>1, <3>3, <1>1
      <3>4. CASE After(p) < n
        BY <1>1, <1>3, <1>5, <3>1, <3>4
      <3>5. QED BY <1>1, <3>1, <3>2, <3>3, <3>4
    <2>2. After(p) <= a
      <3> SUFFICES ASSUME a < After(p) PROVE FALSE
        BY <1>4, <1>5
      <3>1. a \in Nodes /\ doc.parent[a] < n /\ p < a /\ n < a
        BY <1>1, <1>3, <1>4, <1>5
      <3>2. doc.parent[a] >= p
        BY <1>1, <1>3, <1>4, <1>5, <3>1
      <3>3. doc.parent[a] <= p
        BY <1>1, <3>1
      <3>4. a \in S
        BY <1>1, <3>1, <3>2, <3>3
      <3>5. QED BY <1>2, <1>6, <3>4
    <2>3. After(p) = a
      BY <1>4, <1>5, <2>1, <2>2
    <2>4. QED BY <1>6, <2>3 DEF s, a
  <1>7. CASE s # NULL
    <2>1. s \in Nodes /\ s > n /\ doc.parent[s] = p /\ \A m \in S : s <= m
      BY <1>2, <1>7
    <2>2. a <= s
      BY <1>1, <1>3, <1>4, <2>1
    <2>3. ASSUME a < s PROVE FALSE
      <3>1. a \in Nodes /\ doc.parent[a] < n
        BY <1>1, <1>4, <2>1, <2>3
      <3>2. doc.parent[a] <= p
        BY <1>1, <1>4, <3>1
      <3>3. doc.parent[s] >= a \/ doc.parent[s] <= doc.parent[a]
        BY <1>1, <2>1, <2>3, <3>1
      <3>4. doc.parent[a] = p
        BY <1>1, <1>3, <1>4, <2>1, <3>1, <3>2, <3>3
      <3>5. a \in S
        BY <1>1, <1>4, <3>1, <3>4
      <3>6. QED BY <1>1, <1>4, <2>1, <2>3, <3>5
    <2>4. s = a
      BY <1>1, <1>4, <2>1, <2>2, <2>3
    <2>5. QED BY <1>7, <2>1, <2>4 DEF s, a
  <1>8. QED BY <1>6, <1>7
\* Ancestors are the parent and the parent's ancestors.
LEMMA AncestorIs ==
    ASSUME IsDocument(doc), NEW m, NEW n \in Nodes
    PROVE  /\ IsAncestor(m, n) \in BOOLEAN
           /\ IsAncestor(m, n) <=>
                 \/ doc.parent[n] = m
                 \/ doc.parent[n] # 0 /\ IsAncestor(m, doc.parent[n])
  <1> DEFINE par == doc.parent
             Is(f) == f = [k \in Nodes |->
                             \/ doc.parent[k] = m
                             \/ doc.parent[k] # 0 /\ f[doc.parent[k]]]
             step == [kt \in (1..Final) \X BOOLEAN |->
                        IF par[kt[1]] = m THEN TRUE ELSE kt[2]]
  <1>1. /\ Final \in Nat /\ Nodes = 1..Final /\ par \in [1..Final -> Nat]
        /\ \A k \in Nodes : par[k] < k
        /\ \A k \in Nodes : par[k] = 0 \/ par[k] \in Nodes
    BY DocIs
  <1> HIDE DEF par
  <1>2. step \in [(1..Final) \X BOOLEAN -> BOOLEAN]
    OBVIOUS
  <1> HIDE DEF step
  <1>3. PICK f \in [1..Final -> BOOLEAN] : \A k \in 1..Final :
           f[k] = step[<<k, IF par[k] = 0 THEN FALSE ELSE f[par[k]]>>]
    <2>1. \A k \in 1..Final : par[k] < k
      BY <1>1
    <2>2. Solvable(Final, par, BOOLEAN, FALSE, step)
      BY <1>1, <1>2, <2>1, Recursion
    <2>3. QED BY <2>2 DEF Solvable, Solution
  <1>4. ASSUME NEW k \in Nodes
        PROVE  f[k] = (par[k] = m \/ (par[k] # 0 /\ f[par[k]]))
    <2> DEFINE t == IF par[k] = 0 THEN FALSE ELSE f[par[k]]
    <2>1. t \in BOOLEAN /\ k \in 1..Final
      BY <1>1, <1>3
    <2>2. f[k] = step[<<k, t>>]
      BY <1>3, <2>1
    <2> HIDE DEF t
    <2>3. step[<<k, t>>] = IF par[k] = m THEN TRUE ELSE t
      BY <2>1 DEF step
    <2>4. f[k] \in BOOLEAN
      BY <1>3, <2>1
    <2>5. QED BY <2>2, <2>3, <2>4 DEF t
  <1>5. Is(f)
    BY <1>1, <1>3, <1>4 DEF par
  <1> DEFINE F == CHOOSE g : Is(g)
  <1>6. Is(F)
    BY <1>5
  <1>7. \A k : IsAncestor(m, k) = F[k]
    BY DEF IsAncestor
  <1> HIDE DEF F
  <1>8. F[n] = (doc.parent[n] = m \/ (doc.parent[n] # 0 /\ F[doc.parent[n]]))
    BY <1>6
  <1>9. QED BY <1>7, <1>8

\* The descendants of a node are the nodes behind it as far as After.
LEMMA DescendantsAre ==
    ASSUME IsDocument(doc), NEW m \in Nodes, NEW n \in Nodes
    PROVE  IsAncestor(m, n) <=> m < n /\ n < After(m)
  <1> DEFINE a == After(m)
             Agree == {k \in Nat : k \in Nodes =>
                         (IsAncestor(m, k) <=> m < k /\ k < a)}
  <1>1. /\ Final \in Nat /\ Nodes = 1..Final
        /\ \A k \in Nodes : doc.parent[k] \in Nat /\ doc.parent[k] < k
        /\ \A k \in Nodes : doc.parent[k] = 0 \/ doc.parent[k] \in Nodes
        /\ \A j, k \in Nodes :
              j < k => doc.parent[k] >= j \/ doc.parent[k] <= doc.parent[j]
    BY DocIs
  <1>2. /\ a \in Nat /\ m < a /\ a <= Final + 1
        /\ \A k \in Nodes : m < k /\ k < a => doc.parent[k] >= m
        /\ a <= Final => a \in Nodes /\ doc.parent[a] < m
    BY <1>1, AfterIs
  <1> HIDE DEF a
  <1>3. ASSUME NEW k \in Nat, \A j \in 0..k - 1 : j \in Agree
        PROVE  k \in Agree
    <2> SUFFICES ASSUME k \in Nodes
                 PROVE  IsAncestor(m, k) <=> m < k /\ k < a
      OBVIOUS
    <2> DEFINE p == doc.parent[k]
    <2>1. IsAncestor(m, k) <=> p = m \/ (p # 0 /\ IsAncestor(m, p))
      BY AncestorIs
    <2>2. p \in Nat /\ p < k /\ (p = 0 \/ p \in Nodes)
      BY <1>1
    <2>3. p # 0 => (IsAncestor(m, p) <=> m < p /\ p < a)
      BY <1>3, <2>2
    <2>4. IsAncestor(m, k) => m < k /\ k < a
      <3> SUFFICES ASSUME p = m \/ (m < p /\ p < a) PROVE m < k /\ k < a
        BY <2>1, <2>3
      <3>1. m < k
        BY <1>1, <2>2
      <3>2. ASSUME k >= a PROVE FALSE
        <4>1. a \in Nodes /\ doc.parent[a] < m
          BY <1>1, <1>2, <3>2
        <4>2. k # a
          BY <1>1, <2>2, <4>1
        <4>3. p >= a \/ p <= doc.parent[a]
          BY <1>1, <1>2, <3>2, <4>1, <4>2
        <4>4. doc.parent[a] \in Nat
          BY <1>1, <4>1
        <4>5. QED BY <1>1, <1>2, <2>2, <4>1, <4>3, <4>4
      <3>3. QED BY <1>2, <3>1, <3>2
    <2>5. ASSUME m < k, k < a PROVE IsAncestor(m, k)
      <3>1. p >= m
        BY <1>2, <2>5
      <3>2. p = m \/ (p # 0 /\ m < p /\ p < a)
        BY <1>1, <1>2, <2>2, <2>5, <3>1
      <3>3. QED BY <2>1, <2>3, <3>2
    <2>6. QED BY <2>4, <2>5
  <1>4. Agree = Nat
    <2>1. Agree \in SUBSET Nat
      OBVIOUS
    <2> HIDE DEF Agree
    <2>2. QED BY <1>3, <2>1, NumbersBelow
  <1>5. n \in Agree
    <2> HIDE DEF Agree
    <2>1. QED BY <1>1, <1>4
  <1>6. QED BY <1>5 DEF a

\* The path of a node is that of its parent, a slash and its name.
LEMMA FullPathIs ==
    ASSUME IsDocument(doc)
    PROVE  /\ \A n \in Nodes : FullPath[n] \in Seq(Nat)
           /\ \A n \in Nodes : ParentPath(n) \in Seq(Nat)
           /\ \A n \in Nodes : FullPath[n] = ParentPath(n) \o Name(n)
  <1> DEFINE par == doc.parent
             T == Seq(Nat)
             tail(k) == Slash \o Name(k)
             step == [kt \in (1..Final) \X T |-> (kt[2] \o Slash) \o Name(kt[1])]
             Is(f) == f = [k \in Nodes |->
                             (IF doc.parent[k] = 0 THEN <<>>
                              ELSE f[doc.parent[k]]) \o Slash \o Name(k)]
  <1>1. /\ Final \in Nat /\ Nodes = 1..Final /\ par \in [1..Final -> Nat]
        /\ \A k \in Nodes : par[k] < k
        /\ \A k \in Nodes : par[k] = 0 \/ par[k] \in Nodes
        /\ \A k \in Nodes : Name(k) \in T
    BY DocIs
  <1>2. <<>> \in T /\ Slash \in T
    BY DEF Slash
  <1> HIDE DEF par, T
  <1>3. ASSUME NEW k \in Nodes, NEW t \in T PROVE (t \o Slash) \o Name(k) \in T
    BY <1>1, <1>2 DEF T
  <1>4. step \in [(1..Final) \X T -> T]
    <2>1. ASSUME NEW kt \in (1..Final) \X T
          PROVE  (kt[2] \o Slash) \o Name(kt[1]) \in T
      <3>1. kt[1] \in Nodes /\ kt[2] \in T
        BY <1>1
      <3>2. QED BY <1>3, <3>1
    <2>2. QED BY <2>1
  <1> HIDE DEF step
  <1>5. PICK f \in [1..Final -> T] : \A k \in 1..Final :
           f[k] = step[<<k, IF par[k] = 0 THEN <<>> ELSE f[par[k]]>>]
    <2>1. \A k \in 1..Final : par[k] < k
      BY <1>1
    <2>2. Solvable(Final, par, T, <<>>, step)
      BY <1>1, <1>2, <1>4, <2>1, Recursion
    <2>3. QED BY <2>2 DEF Solvable, Solution
  <1>6. ASSUME NEW k \in Nodes
        PROVE  f[k] = (IF par[k] = 0 THEN <<>> ELSE f[par[k]]) \o Slash \o Name(k)
    <2> DEFINE t == IF par[k] = 0 THEN <<>> ELSE f[par[k]]
    <2>1. t \in T /\ k \in 1..Final
      BY <1>1, <1>2, <1>5
    <2>2. f[k] = step[<<k, t>>]
      BY <1>5, <2>1
    <2> HIDE DEF t
    <2>3. step[<<k, t>>] = (t \o Slash) \o Name(k)
      BY <2>1 DEF step
    <2>4. QED BY <2>2, <2>3 DEF t
  <1>7. Is(f)
    BY <1>1, <1>5, <1>6 DEF par
  <1> DEFINE F == CHOOSE g : Is(g)
  <1>8. Is(F)
    BY <1>7
  <1>9. FullPath = F
    BY DEF FullPath
  <1> HIDE DEF F
  <1>10. F = f
    <2> DEFINE Same == {k \in Nat : k \in Nodes => F[k] = f[k]}
    <2>1. ASSUME NEW k \in Nat, \A j \in 0..k - 1 : j \in Same
          PROVE  k \in Same
      <3> SUFFICES ASSUME k \in Nodes PROVE F[k] = f[k]
        OBVIOUS
      <3>1. F[k] = (IF par[k] = 0 THEN <<>> ELSE F[par[k]]) \o Slash \o Name(k)
        BY <1>8 DEF par
      <3>2. par[k] # 0 => par[k] \in Nodes /\ par[k] \in 0..k - 1
        BY <1>1
      <3>3. par[k] # 0 => F[par[k]] = f[par[k]]
        BY <2>1, <3>2
      <3>4. QED BY <1>6, <3>1, <3>3
    <2>2. Same \in SUBSET Nat
      OBVIOUS
    <2> HIDE DEF Same
    <2>3. Same = Nat
      BY <2>1, <2>2, NumbersBelow
    <2>4. \A k \in Nodes : F[k] = f[k]
      BY <1>1, <2>3 DEF Same
    <2>5. DOMAIN F = Nodes /\ F = [k \in Nodes |-> F[k]]
      BY <1>8
    <2>6. QED BY <1>1, <1>5, <2>4, <2>5
  <1>11. ASSUME NEW n \in Nodes
         PROVE  /\ FullPath[n] \in Seq(Nat) /\ ParentPath(n) \in Seq(Nat)
                /\ FullPath[n] = ParentPath(n) \o Name(n)
    <2> DEFINE t == IF par[n] = 0 THEN <<>> ELSE f[par[n]]
    <2>1. t \in T
      BY <1>1, <1>2, <1>5
    <2>2. ParentPath(n) = t \o Slash
      <3>1. <<>> \o Slash = Slash
        BY DEF Slash
      <3>2. ParentPath(n) = IF par[n] = 0 THEN Slash ELSE f[par[n]] \o Slash
        BY <1>9, <1>10 DEF ParentPath, par
      <3>3. QED BY <3>1, <3>2
    <2>3. FullPath[n] = (t \o Slash) \o Name(n)
      BY <1>6, <1>9, <1>10
    <2> HIDE DEF t
    <2>4. t \o Slash \in Seq(Nat)
      BY <1>2, <2>1 DEF T
    <2>5. (t \o Slash) \o Name(n) \in Seq(Nat)
      BY <1>3, <2>1 DEF T
    <2>6. QED BY <2>2, <2>3, <2>4, <2>5
  <1>12. QED BY <1>11

-----------------------------------------------------------------------------
(* Sequences of sequences, one behind the other.                            *)

Firsts(g, k) == FlattenSeq([n \in 1..k |-> g[n]])

Joined(F, g, N, S) ==
    /\ F \in [0..N -> Seq(S)] /\ F[0] = <<>>
    /\ \A k \in 1..N : F[k] = F[k - 1] \o g[k]

\* The sequences g joined one by one, ...
LEMMA JoinedExists ==
    ASSUME NEW S, NEW N \in Nat, NEW g \in [1..N -> Seq(S)]
    PROVE  \E F : Joined(F, g, N, S)
  <1> DEFINE T == Seq(S)
             par == [k \in 1..N |-> k - 1]
             step == [kt \in (1..N) \X T |-> kt[2] \o g[kt[1]]]
  <1>1. par \in [1..N -> Nat] /\ \A k \in 1..N : par[k] = k - 1 /\ par[k] < k
    OBVIOUS
  <1>2. <<>> \in T /\ g \in [1..N -> T]
    OBVIOUS
  <1>3. ASSUME NEW a \in T, NEW b \in T PROVE a \o b \in T
    OBVIOUS
  <1> HIDE DEF par, T
  <1>4. step \in [(1..N) \X T -> T]
    <2>1. ASSUME NEW kt \in (1..N) \X T PROVE kt[2] \o g[kt[1]] \in T
      <3>1. kt[2] \in T /\ g[kt[1]] \in T
        BY <1>2
      <3>2. QED BY <1>3, <3>1
    <2>2. QED BY <2>1
  <1> HIDE DEF step
  <1>5. PICK f \in [1..N -> T] : \A k \in 1..N :
           f[k] = step[<<k, IF par[k] = 0 THEN <<>> ELSE f[par[k]]>>]
    <2>1. Solvable(N, par, T, <<>>, step)
      BY <1>1, <1>2, <1>4, Recursion
    <2>2. QED BY <2>1 DEF Solvable, Solution
  <1> DEFINE F == [k \in 0..N |-> IF k = 0 THEN <<>> ELSE f[k]]
  <1>6. ASSUME NEW k \in 0..N PROVE F[k] \in T
    BY <1>2, <1>5
  <1>7. ASSUME NEW k \in 1..N PROVE F[k] = F[k - 1] \o g[k]
    <2>1. k \in 0..N /\ k - 1 \in 0..N /\ F[k] = f[k] /\ k # 0
      OBVIOUS
    <2>2. F[k - 1] = IF par[k] = 0 THEN <<>> ELSE f[par[k]]
      BY <1>1, <2>1
    <2>3. F[k - 1] \in T
      BY <1>6, <2>1
    <2> HIDE DEF F
    <2>4. f[k] = step[<<k, F[k - 1]>>]
      BY <1>5, <2>2
    <2>5. step[<<k, F[k - 1]>>] = F[k - 1] \o g[k]
      BY <2>3 DEF step
    <2>6. QED BY <2>1, <2>4, <2>5
  <1>8. F[0] = <<>> /\ F \in [0..N -> T]
    <2>1. 0 \in 0..N /\ F[0] = <<>>
      OBVIOUS
    <2>2. DOMAIN F = 0..N /\ F = [k \in 0..N |-> F[k]]
      OBVIOUS
    <2> HIDE DEF F
    <2>3. QED BY <1>6, <2>1, <2>2
  <1> HIDE DEF F
  <1>9. Joined(F, g, N, S)
    BY <1>7, <1>8 DEF Joined, T
  <1>10. QED BY <1>9

\* ... are what FlattenSeq makes of the first ones.
LEMMA FlattenIs ==
    ASSUME NEW S, NEW N \in Nat, NEW g \in [1..N -> Seq(S)], NEW F,
           Joined(F, g, N, S), NEW n \in 0..N
    PROVE  Firsts(g, n) = F[n]
  <1> DEFINE h == [k \in 1..n |-> g[k]]
             Is(f) == f = [i \in 1..n |-> IF i = 1 THEN h[i]
                                          ELSE f[i - 1] \o h[i]]
             e == [i \in 1..n |-> F[i]]
             C == CHOOSE f : Is(f)
  <1>1. /\ F \in [0..N -> Seq(S)] /\ F[0] = <<>> /\ n \in Nat
        /\ \A k \in 1..n : k \in 1..N /\ F[k] = F[k - 1] \o g[k] /\ h[k] = g[k]
    <2>1. F \in [0..N -> Seq(S)] /\ F[0] = <<>>
          /\ \A k \in 1..N : F[k] = F[k - 1] \o g[k]
      BY DEF Joined
    <2>2. \A k \in 1..n : k \in 1..N /\ h[k] = g[k]
      OBVIOUS
    <2>3. n \in Nat
      OBVIOUS
    <2> HIDE DEF h
    <2>4. QED BY <2>1, <2>2, <2>3, Zenon
  <1>2. h \in Seq(Seq(S)) /\ Len(h) = n
    BY <1>1
  <1>3. CASE n = 0
    <2>1. h = <<>>
      BY <1>3
    <2>2. FlattenSeq(h) = h
      BY <1>2, <1>3 DEF FlattenSeq
    <2>3. QED BY <1>1, <1>3, <2>1, <2>2 DEF Firsts
  <1>4. CASE n # 0
    <2> HIDE DEF h
    <2>1. ASSUME NEW i \in 1..n
          PROVE  e[i] = IF i = 1 THEN h[i] ELSE e[i - 1] \o h[i]
      <3>1. CASE i = 1
        <4>1. F[1] = F[0] \o g[1] /\ g[1] \in Seq(S) /\ h[1] = g[1]
          <5>1. 1 \in 1..n /\ 1 \in 1..N /\ 1 - 1 = 0
            BY <3>1
          <5>2. g[1] \in Seq(S)
            BY <5>1
          <5>3. F[1] = F[1 - 1] \o g[1] /\ h[1] = g[1]
            BY <1>1, <5>1, Zenon
          <5>4. QED BY <5>1, <5>2, <5>3
        <4>2. <<>> \o g[1] = g[1]
          BY <4>1
        <4>3. QED BY <1>1, <3>1, <4>1, <4>2
      <3>2. CASE i # 1
        <4>1. i - 1 \in 1..n
          BY <3>2
        <4>2. QED BY <1>1, <3>2, <4>1
      <3>3. QED BY <3>1, <3>2
    <2>2. Is(e)
      BY <2>1
    <2>3. Is(C)
      BY <2>2
    <2>4. FlattenSeq(h) = C[n]
      BY <1>2, <1>4 DEF FlattenSeq
    <2> HIDE DEF C
    <2>5. \A i \in 1..n : C[i] = IF i = 1 THEN h[i] ELSE C[i - 1] \o h[i]
      BY <2>3
    <2> DEFINE Same == {i \in Nat : i \in 1..n => C[i] = F[i]}
    <2>6. 0 \in Same
      OBVIOUS
    <2>7. ASSUME NEW i \in Same PROVE i + 1 \in Same
      <3> SUFFICES ASSUME i + 1 \in 1..n PROVE C[i + 1] = F[i + 1]
        OBVIOUS
      <3>1. i \in Nat /\ i + 1 - 1 = i
        OBVIOUS
      <3>2. CASE i = 0
        <4>1. F[1] = F[0] \o g[1] /\ g[1] \in Seq(S) /\ h[1] = g[1]
          <5>1. 1 \in 1..n /\ 1 \in 1..N /\ 1 - 1 = 0
            BY <3>1, <3>2
          <5>2. g[1] \in Seq(S)
            BY <5>1
          <5>3. F[1] = F[1 - 1] \o g[1] /\ h[1] = g[1]
            BY <1>1, <5>1, Zenon
          <5>4. QED BY <5>1, <5>2, <5>3
        <4>2. <<>> \o g[1] = g[1]
          BY <4>1
        <4>3. QED BY <1>1, <2>5, <3>2, <4>1, <4>2
      <3>3. CASE i # 0
        <4>1. i \in 1..n /\ C[i] = F[i]
          BY <3>1, <3>3
        <4>2. C[i + 1] = C[i] \o h[i + 1]
          <5>1. PICK k \in 1..n : k = i + 1
            OBVIOUS
          <5>2. C[k] = IF k = 1 THEN h[k] ELSE C[k - 1] \o h[k]
            BY <2>5, Zenon
          <5>3. k # 1 /\ k - 1 = i
            BY <3>1, <3>3, <5>1
          <5>4. QED BY <5>1, <5>2, <5>3
        <4>3. F[i + 1] = F[i] \o g[i + 1] /\ h[i + 1] = g[i + 1]
          <5>1. PICK k \in 1..n : k = i + 1
            OBVIOUS
          <5>2. F[k] = F[k - 1] \o g[k] /\ h[k] = g[k]
            BY <1>1, Zenon
          <5>3. k - 1 = i
            BY <3>1, <5>1
          <5>4. QED BY <5>1, <5>2, <5>3
        <4>4. QED BY <4>1, <4>2, <4>3
      <3>4. QED BY <3>2, <3>3
    <2>8. Same = Nat
      <3>1. Same \in SUBSET Nat
        OBVIOUS
      <3> HIDE DEF Same
      <3>2. QED BY <2>6, <2>7, <3>1, SetInduction
    <2>9. n \in Same
      <3> HIDE DEF Same
      <3>1. QED BY <1>1, <2>8
    <2>10. C[n] = F[n]
      BY <1>4, <2>9
    <2>11. QED BY <2>4, <2>10 DEF Firsts, h
  <1>5. QED BY <1>3, <1>4

\* The first of the sequences, and one more.
LEMMA FirstsAre ==
    ASSUME NEW S, NEW N \in Nat, NEW g \in [1..N -> Seq(S)]
    PROVE  /\ Firsts(g, 0) = <<>> /\ Firsts(g, N) = FlattenSeq(g)
           /\ \A k \in 0..N : Firsts(g, k) \in Seq(S)
           /\ \A k \in 1..N : Firsts(g, k) = Firsts(g, k - 1) \o g[k]
  <1>1. PICK F : Joined(F, g, N, S)
    BY JoinedExists
  <1>2. /\ F \in [0..N -> Seq(S)] /\ F[0] = <<>>
        /\ \A k \in 1..N : F[k] = F[k - 1] \o g[k]
    BY <1>1 DEF Joined
  <1>3. \A k \in 0..N : Firsts(g, k) = F[k]
    BY <1>1, FlattenIs, ZenonT(40)
  <1>4. [n \in 1..N |-> g[n]] = g
    OBVIOUS
  <1>5. Firsts(g, N) = FlattenSeq(g)
    BY <1>4 DEF Firsts
  <1>6. \A k \in 1..N : k \in 0..N /\ k - 1 \in 0..N
    OBVIOUS
  <1>7. ASSUME NEW k \in 1..N PROVE Firsts(g, k) = Firsts(g, k - 1) \o g[k]
    <2>1. Firsts(g, k) = F[k] /\ Firsts(g, k - 1) = F[k - 1]
      BY <1>3, <1>6
    <2>2. QED BY <1>2, <2>1
  <1>8. ASSUME NEW k \in 0..N PROVE Firsts(g, k) \in Seq(S)
    BY <1>2, <1>3
  <1>9. Firsts(g, 0) = <<>>
    BY <1>2, <1>3
  <1>10. QED BY <1>5, <1>7, <1>8, <1>9

\* One sequence more.
LEMMA OneMore ==
    ASSUME NEW S, NEW N \in Nat, NEW g \in [1..N -> Seq(S)], NEW k \in 0..N - 1
    PROVE  /\ Firsts(g, k) \in Seq(S)
           /\ Firsts(g, k + 1) = Firsts(g, k) \o g[k + 1]
  <1>1. k + 1 \in 1..N /\ (k + 1) - 1 = k /\ k \in 0..N
    OBVIOUS
  <1>2. \A n \in 1..N : Firsts(g, n) = Firsts(g, n - 1) \o g[n]
    BY FirstsAre
  <1>3. Firsts(g, k) \in Seq(S)
    BY <1>1, FirstsAre
  <1>4. PICK n \in 1..N : n = k + 1
    BY <1>1
  <1>5. Firsts(g, n) = Firsts(g, n - 1) \o g[n]
    BY <1>2
  <1>6. QED BY <1>1, <1>3, <1>4, <1>5

\* Empty ones add nothing, ...
LEMMA FirstsStay ==
    ASSUME NEW S, NEW N \in Nat, NEW g \in [1..N -> Seq(S)],
           NEW b \in 0..N, NEW c \in b..N, \A k \in b + 1..c : g[k] = <<>>
    PROVE  Firsts(g, c) = Firsts(g, b)
  <1>a. \A j \in 0..N - 1 : Firsts(g, j + 1) = Firsts(g, j) \o g[j + 1]
    BY OneMore, ZenonT(40)
  <1> DEFINE Same == {i \in Nat : b + i <= c => Firsts(g, b + i) = Firsts(g, b)}
  <1>1. 0 \in Same
    BY b + 0 = b
  <1>2. ASSUME NEW i \in Same PROVE i + 1 \in Same
    <2> SUFFICES ASSUME b + (i + 1) <= c
                 PROVE  Firsts(g, b + (i + 1)) = Firsts(g, b)
      OBVIOUS
    <2>1. /\ i \in Nat /\ b + (i + 1) <= N /\ b + (i + 1) \in b + 1..c
          /\ b + (i + 1) = (b + i) + 1 /\ b + i <= c /\ b + i \in 0..N
      OBVIOUS
    <2>2. Firsts(g, b + (i + 1)) = Firsts(g, b + i) \o g[b + (i + 1)]
      <3>1. PICK k \in Nat : k = b + i
        BY <2>1
      <3>2. k \in 0..N - 1 /\ k + 1 = b + (i + 1)
        BY <2>1, <3>1
      <3>3. Firsts(g, k + 1) = Firsts(g, k) \o g[k + 1]
        BY <1>a, <3>2
      <3>4. QED BY <3>1, <3>2, <3>3
    <2>3. Firsts(g, b + i) \in Seq(S)
      BY <2>1, FirstsAre
    <2>4. Firsts(g, b + i) \o <<>> = Firsts(g, b + i)
      BY <2>3
    <2>5. QED BY <2>1, <2>2, <2>4
  <1>3. Same = Nat
    <2>1. Same \in SUBSET Nat
      OBVIOUS
    <2> HIDE DEF Same
    <2>2. QED BY <1>1, <1>2, <2>1, SetInduction
  <1>4. c - b \in Same
    <2> HIDE DEF Same
    <2>1. QED BY <1>3
  <1>5. b + (c - b) = c /\ c <= c
    OBVIOUS
  <1>6. QED BY <1>4, <1>5

\* ... so that of one that is not empty among empty ones nothing else is left, ...
LEMMA FlattenOne ==
    ASSUME NEW S, NEW N \in Nat, NEW g \in [1..N -> Seq(S)],
           NEW i \in 1..N, \A k \in 1..N : k # i => g[k] = <<>>
    PROVE  FlattenSeq(g) = g[i]
  <1>1. Firsts(g, i - 1) = Firsts(g, 0)
    <2>1. 0 \in 0..N /\ i - 1 \in 0..N /\ \A k \in 0 + 1..i - 1 : g[k] = <<>>
      OBVIOUS
    <2>2. QED BY <2>1, FirstsStay
  <1>2. Firsts(g, N) = Firsts(g, i)
    <2>1. i \in 0..N /\ N \in i..N /\ \A k \in i + 1..N : g[k] = <<>>
      OBVIOUS
    <2>2. QED BY <2>1, FirstsStay
  <1>3. /\ Firsts(g, 0) = <<>> /\ Firsts(g, N) = FlattenSeq(g)
        /\ Firsts(g, i) = Firsts(g, i - 1) \o g[i]
    BY FirstsAre
  <1>4. <<>> \o g[i] = g[i]
    OBVIOUS
  <1>5. QED BY <1>1, <1>2, <1>3, <1>4

\* The first n elements of a sequence.
LEMMA Beginning ==
    ASSUME NEW S, NEW s \in Seq(S), NEW n \in 0..Len(s)
    PROVE  /\ SubSeq(s, 1, n) \in Seq(S) /\ Len(SubSeq(s, 1, n)) = n
           /\ \A i \in 1..n : SubSeq(s, 1, n)[i] = s[i]
  <1>1. 1 \in Int /\ n \in Int /\ \A i \in 1..n : s[i] \in S
    OBVIOUS
  <1>2. /\ SubSeq(s, 1, n) \in Seq(S)
        /\ Len(SubSeq(s, 1, n)) = IF 1 <= n THEN n - 1 + 1 ELSE 0
        /\ \A i \in 1..n - 1 + 1 : SubSeq(s, 1, n)[i] = s[1 + i - 1]
    BY <1>1, SubSeqProperties
  <1>3. n - 1 + 1 = n /\ \A i \in 1..n : 1 + i - 1 = i
    OBVIOUS
  <1>4. Len(SubSeq(s, 1, n)) = n
    BY <1>2, <1>3
  <1>5. ASSUME NEW i \in 1..n PROVE SubSeq(s, 1, n)[i] = s[i]
    BY <1>2, <1>3
  <1>6. QED BY <1>2, <1>4, <1>5

\* A sequence that another one begins with is a prefix of it.
LEMMA PrefixIs ==
    ASSUME NEW S, NEW s \in Seq(S), NEW t \in Seq(S), Len(s) <= Len(t),
           \A i \in 1..Len(s) : s[i] = t[i]
    PROVE  IsPrefix(s, t)
  <1>1. /\ SubSeq(s, 1, Len(s)) \in Seq(S) /\ Len(SubSeq(s, 1, Len(s))) = Len(s)
        /\ SubSeq(t, 1, Len(s)) \in Seq(S) /\ Len(SubSeq(t, 1, Len(s))) = Len(s)
        /\ \A i \in 1..Len(s) :
              SubSeq(s, 1, Len(s))[i] = s[i] /\ SubSeq(t, 1, Len(s))[i] = t[i]
    OBVIOUS
  <1>2. SubSeq(s, 1, Len(s)) = SubSeq(t, 1, Len(s))
    BY <1>1, SeqEqual
  <1>3. QED BY <1>2 DEF IsPrefix

\* ... and the first ones are a prefix of all.
LEMMA FirstsPrefix ==
    ASSUME NEW S, NEW N \in Nat, NEW g \in [1..N -> Seq(S)],
           NEW b \in 0..N, NEW c \in b..N
    PROVE  IsPrefix(Firsts(g, b), Firsts(g, c))
  <1>a. \A j \in 0..N - 1 : Firsts(g, j + 1) = Firsts(g, j) \o g[j + 1]
    BY OneMore
  <1> DEFINE s == Firsts(g, b)
             Begins(t) == Len(s) <= Len(t) /\ \A j \in 1..Len(s) : s[j] = t[j]
             Good == {i \in Nat : b + i <= c => Begins(Firsts(g, b + i))}
  <1>0. s \in Seq(S)
    BY FirstsAre
  <1>1. 0 \in Good
    <2>1. b + 0 = b /\ Len(s) <= Len(s)
      BY <1>0
    <2>2. QED BY <2>1
  <1>2. ASSUME NEW i \in Good PROVE i + 1 \in Good
    <2> SUFFICES ASSUME b + (i + 1) <= c PROVE Begins(Firsts(g, b + (i + 1)))
      OBVIOUS
    <2> DEFINE t == Firsts(g, b + i)
               u == Firsts(g, b + (i + 1))
               x == g[b + (i + 1)]
    <2>1. /\ i \in Nat /\ b + (i + 1) \in 1..N
          /\ b + (i + 1) = (b + i) + 1 /\ b + i <= c /\ b + i \in 0..N
      OBVIOUS
    <2>2. u = t \o x
      <3>1. PICK k \in Nat : k = b + i
        BY <2>1
      <3>2. k \in 0..N - 1 /\ k + 1 = b + (i + 1)
        BY <2>1, <3>1
      <3>3. Firsts(g, k + 1) = Firsts(g, k) \o g[k + 1]
        BY <1>a, <3>2
      <3>4. QED BY <3>1, <3>2, <3>3
    <2>3. t \in Seq(S) /\ x \in Seq(S) /\ Begins(t)
      BY <2>1, FirstsAre
    <2> HIDE DEF s, t, u, x
    <2>4. /\ Len(t \o x) = Len(t) + Len(x)
          /\ \A j \in 1..Len(t) : (t \o x)[j] = t[j]
      BY <2>3
    <2>5. Len(s) \in Nat /\ Len(t) \in Nat /\ Len(x) \in Nat
      BY <1>0, <2>3, SMTT(30)
    <2>6. Begins(u)
      BY <2>2, <2>3, <2>4, <2>5
    <2>7. QED BY <2>6 DEF u
  <1>3. Good = Nat
    <2>1. Good \in SUBSET Nat
      OBVIOUS
    <2> HIDE DEF Good
    <2>2. QED BY <1>1, <1>2, <2>1, SetInduction
  <1>4. c - b \in Good
    <2> HIDE DEF Good
    <2>1. QED BY <1>3
  <1>5. b + (c - b) = c /\ c <= c
    OBVIOUS
  <1>6. Begins(Firsts(g, c))
    BY <1>4, <1>5
  <1>7. Firsts(g, c) \in Seq(S)
    <2>1. c \in 0..N
      OBVIOUS
    <2>2. QED BY <2>1, FirstsAre
  <1> HIDE DEF s
  <1>8. IsPrefix(s, Firsts(g, c))
    BY <1>0, <1>6, <1>7, PrefixIs
  <1>9. QED BY <1>8 DEF s
\* No step changes the document.
LEMMA SameDoc ==
    ASSUME doc' = doc
    PROVE  /\ Nodes' = Nodes /\ FullPath' = FullPath /\ Final' = Final
           /\ \A n : ParentPath(n)' = ParentPath(n)
           /\ \A m, n : IsAncestor(m, n)' = IsAncestor(m, n)
           /\ \A n : After(n)' = After(n)
  <1>1. Nodes' = Nodes /\ Final' = Final
    BY DEF Nodes, Final
  <1>2. FullPath' = FullPath
    BY DEF FullPath, Nodes, Slash, Name
  <1>3. ASSUME NEW n PROVE ParentPath(n)' = ParentPath(n)
    BY <1>2 DEF ParentPath, Slash
  <1>4. ASSUME NEW n, NEW m PROVE IsAncestor(m, n)' = IsAncestor(m, n)
    BY <1>1 DEF IsAncestor
  <1>5. ASSUME NEW n PROVE After(n)' = After(n)
    BY <1>1 DEF After, Behind, Final
  <1>6. QED BY <1>1, <1>2, <1>3, <1>4, <1>5

-----------------------------------------------------------------------------
(* Paths with a zero behind them.                                           *)

\* The bytes of s behind the text are zeros as far as z.
Clear(s, z) ==
    /\ z \in Nat /\ s.size < z /\ z <= s.capcity
    /\ \A i \in s.size..z - 1 : s.buffer[i] = 0

\* A string with a zero behind its text is a C string.
LEMMA ClearEnds ==
    ASSUME NEW s, WellFormed(s), NEW z, Clear(s, z)
    PROVE  Terminated(s)
  BY Numbers DEF Clear, Terminated

\* Bytes that fit leave the zeros behind them.
LEMMA PutClear ==
    ASSUME NEW r, NEW s, NEW p \in Seq(Nat), WellFormed(s), Fits(r, s, Len(p)),
           NEW z \in Nat, s.size + Len(p) < z, z <= r.capcity,
           \A i \in s.size + Len(p)..z - 1 : r.buffer[i] = 0
    PROVE  /\ Clear(PutInto(r, s, p), z)
           /\ PutInto(r, s, p).size = s.size + Len(p)
           /\ PutInto(r, s, p).capcity = r.capcity
  <1> DEFINE w == Written(r.buffer, s.size, p)
             q == PutInto(r, s, p)
  <1>1. /\ s.size \in Nat /\ r.size = s.size /\ r.capcity \in Nat
        /\ Len(p) \in Nat /\ s.size + Len(p) < r.capcity
        /\ r.buffer \in [0..r.capcity - 1 -> Byte]
        /\ r \in [buffer : Buffers, size : Nat, capcity : Nat]
    BY DEF Fits, WellFormed
  <1>2. \A j \in 0..r.capcity - 1 :
              w[j] = IF j \in s.size..s.size + Len(p) - 1
                     THEN p[j - s.size + 1] ELSE r.buffer[j]
    <2>1. s.size + Len(p) <= r.capcity
      BY <1>1
    <2>. QED  BY <1>1, <2>1, WrittenBytes, ZenonT(40)
  <1> HIDE DEF w
  <1>3. q = [r EXCEPT !.buffer = w, !.size = @ + Len(p)]
    BY DEF w, PutInto
  <1>4. q.buffer = w /\ q.size = s.size + Len(p) /\ q.capcity = r.capcity
    BY <1>1, <1>3
  <1> HIDE DEF q
  <1>5. ASSUME NEW i \in q.size..z - 1 PROVE q.buffer[i] = 0
    BY <1>1, <1>2, <1>4, SMTT(30)
  <1>6. QED BY <1>1, <1>4, <1>5 DEF Clear, q

\* string_append with room for the bytes, and ...
LEMMA AppendFits ==
    ASSUME NEW s, WellFormed(s), NEW p \in Seq(Nat), NEW z, Clear(s, z),
           s.size + Len(p) + 1 <= s.capcity, s.size + Len(p) < z
    PROVE  /\ Clear(string_append(s, p), z)
           /\ string_append(s, p).size = s.size + Len(p)
           /\ string_append(s, p).capcity = s.capcity
  <1>1. Len(p) \in Nat /\ s.size \in Nat /\ s.capcity \in Nat
    BY Numbers
  <1>2. Room(s, Len(p)) = s
    BY <1>1 DEF Room
  <1>3. Fits(s, s, Len(p))
    BY <1>1 DEF Fits
  <1>4. string_append(s, p) = PutInto(s, s, p)
    BY <1>2 DEF string_append, PutInto
  <1>5. z \in Nat /\ z <= s.capcity
        /\ \A i \in s.size + Len(p)..z - 1 : s.buffer[i] = 0
    BY <1>1 DEF Clear
  <1>6. QED BY <1>3, <1>4, <1>5, PutClear

\* ... one that doubles the buffer, which clears as many bytes as it adds.
LEMMA AppendGrows ==
    ASSUME NEW s, WellFormed(s), NEW p \in Seq(Nat),
           s.size + Len(p) + 1 > s.capcity,
           s.size + Len(p) + 1 <= 2 * s.capcity, Len(p) < s.capcity
    PROVE  /\ Clear(string_append(s, p), s.size + s.capcity)
           /\ string_append(s, p).size = s.size + Len(p)
           /\ string_append(s, p).capcity = 2 * s.capcity
  <1> DEFINE n == Len(p)
             c == 2 * s.capcity
             f == [i \in 0..c - 1 |-> IF i \in Cleared(s, c) THEN 0
                                       ELSE IF i < s.capcity THEN s.buffer[i]
                                       ELSE Junk]
             r == [s EXCEPT !.capcity = c, !.buffer = f]
             z == s.size + s.capcity
  <1>1. n \in Nat /\ s.size \in Nat /\ s.capcity \in Nat /\ s.size < s.capcity
    BY Numbers
  <1>2. Enough(s, n) = c
    BY <1>1 DEF Enough, BUFFER_INCREASE_RATIO
  <1>3. Room(s, n) = r
    BY <1>1, <1>2 DEF Room, expand_buffer
  <1>4. Fits(Room(s, n), s, n)
    BY <1>1, RoomFits
  <1>5. z \in Nat /\ s.size + n < z /\ z <= c
    BY <1>1
  <1>6. \A i \in s.size + n..z - 1 : f[i] = 0
    BY <1>1, SMTT(30) DEF Cleared
  <1> HIDE DEF f
  <1>7. r.buffer = f /\ r.capcity = c
    BY DEF WellFormed
  <1> HIDE DEF r
  <1>8. string_append(s, p) = PutInto(r, s, p)
    BY <1>3 DEF string_append, PutInto
  <1>9. /\ Clear(PutInto(r, s, p), z)
        /\ PutInto(r, s, p).size = s.size + Len(p)
        /\ PutInto(r, s, p).capcity = r.capcity
    <2>1. z <= r.capcity /\ \A i \in s.size + Len(p)..z - 1 : r.buffer[i] = 0
      BY <1>5, <1>6, <1>7
    <2>2. Fits(r, s, Len(p))
      BY <1>3, <1>4
    <2> HIDE DEF z
    <2>3. QED BY <1>5, <2>1, <2>2, PutClear
  <1>10. QED BY <1>7, <1>8, <1>9

\* A path and a name, both shorter than the buffer they are appended to: a zero
\* ends what they make, and ends it still when a slash follows.
PathWithName(c, p, q) == string_append(string_append(string_blank(c), p), q)

\* A path and a name that are short enough leave such a zero.
LEMMA ShortPathsEnd ==
    ASSUME NEW c \in Nat, NEW p \in Seq(Nat), NEW q \in Seq(Nat),
           Len(p) < c, Len(q) + 1 < c
    PROVE  /\ Terminated(PathWithName(c, p, q))
           /\ Terminated(string_append(PathWithName(c, p, q), Slash))
  <1> DEFINE b == string_blank(c)
             s == string_append(b, p)
             t == string_append(s, q)
             u == string_append(t, Slash)
  <1>1. Len(p) \in Nat /\ Len(q) \in Nat /\ Slash \in Seq(Nat) /\ Len(Slash) = 1
    BY DEF Slash
  <1>2. WellFormed(b) /\ WellFormed(s) /\ WellFormed(t) /\ WellFormed(u)
    <2>1. c \in Nat \ {0}
      BY <1>1
    <2>2. WellFormed(b)
      BY <2>1, BlankWellFormed
    <2> HIDE DEF b
    <2>3. WellFormed(s)
      BY <2>2, AppendKeeps
    <2> HIDE DEF s
    <2>4. WellFormed(t)
      BY <2>3, AppendKeeps
    <2> HIDE DEF t
    <2>5. WellFormed(u)
      BY <1>1, <2>4, AppendKeeps
    <2>6. QED BY <2>2, <2>3, <2>4, <2>5
  <1>3. b.size = 0 /\ b.capcity = c /\ Clear(b, c)
    BY <1>1 DEF string_blank, Clear
  <1> HIDE DEF b
  <1>4. Clear(s, c) /\ s.size = Len(p) /\ s.capcity = c
    <2>1. b.size + Len(p) + 1 <= b.capcity /\ b.size + Len(p) < c
      BY <1>1, <1>3
    <2>2. QED BY <1>1, <1>2, <1>3, <2>1, AppendFits, SMTT(30)
  <1> HIDE DEF s
  <1>5. PathWithName(c, p, q) = t
    BY DEF PathWithName, b, s
  <1>6. CASE Len(p) + Len(q) + 1 <= c
    <2>1. Clear(t, c) /\ t.size = Len(p) + Len(q) /\ t.capcity = c
      <3>1. s.size + Len(q) + 1 <= s.capcity /\ s.size + Len(q) < c
        BY <1>1, <1>4, <1>6
      <3>2. QED BY <1>2, <1>4, <3>1, AppendFits
    <2> HIDE DEF t
    <2>2. CASE Len(p) + Len(q) + 2 <= c
      <3>1. t.size + Len(Slash) + 1 <= t.capcity /\ t.size + Len(Slash) < c
        BY <1>1, <2>1, <2>2
      <3>2. Clear(u, c)
        BY <1>1, <1>2, <2>1, <3>1, AppendFits
      <3>3. QED BY <1>2, <1>5, <2>1, <3>2, ClearEnds
    <2>3. CASE ~(Len(p) + Len(q) + 2 <= c)
      <3>1. /\ t.size + Len(Slash) + 1 > t.capcity
            /\ t.size + Len(Slash) + 1 <= 2 * t.capcity
            /\ Len(Slash) < t.capcity
        BY <1>1, <1>6, <2>1, <2>3
      <3>2. Clear(u, t.size + t.capcity)
        BY <1>1, <1>2, <3>1, AppendGrows
      <3>3. QED BY <1>2, <1>5, <2>1, <3>2, ClearEnds
    <2>4. QED BY <2>2, <2>3
  <1>7. CASE ~(Len(p) + Len(q) + 1 <= c)
    <2>1. /\ Clear(t, Len(p) + c) /\ t.size = Len(p) + Len(q)
          /\ t.capcity = 2 * c
      <3>1. /\ s.size + Len(q) + 1 > s.capcity
            /\ s.size + Len(q) + 1 <= 2 * s.capcity /\ Len(q) < s.capcity
        BY <1>1, <1>4, <1>7
      <3>2. QED BY <1>2, <1>4, <3>1, AppendGrows
    <2> HIDE DEF t
    <2>2. t.size + Len(Slash) + 1 <= t.capcity /\ t.size + Len(Slash) < Len(p) + c
      BY <1>1, <2>1
    <2>3. Clear(u, Len(p) + c)
      BY <1>1, <1>2, <2>1, <2>2, AppendFits
    <2>4. QED BY <1>2, <1>5, <2>1, <2>3, ClearEnds
  <1>8. QED BY <1>6, <1>7
\* The first path is a C string.
LEMMA SlashEnds == WellFormed(string_new(Slash)) /\ Bytes(string_new(Slash)) = Slash
                   /\ Terminated(string_new(Slash))
  <1> DEFINE b == [i \in 0..1 |-> 0]
             w == Written(b, 0, Slash)
  <1>1. Slash \in Seq(Nat) /\ Len(Slash) = 1
    BY DEF Slash
  <1>2. WellFormed(string_new(Slash)) /\ Bytes(string_new(Slash)) = Slash
    BY <1>1, NewWellFormed
  <1>3. string_new(Slash) = [buffer |-> w, size |-> 1, capcity |-> 2]
    BY <1>1 DEF string_new, string_blank
  <1>4. w = [j \in 0..1 |-> IF j \in 0..0 THEN Slash[j - 0 + 1] ELSE b[j]]
    <2>1. DOMAIN b = 0..1 /\ 0..0 + Len(Slash) - 1 = 0..0 /\ 0..1 \cup 0..0 = 0..1
      BY <1>1
    <2> HIDE DEF b
    <2>2. QED BY <2>1 DEF Written
  <1>5. 1 \in DOMAIN w /\ w[1] = 0
    BY <1>4
  <1> HIDE DEF w
  <1>6. QED BY <1>2, <1>3, <1>5 DEF Terminated

-----------------------------------------------------------------------------
(* The handlers.                                                            *)

Func == Callback \cup {Unwritten}
StringRecs == [buffer : Buffers, size : Nat, capcity : Nat]
VectorRecs == [array : Arrays(Func), block : Nat, capcity : Nat, size : Nat]
HandlerRecs == [node : StringRecs, callbacks : VectorRecs]
Cell == HandlerRecs \cup {Unwritten}

IsHandler(h) ==
    /\ h \in HandlerRecs /\ WellFormed(h.node) /\ IsVector(h.callbacks, Func)

\* Handlers are for different paths, and the array has been moved only to make
\* room for more of them than it was made for.
HandlersHeld(v) ==
    /\ IsVector(v, Cell)
    /\ \A i \in 0..v.size - 1 : IsHandler(v.array[i])
    /\ \A i, j \in 0..v.size - 1 :
          Bytes(v.array[i].node) = Bytes(v.array[j].node) => i = j
    /\ v.capcity >= HandlerCap
    /\ v.block # 0 => v.size > HandlerCap

\* The vector of handlers of a new parser.
LEMMA NewHandlers == HandlersHeld(vector_new(HandlerCap))
  <1>1. HandlerCap \in Nat /\ Unwritten \in Cell
    BY XmlParserAssumption DEF Cell
  <1>2. IsVector(vector_new(HandlerCap), Cell) /\ vector_new(HandlerCap).block = 0
    BY <1>1, NewVector
  <1>3. vector_new(HandlerCap).size = 0 /\ vector_new(HandlerCap).capcity = HandlerCap
    BY DEF vector_new
  <1>4. QED BY <1>1, <1>2, <1>3 DEF HandlersHeld

\* The handler that an insertion makes for a new path.
LEMMA HandlerMade ==
    ASSUME NEW p \in Seq(Nat), NEW c \in Callback
    PROVE  IsHandler(NewHandler(p, c)) /\ Bytes(NewHandler(p, c).node) = p
  <1> DEFINE v == vector_new(DEFAULT_NODE_CALLBACK_CAP)
             w == vector_insert(v, c)
             s == string_new(p)
  <1>1. WellFormed(s) /\ Bytes(s) = p
    BY NewWellFormed
  <1>2. IsVector(v, Func)
    BY NewVector DEF Func, DEFAULT_NODE_CALLBACK_CAP
  <1> HIDE DEF v
  <1>3. IsVector(w, Func)
    <2>1. Unwritten \in Func /\ c \in Func
      BY DEF Func
    <2>2. QED BY <1>2, <2>1, InsertAppends
  <1>4. NewHandler(p, c) = [node |-> s, callbacks |-> w]
    BY DEF NewHandler, v
  <1> HIDE DEF s, w
  <1>5. s \in StringRecs /\ w \in VectorRecs
    BY <1>1, <1>3 DEF WellFormed, IsVector, StringRecs, VectorRecs
  <1>6. QED BY <1>1, <1>3, <1>4, <1>5 DEF IsHandler, HandlerRecs

\* A callback more for a handler that is there.
LEMMA CallbackAdded ==
    ASSUME NEW h, IsHandler(h), NEW c \in Callback
    PROVE  /\ IsHandler(WithCallback(h, c)) /\ WithCallback(h, c).node = h.node
           /\ WithCallback(h, c).callbacks.size = h.callbacks.size + 1
  <1> DEFINE w == vector_insert(h.callbacks, c)
             g == WithCallback(h, c)
  <1>1. IsVector(w, Func) /\ w.size = h.callbacks.size + 1
    <2>1. Unwritten \in Func /\ c \in Func
      BY DEF Func
    <2>2. IsVector(h.callbacks, Func)
      BY DEF IsHandler
    <2>3. QED BY <2>1, <2>2, InsertAppends
  <1>2. g = [h EXCEPT !.callbacks = w]
    BY DEF WithCallback
  <1> HIDE DEF w
  <1>3. w \in VectorRecs
    BY <1>1 DEF IsVector, VectorRecs
  <1>4. g = [node |-> h.node, callbacks |-> w]
    BY <1>2 DEF IsHandler, HandlerRecs
  <1> HIDE DEF g
  <1>5. g \in HandlerRecs
    BY <1>3, <1>4 DEF IsHandler, HandlerRecs
  <1>6. QED BY <1>1, <1>4, <1>5 DEF IsHandler, g

\* get_handler finds the handler of a path if there is one.
LEMMA HandlerFound ==
    ASSUME HandlersHeld(handlers), NEW p
    PROVE  /\ get_handler(p) # -1 =>
                 /\ get_handler(p) \in 0..handlers.size - 1
                 /\ Bytes(handlers.array[get_handler(p)].node) = p
           /\ get_handler(p) = -1 =>
                 \A i \in 0..handlers.size - 1 :
                    Bytes(handlers.array[i].node) # p
  <1> DEFINE hits == {i \in 0..handlers.size - 1 :
                        Bytes(handlers.array[i].node) = p}
  <1>1. handlers.size \in Nat
    BY VectorParts DEF HandlersHeld
  <1>2. hits \in SUBSET Nat
    BY <1>1
  <1>3. get_handler(p) = IF hits = {} THEN -1 ELSE Min(hits)
    BY DEF get_handler
  <1>4. hits # {} => Min(hits) \in hits
    <2> HIDE DEF hits
    <2>1. QED BY <1>2, LeastNumber
  <1>5. QED BY <1>1, <1>3, <1>4

\* A registration keeps what is there, and puts a callback behind or a handler.
Kept(w, v) ==
    /\ w.size >= v.size /\ w.block >= v.block
    /\ \A i \in 0..v.size - 1 :
          w.array[i].callbacks.size >= v.array[i].callbacks.size

\* A handler for a path that has none yet, ...
LEMMA Inserted ==
    ASSUME NEW v, HandlersHeld(v), NEW h, IsHandler(h),
           \A i \in 0..v.size - 1 : Bytes(v.array[i].node) # Bytes(h.node)
    PROVE  HandlersHeld(vector_insert(v, h)) /\ Kept(vector_insert(v, h), v)
  <1> DEFINE w == vector_insert(v, h)
             n == v.size
  <1>1. /\ v.block \in Nat /\ v.capcity \in Nat /\ n \in Nat
        /\ n <= v.capcity /\ IsVector(v, Cell) /\ HandlerCap \in Nat
        /\ v.capcity >= HandlerCap /\ (v.block # 0 => n > HandlerCap)
    BY VectorParts, XmlParserAssumption DEF HandlersHeld
  <1>2. /\ IsVector(w, Cell) /\ Elements(w) = Append(Elements(v), h)
        /\ w.size = n + 1 /\ \A i \in 0..n - 1 : w.array[i] = v.array[i]
        /\ \/ w.block = v.block /\ w.capcity = v.capcity
           \/ w.block = v.block + 1 /\ v.size = v.capcity
        /\ w.capcity >= v.capcity
    <2>1. Unwritten \in Cell /\ h \in Cell
      BY DEF Cell, IsHandler
    <2>2. QED BY <1>1, <2>1, InsertAppends
  <1> HIDE DEF w
  <1>3. w.array[n] = h
    <2>1. Elements(v) \in Seq(Cell) /\ Len(Elements(v)) = n
      BY <1>1, ElementsIs
    <2>2. Append(Elements(v), h)[n + 1] = h
      BY <2>1
    <2>3. Elements(w)[n + 1] = w.array[(n + 1) - 1]
      <3>1. n + 1 \in 1..w.size
        BY <1>1, <1>2
      <3>2. \A i \in 1..w.size : Elements(w)[i] = w.array[i - 1]
        BY <1>2, ElementsIs
      <3>3. QED BY <3>1, <3>2
    <2>4. (n + 1) - 1 = n
      BY <1>1
    <2>5. QED BY <1>2, <2>2, <2>3, <2>4
  <1>4. \A i \in 0..w.size - 1 : i \in 0..n - 1 \/ i = n
    BY <1>1, <1>2
  <1>5. \A i \in 0..w.size - 1 : IsHandler(w.array[i])
    BY <1>2, <1>3, <1>4 DEF HandlersHeld
  <1>6. ASSUME NEW i \in 0..w.size - 1, NEW j \in 0..w.size - 1,
               Bytes(w.array[i].node) = Bytes(w.array[j].node)
        PROVE  i = j
    <2>1. CASE i = n /\ j = n
      BY <2>1
    <2>2. CASE i = n /\ j \in 0..n - 1
      BY <1>2, <1>3, <1>6, <2>2
    <2>3. CASE i \in 0..n - 1 /\ j = n
      BY <1>2, <1>3, <1>6, <2>3
    <2>4. CASE i \in 0..n - 1 /\ j \in 0..n - 1
      BY <1>2, <1>6, <2>4 DEF HandlersHeld
    <2>5. QED BY <1>4, <2>1, <2>2, <2>3, <2>4
  <1>7. w.capcity >= HandlerCap /\ (w.block # 0 => w.size > HandlerCap)
    <2>1. w.capcity \in Nat
      BY <1>2, VectorParts
    <2>2. QED BY <1>1, <1>2, <2>1
  <1>8. HandlersHeld(w)
    BY <1>2, <1>5, <1>6, <1>7 DEF HandlersHeld
  <1>9. \A i \in 0..n - 1 : v.array[i].callbacks.size \in Nat
    BY VectorParts DEF HandlersHeld, IsHandler
  <1>10. Kept(w, v)
    BY <1>1, <1>2, <1>9 DEF Kept
  <1>11. QED BY <1>8, <1>10 DEF w

\* ... and a callback for one that has.
LEMMA Extended ==
    ASSUME NEW v, HandlersHeld(v), NEW k \in 0..v.size - 1, NEW c \in Callback
    PROVE  /\ HandlersHeld(Put(v, k, WithCallback(v.array[k], c)))
           /\ Kept(Put(v, k, WithCallback(v.array[k], c)), v)
  <1> DEFINE h == WithCallback(v.array[k], c)
             w == Put(v, k, h)
  <1>1. /\ v.block \in Nat /\ v.capcity \in Nat /\ v.size \in Nat
        /\ v.size <= v.capcity /\ IsVector(v, Cell)
    BY VectorParts DEF HandlersHeld
  <1>2. /\ IsHandler(h) /\ h.node = v.array[k].node
        /\ h.callbacks.size = v.array[k].callbacks.size + 1
    <2>1. IsHandler(v.array[k])
      BY DEF HandlersHeld
    <2>2. QED BY <2>1, CallbackAdded
  <1> HIDE DEF h
  <1>3. /\ IsVector(w, Cell) /\ w.size = v.size /\ w.capcity = v.capcity
        /\ w.block = v.block /\ w.array[k] = h
        /\ \A j \in 0..v.capcity - 1 : j # k => w.array[j] = v.array[j]
    <2>1. h \in Cell /\ k \in 0..v.capcity - 1
      BY <1>1, <1>2 DEF Cell, IsHandler
    <2>2. QED BY <1>1, <2>1, PutElement
  <1> HIDE DEF w
  <1>4. \A j \in 0..v.size - 1 : /\ IsHandler(w.array[j])
                                 /\ w.array[j].node = v.array[j].node
    <2>1. \A j \in 0..v.size - 1 : j \in 0..v.capcity - 1
      BY <1>1
    <2>2. QED BY <1>2, <1>3, <2>1 DEF HandlersHeld
  <1>5. HandlersHeld(w)
    BY <1>3, <1>4 DEF HandlersHeld
  <1>6. ASSUME NEW i \in 0..v.size - 1
        PROVE  w.array[i].callbacks.size >= v.array[i].callbacks.size
    <2>1. v.array[i].callbacks.size \in Nat /\ i \in 0..v.capcity - 1
      BY <1>1, VectorParts DEF HandlersHeld, IsHandler
    <2>2. QED BY <1>2, <1>3, <2>1
  <1>7. Kept(w, v)
    BY <1>1, <1>3, <1>6 DEF Kept
  <1>8. QED BY <1>5, <1>7 DEF w, h

\* xmlparser_register_node_callback on the handlers.
LEMMA RegisterHolds ==
    ASSUME HandlersHeld(handlers), NEW p \in Path, NEW c \in Callback,
           Register(p, c)
    PROVE  HandlersHeld(handlers') /\ Kept(handlers', handlers)
  <1> DEFINE i == get_handler(p)
  <1>1. p \in Seq(Nat)
    BY XmlParserAssumption, NoZeros
  <1>2. handlers' = IF i = -1
                    THEN vector_insert(handlers, NewHandler(p, c))
                    ELSE Put(handlers, i, WithCallback(handlers.array[i], c))
    BY DEF Register
  <1>3. CASE i = -1
    <2>1. \A k \in 0..handlers.size - 1 : Bytes(handlers.array[k].node) # p
      BY <1>3, HandlerFound
    <2>2. IsHandler(NewHandler(p, c)) /\ Bytes(NewHandler(p, c).node) = p
      BY <1>1, HandlerMade
    <2>3. QED BY <1>2, <1>3, <2>1, <2>2, Inserted
  <1>4. CASE i # -1
    <2>1. i \in 0..handlers.size - 1
      BY <1>4, HandlerFound
    <2> HIDE DEF i
    <2>2. QED BY <1>2, <1>4, <2>1, Extended
  <1>5. QED BY <1>3, <1>4

-----------------------------------------------------------------------------
(* The invocations of travel.                                               *)

Frames == [cur_node : Nat, cur_path : StringRecs]

\* The node whose children invocation k of s visits, and the path before them.
Owner(s, k) == IF k = 1 THEN NULL ELSE s[k - 1].cur_node
PathBelow(o) == IF o = NULL THEN Slash ELSE FullPath[o] \o Slash

Short == \A n \in Nodes : /\ Len(ParentPath(n)) < NodePathCap
                          /\ Len(Name(n)) + 1 < NodePathCap

FrameHeld(f, o) ==
    /\ f \in Frames /\ f.cur_node \in 0..Final
    /\ f.cur_node # NULL => doc.parent[f.cur_node] = o
    /\ WellFormed(f.cur_path) /\ Bytes(f.cur_path) = PathBelow(o)
    /\ Short => Terminated(f.cur_path)

\* Every invocation was made at an element, by the one before.
FramesHeld(s) ==
    /\ s \in Seq(Frames)
    /\ \A k \in 1..Len(s) : FrameHeld(s[k], Owner(s, k))
    /\ \A k \in 1..Len(s) : k < Len(s) => /\ s[k].cur_node # NULL
                                          /\ IsElement(s[k].cur_node)

\* The first node that has not been looked at.
PosOf(s) == IF s = <<>> THEN Final + 1
            ELSE IF s[Len(s)].cur_node # NULL THEN s[Len(s)].cur_node
            ELSE After(Owner(s, Len(s)))

\* The document itself stands before its nodes and above them all.
LEMMA Root ==
    ASSUME IsDocument(doc)
    PROVE  /\ NULL \in 0..Final /\ After(NULL) = Final + 1
           /\ \A n \in 0..Final : n # NULL <=> n \in Nodes
  <1>1. /\ Final \in Nat /\ Nodes = 1..Final
        /\ \A n \in Nodes : doc.parent[n] \in Nat
    BY DocIs
  <1>2. Behind(NULL) = {}
    BY <1>1 DEF Behind, NULL
  <1>3. QED BY <1>1, <1>2 DEF After, NULL

\* What the invariant says of the innermost invocation.
LEMMA Innermost ==
    ASSUME IsDocument(doc), NEW s, FramesHeld(s), s # <<>>
    PROVE  /\ Len(s) \in Nat /\ Len(s) >= 1 /\ Len(s) \in 1..Len(s)
           /\ FrameHeld(s[Len(s)], Owner(s, Len(s)))
           /\ Owner(s, Len(s)) \in 0..Final
           /\ Owner(s, Len(s)) # NULL => IsElement(Owner(s, Len(s)))
  <1>1. s \in Seq(Frames) /\ Len(s) \in Nat /\ Len(s) >= 1
    BY DEF FramesHeld
  <1>2. FrameHeld(s[Len(s)], Owner(s, Len(s)))
    BY <1>1 DEF FramesHeld
  <1>3. CASE Len(s) = 1
    BY <1>1, <1>2, <1>3, Root DEF Owner
  <1>4. CASE Len(s) # 1
    <2>1. Len(s) - 1 \in 1..Len(s) /\ Len(s) - 1 < Len(s)
      BY <1>1, <1>4
    <2> DEFINE g == s[Len(s) - 1]
    <2>2. FrameHeld(g, Owner(s, Len(s) - 1)) /\ IsElement(g.cur_node)
      BY <2>1 DEF FramesHeld
    <2>3. Owner(s, Len(s)) = g.cur_node
      BY <1>4 DEF Owner
    <2>4. QED BY <1>1, <1>2, <2>2, <2>3 DEF FrameHeld
  <1>5. QED BY <1>3, <1>4

\* The path before the name of a node an invocation is at.
LEMMA PathOfParent ==
    ASSUME IsDocument(doc), NEW n \in Nodes
    PROVE  PathBelow(doc.parent[n]) = ParentPath(n)
  BY DEF PathBelow, ParentPath, NULL

\* A parse begins at the root element.
LEMMA Begun ==
    ASSUME IsDocument(doc), NEW s,
           s = <<[cur_node |-> FirstChild(0), cur_path |-> string_new(Slash)]>>
    PROVE  /\ FramesHeld(s) /\ PosOf(s) = 1 /\ s # <<>> /\ Len(s) = 1
           /\ Owner(s, 1) = NULL
  <1> DEFINE f == [cur_node |-> FirstChild(0), cur_path |-> string_new(Slash)]
  <1>1. Final \in Nat /\ Nodes = 1..Final /\ 0 \in 0..Final
    BY DocIs
  <1>2. /\ FirstChild(0) = NULL => After(0) = 1
        /\ FirstChild(0) # NULL => FirstChild(0) = 1 /\ 1 \in Nodes
                                   /\ doc.parent[1] = 0
    BY <1>1, FirstChildIs
  <1>3. WellFormed(string_new(Slash)) /\ Bytes(string_new(Slash)) = Slash
        /\ Terminated(string_new(Slash))
    BY SlashEnds
  <1>4. f \in Frames /\ f.cur_node = FirstChild(0) /\ f.cur_node \in 0..Final
        /\ f.cur_path = string_new(Slash)
    <2>1. FirstChild(0) \in 0..Final
      BY <1>1, <1>2 DEF NULL
    <2>2. string_new(Slash) \in StringRecs
      BY <1>3 DEF WellFormed, StringRecs
    <2>3. QED BY <1>1, <2>1, <2>2 DEF Frames
  <1> HIDE DEF f
  <1>5. FrameHeld(f, NULL)
    BY <1>2, <1>3, <1>4 DEF FrameHeld, PathBelow, NULL
  <1>6. s = <<f>> /\ s \in Seq(Frames) /\ Len(s) = 1 /\ s[1] = f /\ s # <<>>
    BY <1>4 DEF f
  <1>7. Owner(s, 1) = NULL
    BY DEF Owner
  <1>8. FramesHeld(s)
    BY <1>5, <1>6, <1>7 DEF FramesHeld
  <1>9. PosOf(s) = 1
    BY <1>2, <1>4, <1>6, <1>7 DEF PosOf, NULL
  <1>10. QED BY <1>6, <1>7, <1>8, <1>9

\* The loop of the innermost invocation goes on: behind the subtree.
LEMMA AdvancedHeld ==
    ASSUME IsDocument(doc), NEW s, FramesHeld(s), s # <<>>,
           s[Len(s)].cur_node # NULL
    PROVE  /\ FramesHeld(Advanced(s)) /\ Advanced(s) # <<>>
           /\ Len(Advanced(s)) = Len(s)
           /\ \A k \in 1..Len(s) : Owner(Advanced(s), k) = Owner(s, k)
           /\ PosOf(Advanced(s)) = After(s[Len(s)].cur_node)
  <1> DEFINE L == Len(s)
             n == s[L].cur_node
             t == Advanced(s)
             m == NextSibling(n)
             f == [cur_node |-> m, cur_path |-> s[L].cur_path]
  <1>1. /\ L \in Nat /\ L >= 1 /\ L \in 1..L /\ s \in Seq(Frames)
        /\ FrameHeld(s[L], Owner(s, L))
    BY Innermost DEF FramesHeld
  <1>2. /\ n \in 0..Final /\ n \in Nodes /\ doc.parent[n] = Owner(s, L)
        /\ s[L] \in Frames
    BY <1>1, Root DEF FrameHeld
  <1>3. Final \in Nat /\ Nodes = 1..Final
    BY DocIs
  <1>4. /\ m = NULL => After(n) = After(doc.parent[n])
        /\ m # NULL => m = After(n) /\ After(n) \in Nodes
                       /\ doc.parent[After(n)] = doc.parent[n]
    BY <1>2, NextSiblingIs
  <1>5. m \in 0..Final
    BY <1>3, <1>4 DEF NULL
  <1>6. t = [s EXCEPT ![L] = f]
    <2>1. s[L] = [cur_node |-> n, cur_path |-> s[L].cur_path]
      BY <1>2 DEF Frames
    <2> DEFINE g == [s[L] EXCEPT !.cur_node = m]
    <2>2. g = f
      BY <2>1
    <2>3. t = [s EXCEPT ![L] = g]
      BY DEF Advanced
    <2> HIDE DEF f, g
    <2>4. QED BY <2>2, <2>3
  <1>7. f \in Frames /\ f.cur_node = m /\ f.cur_path = s[L].cur_path
    BY <1>2, <1>3, <1>5 DEF Frames
  <1> HIDE DEF f, m
  <1>8. FrameHeld(f, Owner(s, L))
    BY <1>1, <1>2, <1>4, <1>5, <1>7 DEF FrameHeld
  <1>9. /\ t \in Seq(Frames) /\ Len(t) = L /\ t[L] = f /\ t # <<>>
        /\ \A k \in 1..L : k # L => t[k] = s[k]
    BY <1>1, <1>6, <1>7
  <1> HIDE DEF t, L
  <1>10. ASSUME NEW k \in 1..L PROVE Owner(t, k) = Owner(s, k)
    <2>1. CASE k = 1
      BY <2>1 DEF Owner
    <2>2. CASE k # 1
      <3>1. k - 1 \in 1..L /\ k - 1 # L
        BY <1>1, <2>2
      <3>2. QED BY <1>9, <2>2, <3>1 DEF Owner
    <2>3. QED BY <2>1, <2>2
  <1>11. FramesHeld(t)
    <2>1. ASSUME NEW k \in 1..L PROVE FrameHeld(t[k], Owner(t, k))
      <3>1. CASE k = L
        BY <1>8, <1>9, <1>10, <3>1
      <3>2. CASE k # L
        BY <1>9, <1>10, <3>2 DEF FramesHeld, L
      <3>3. QED BY <3>1, <3>2
    <2>2. ASSUME NEW k \in 1..L, k < L
          PROVE  t[k].cur_node # NULL /\ IsElement(t[k].cur_node)
      <3>1. t[k] = s[k]
        BY <1>1, <1>9, <2>2
      <3>2. QED BY <2>2, <3>1 DEF FramesHeld, L
    <2>3. QED BY <1>9, <2>1, <2>2 DEF FramesHeld
  <1>12. PosOf(t) = After(n)
    BY <1>1, <1>2, <1>4, <1>7, <1>9, <1>10 DEF PosOf
  <1>13. QED BY <1>9, <1>10, <1>11, <1>12 DEF t, L

\* The innermost invocation returns.
LEMMA FrontHeld ==
    ASSUME IsDocument(doc), NEW s, FramesHeld(s), s # <<>>
    PROVE  /\ FramesHeld(Front(s)) /\ Len(Front(s)) = Len(s) - 1
           /\ \A k \in 1..Len(s) - 1 : /\ Front(s)[k] = s[k]
                                       /\ Owner(Front(s), k) = Owner(s, k)
           /\ Front(s) = <<>> <=> Len(s) = 1
  <1> DEFINE L == Len(s)
             t == Front(s)
  <1>1. L \in Nat /\ L >= 1 /\ s \in Seq(Frames)
    BY Innermost DEF FramesHeld
  <1>2. t = SubSeq(s, 1, L - 1)
    BY DEF Front
  <1>3. t \in Seq(Frames) /\ Len(t) = L - 1 /\ \A k \in 1..L - 1 : t[k] = s[k]
    <2>1. L - 1 \in 0..L
      BY <1>1
    <2>2. /\ SubSeq(s, 1, L - 1) \in Seq(Frames) /\ Len(SubSeq(s, 1, L - 1)) = L - 1
          /\ \A k \in 1..L - 1 : SubSeq(s, 1, L - 1)[k] = s[k]
      BY <1>1, <2>1, Beginning
    <2> HIDE DEF t
    <2>3. QED BY <1>2, <2>2
  <1>4. t = <<>> <=> L = 1
    BY <1>3
  <1> HIDE DEF t
  <1>5. ASSUME NEW k \in 1..L - 1 PROVE Owner(t, k) = Owner(s, k)
    <2>1. CASE k = 1
      BY <2>1 DEF Owner
    <2>2. CASE k # 1
      <3>1. k - 1 \in 1..L - 1
        BY <1>1, <2>2
      <3>2. QED BY <1>3, <2>2, <3>1 DEF Owner
    <2>3. QED BY <2>1, <2>2
  <1>6. ASSUME NEW k \in 1..L - 1
        PROVE  /\ FrameHeld(t[k], Owner(t, k)) /\ t[k].cur_node # NULL
               /\ IsElement(t[k].cur_node)
    <2>1. k \in 1..L /\ k < L
      BY <1>1
    <2>2. QED BY <1>3, <1>5, <2>1 DEF FramesHeld
  <1>7. FramesHeld(t)
    BY <1>3, <1>6 DEF FramesHeld
  <1>8. QED BY <1>3, <1>4, <1>5, <1>7 DEF t

\* The frames t are those of s with one for the children of element n, whose
\* path is q.
Pushed(t, s, n, q) ==
    /\ FramesHeld(s) /\ s # <<>> /\ n = s[Len(s)].cur_node
    /\ n # NULL /\ IsElement(n)
    /\ WellFormed(q) /\ Bytes(q) = PathBelow(n) /\ (Short => Terminated(q))
    /\ t = Append(s, [cur_node |-> FirstChild(n), cur_path |-> q])

\* An invocation for the children of the node the innermost one is at.
LEMMA PushedHeld ==
    ASSUME IsDocument(doc), NEW t, NEW s, NEW n, NEW q, Pushed(t, s, n, q)
    PROVE  /\ FramesHeld(t) /\ t # <<>> /\ Len(t) = Len(s) + 1
           /\ \A k \in 1..Len(s) : Owner(t, k) = Owner(s, k)
           /\ Owner(t, Len(t)) = n
           /\ PosOf(t) = n + 1
  <1> DEFINE L == Len(s)
             m == FirstChild(n)
             f == [cur_node |-> m, cur_path |-> q]
  <1>0. /\ FramesHeld(s) /\ s # <<>> /\ n = s[Len(s)].cur_node
        /\ n # NULL /\ IsElement(n)
        /\ WellFormed(q) /\ Bytes(q) = PathBelow(n) /\ (Short => Terminated(q))
        /\ t = Append(s, f)
    BY DEF Pushed
  <1>1. /\ L \in Nat /\ L >= 1 /\ L \in 1..L /\ s \in Seq(Frames)
        /\ FrameHeld(s[L], Owner(s, L))
    BY <1>0, Innermost DEF FramesHeld
  <1>2. n \in 0..Final /\ n \in Nodes
    BY <1>0, <1>1, Root DEF FrameHeld
  <1>3. Final \in Nat /\ Nodes = 1..Final
    BY DocIs
  <1>4. /\ m = NULL => After(n) = n + 1
        /\ m # NULL => m = n + 1 /\ n + 1 \in Nodes /\ doc.parent[n + 1] = n
    BY <1>0, <1>2, FirstChildIs
  <1>5. m \in 0..Final
    BY <1>3, <1>4 DEF NULL
  <1>6. f \in Frames /\ f.cur_node = m /\ f.cur_path = q
    <2>1. q \in StringRecs
      BY <1>0 DEF WellFormed, StringRecs
    <2>2. QED BY <1>3, <1>5, <2>1 DEF Frames
  <1> HIDE DEF f, m
  <1>7. FrameHeld(f, n)
    BY <1>0, <1>4, <1>5, <1>6 DEF FrameHeld
  <1>8. /\ t \in Seq(Frames) /\ Len(t) = L + 1 /\ t[L + 1] = f /\ t # <<>>
        /\ \A k \in 1..L : t[k] = s[k]
    BY <1>0, <1>1, <1>6
  <1>n. n = s[L].cur_node
    BY <1>0
  <1> HIDE DEF L
  <1>9. ASSUME NEW k \in 1..L PROVE Owner(t, k) = Owner(s, k)
    <2>1. CASE k = 1
      BY <2>1 DEF Owner
    <2>2. CASE k # 1
      <3>1. k - 1 \in 1..L
        BY <1>1, <2>2
      <3>2. QED BY <1>8, <2>2, <3>1 DEF Owner
    <2>3. QED BY <2>1, <2>2
  <1>10. Owner(t, L + 1) = n
    <2>1. L + 1 # 1 /\ (L + 1) - 1 = L
      BY <1>1
    <2>2. QED BY <1>1, <1>8, <1>n, <2>1 DEF Owner
  <1>11. ASSUME NEW k \in 1..Len(t)
         PROVE  /\ FrameHeld(t[k], Owner(t, k))
                /\ k < Len(t) => t[k].cur_node # NULL /\ IsElement(t[k].cur_node)
    <2>1. CASE k = L + 1
      BY <1>1, <1>7, <1>8, <1>10, <2>1
    <2>2. CASE k = L
      BY <1>0, <1>1, <1>8, <1>9, <2>2 DEF L
    <2>3. CASE k # L + 1 /\ k # L
      <3>1. k \in 1..L /\ k < L
        BY <1>1, <1>8, <2>3
      <3>2. QED BY <1>0, <1>8, <1>9, <3>1 DEF FramesHeld, L
    <2>4. QED BY <2>1, <2>2, <2>3
  <1>12. FramesHeld(t)
    BY <1>8, <1>11 DEF FramesHeld
  <1>13. PosOf(t) = n + 1
    BY <1>1, <1>4, <1>6, <1>8, <1>10 DEF PosOf
  <1>14. QED BY <1>8, <1>9, <1>10, <1>12, <1>13 DEF L

-----------------------------------------------------------------------------
(* The calls that are due.                                                  *)

Calls == [node : Nat, func : Func]

\* A node that is an element has the handler of its path or else of its name,
\* and no other; other nodes have none.
HandlerOf(n) == IF get_handler(FullPath[n]) # -1 THEN get_handler(FullPath[n])
                ELSE get_handler(Name(n))

HandlersFor(p) == {i \in DOMAIN Elements(handlers) :
                      Bytes(Elements(handlers)[i].node) = p}

\* get_handler finds the one handler of a path.
LEMMA HandlersForIs ==
    ASSUME HandlersHeld(handlers), NEW p
    PROVE  HandlersFor(p) = IF get_handler(p) = -1 THEN {}
                            ELSE {get_handler(p) + 1}
  <1> DEFINE h == get_handler(p)
  <1>1. /\ IsVector(handlers, Cell) /\ handlers.size \in Nat
        /\ DOMAIN Elements(handlers) = 1..handlers.size
        /\ \A i \in 1..handlers.size : Elements(handlers)[i] = handlers.array[i - 1]
    BY VectorParts, ElementsIs DEF HandlersHeld
  <1>2. /\ h # -1 => /\ h \in 0..handlers.size - 1
                     /\ Bytes(handlers.array[h].node) = p
        /\ h = -1 => \A i \in 0..handlers.size - 1 :
                        Bytes(handlers.array[i].node) # p
    BY HandlerFound
  <1> HIDE DEF h
  <1>3. HandlersFor(p) = {i \in 1..handlers.size :
                            Bytes(handlers.array[i - 1].node) = p}
    BY <1>1 DEF HandlersFor
  <1>4. \A i \in 1..handlers.size : i - 1 \in 0..handlers.size - 1
    BY <1>1
  <1>5. CASE h = -1
    BY <1>2, <1>3, <1>4, <1>5 DEF h
  <1>6. CASE h # -1
    <2>1. \A i \in 1..handlers.size :
             Bytes(handlers.array[i - 1].node) = p => i - 1 = h
      BY <1>2, <1>4, <1>6 DEF HandlersHeld
    <2>2. h + 1 \in 1..handlers.size /\ (h + 1) - 1 = h
      BY <1>1, <1>2, <1>6
    <2>3. \A i \in 1..handlers.size :
             Bytes(handlers.array[i - 1].node) = p <=> i = h + 1
      BY <1>1, <1>2, <1>6, <2>1, <2>2
    <2>4. HandlersFor(p) = {h + 1}
      BY <1>3, <2>2, <2>3
    <2>5. QED BY <1>6, <2>4 DEF h
  <1>7. QED BY <1>5, <1>6

\* Handler finds the handlers that are meant for a node.
LEMMA HandlersOfIs ==
    ASSUME HandlersHeld(handlers), NEW n \in Nodes
    PROVE  /\ ~IsElement(n) => HandlersOf(n) = {}
           /\ IsElement(n) => HandlersOf(n) = IF HandlerOf(n) = -1 THEN {}
                                              ELSE {HandlerOf(n) + 1}
  <1>1. HandlersOf(n) = IF ~IsElement(n) THEN {}
                        ELSE IF HandlersFor(FullPath[n]) # {}
                             THEN HandlersFor(FullPath[n])
                             ELSE HandlersFor(Name(n))
    BY DEF HandlersOf, HandlersFor
  <1>2. QED BY <1>1, HandlersForIs DEF HandlerOf

\* The calls for a handler are as many as its callbacks.
CallsFor(n, h) == [j \in 1..handlers.array[h].callbacks.size |->
                     [node |-> n, func |-> handlers.array[h].callbacks.array[j - 1]]]

\* They are calls.
LEMMA CallsForType ==
    ASSUME HandlersHeld(handlers), NEW n \in Nat, NEW h \in 0..handlers.size - 1
    PROVE  /\ handlers.array[h].callbacks.size \in Nat
           /\ CallsFor(n, h) \in Seq(Calls)
           /\ Len(CallsFor(n, h)) = handlers.array[h].callbacks.size
  <1> DEFINE v == handlers.array[h].callbacks
  <1>1. IsVector(v, Func)
    BY DEF HandlersHeld, IsHandler
  <1> HIDE DEF v
  <1>2. v.size \in Nat /\ \A i \in 0..v.size - 1 : v.array[i] \in Func
    BY <1>1, VectorParts
  <1>3. \A j \in 1..v.size : j - 1 \in 0..v.size - 1
    BY <1>2
  <1>4. \A j \in 1..v.size : [node |-> n, func |-> v.array[j - 1]] \in Calls
    BY <1>2, <1>3 DEF Calls
  <1>5. CallsFor(n, h) = [j \in 1..v.size |-> [node |-> n, func |-> v.array[j - 1]]]
    BY DEF CallsFor, v
  <1>6. CallsFor(n, h) \in [1..v.size -> Calls]
    BY <1>4, <1>5
  <1>7. QED BY <1>2, <1>6, FunctionIsSeq DEF v

\* The calls for a node with one handler are that handler's.
LEMMA CallsAtIs ==
    ASSUME HandlersHeld(handlers), NEW n \in Nat
    PROVE  /\ handlers.size \in Nat
           /\ CallsAt(n) \in [1..handlers.size -> Seq(Calls)]
           /\ \A h \in 0..handlers.size - 1 :
                 HandlersOf(n) = {h + 1} =>
                    FlattenSeq(CallsAt(n)) = CallsFor(n, h)
  <1> DEFINE g == CallsAt(n)
             N == handlers.size
  <1>1. /\ IsVector(handlers, Cell) /\ N \in Nat
        /\ DOMAIN Elements(handlers) = 1..N
        /\ \A i \in 1..N : Elements(handlers)[i] = handlers.array[i - 1]
    BY VectorParts, ElementsIs DEF HandlersHeld
  <1>2. g = [i \in 1..N |-> IF i \notin HandlersOf(n) THEN <<>>
                             ELSE CallsFor(n, i - 1)]
    BY <1>1 DEF CallsAt, CallsFor
  <1>3. \A i \in 1..N : i - 1 \in 0..N - 1
    BY <1>1
  <1>4. \A i \in 1..N : CallsFor(n, i - 1) \in Seq(Calls)
    BY <1>3, CallsForType
  <1>5. g \in [1..N -> Seq(Calls)]
    BY <1>2, <1>4
  <1>6. ASSUME NEW h \in 0..N - 1, HandlersOf(n) = {h + 1}
        PROVE  FlattenSeq(g) = CallsFor(n, h)
    <2>1. h + 1 \in 1..N /\ (h + 1) - 1 = h
      BY <1>1
    <2>2. \A i \in 1..N : i # h + 1 => g[i] = <<>>
      BY <1>2, <1>6
    <2>3. g[h + 1] = CallsFor(n, h)
      <3>1. g[h + 1] = CallsFor(n, (h + 1) - 1)
        BY <1>2, <1>6, <2>1
      <3>2. QED BY <2>1, <3>1
    <2> HIDE DEF g, N
    <2>4. FlattenSeq(g) = g[h + 1]
      <3>1. PICK i \in 1..N : i = h + 1
        BY <2>1
      <3>2. \A k \in 1..N : k # i => g[k] = <<>>
        BY <2>2, <3>1
      <3>3. N \in Nat /\ g \in [1..N -> Seq(Calls)]
        BY <1>1, <1>5 DEF N, g
      <3>4. FlattenSeq(g) = g[i]
        BY <3>2, <3>3, FlattenOne, ZenonT(40)
      <3>5. QED BY <3>1, <3>4
    <2>5. QED BY <2>3, <2>4
  <1>7. QED BY <1>1, <1>5, <1>6

\* What is due is due node by node, in document order.
LEMMA DueIs ==
    ASSUME IsDocument(doc), HandlersHeld(handlers)
    PROVE  /\ Due \in [1..Final -> Seq(Calls)]
           /\ \A n \in Nodes : ~DueAt(n) => Due[n] = <<>>
           /\ \A n \in Nodes, h \in 0..handlers.size - 1 :
                 DueAt(n) /\ HandlersOf(n) = {h + 1} => Due[n] = CallsFor(n, h)
           /\ Expected = Firsts(Due, Final)
  <1>1. Final \in Nat /\ Nodes = 1..Final
    BY DocIs
  <1>2. Due = [n \in Nodes |-> IF DueAt(n) THEN FlattenSeq(CallsAt(n)) ELSE <<>>]
    BY DEF Due
  <1>3. ASSUME NEW n \in Nodes PROVE FlattenSeq(CallsAt(n)) \in Seq(Calls)
    <2> DEFINE g == CallsAt(n)
               N == handlers.size
    <2>1. N \in Nat /\ g \in [1..N -> Seq(Calls)]
      BY <1>1, CallsAtIs
    <2> HIDE DEF g, N
    <2>2. FlattenSeq(g) = Firsts(g, N) /\ Firsts(g, N) \in Seq(Calls)
      <3>1. /\ Firsts(g, N) = FlattenSeq(g)
            /\ \A k \in 0..N : Firsts(g, k) \in Seq(Calls)
        BY <2>1, FirstsAre
      <3>2. N \in 0..N
        BY <2>1
      <3>3. QED BY <3>1, <3>2
    <2>3. QED BY <2>2 DEF g
  <1>4. Due \in [1..Final -> Seq(Calls)]
    BY <1>1, <1>2, <1>3
  <1>5. ASSUME NEW n \in Nodes, NEW h \in 0..handlers.size - 1, DueAt(n),
               HandlersOf(n) = {h + 1}
        PROVE  Due[n] = CallsFor(n, h)
    BY <1>1, <1>2, <1>5, CallsAtIs
  <1>6. \A n \in Nodes : ~DueAt(n) => Due[n] = <<>>
    BY <1>2
  <1>7. Expected = Firsts(Due, Final)
    BY <1>1, <1>4, FirstsAre DEF Expected
  <1>8. QED BY <1>4, <1>5, <1>6, <1>7

\* No node above the children of node o has a handler.
Uncovered(o) ==
    \A m \in Nodes : m = o \/ (o # NULL /\ IsAncestor(m, o)) => HandlersOf(m) = {}

\* Below parents without a handler, a node's calls are due if it has one.
LEMMA DueWhenUncovered ==
    ASSUME IsDocument(doc), NEW n \in Nodes, Uncovered(doc.parent[n])
    PROVE  /\ DueAt(n) <=> HandlersOf(n) # {}
           /\ HandlersOf(n) = {} => Uncovered(n)
  <1>1. /\ \A m \in Nodes : IsAncestor(m, n) <=>
                 \/ doc.parent[n] = m
                 \/ doc.parent[n] # 0 /\ IsAncestor(m, doc.parent[n])
    BY AncestorIs
  <1>2. \A m \in Nodes : IsAncestor(m, n) => HandlersOf(m) = {}
    BY <1>1 DEF Uncovered, NULL
  <1>3. QED BY <1>2 DEF DueAt, Uncovered

\* Inside of a node that has a handler nothing is due.
LEMMA NothingInside ==
    ASSUME IsDocument(doc), HandlersHeld(handlers), NEW n \in Nodes,
           HandlersOf(n) # {}
    PROVE  Firsts(Due, After(n) - 1) = Firsts(Due, n)
  <1>1. Final \in Nat /\ Nodes = 1..Final
    BY DocIs
  <1>2. After(n) \in Nat /\ n < After(n) /\ After(n) <= Final + 1
    BY <1>1, AfterIs
  <1>3. ASSUME NEW k \in n + 1..After(n) - 1 PROVE Due[k] = <<>>
    <2>1. k \in Nodes /\ n < k /\ k < After(n)
      BY <1>1, <1>2
    <2>2. IsAncestor(n, k)
      BY <2>1, DescendantsAre
    <2>3. ~DueAt(k)
      BY <2>2 DEF DueAt
    <2>4. QED BY <2>1, <2>3, DueIs
  <1>4. n \in 0..Final /\ After(n) - 1 \in n..Final
    BY <1>1, <1>2
  <1>5. Due \in [1..Final -> Seq(Calls)]
    BY DueIs
  <1>6. QED BY <1>1, <1>3, <1>4, <1>5, FirstsStay

\* A node without a handler adds nothing.
LEMMA NothingAt ==
    ASSUME IsDocument(doc), HandlersHeld(handlers), NEW n \in Nodes,
           HandlersOf(n) = {}
    PROVE  Firsts(Due, n) = Firsts(Due, n - 1)
  <1>1. Final \in Nat /\ Nodes = 1..Final
    BY DocIs
  <1>2. Due[n] = <<>>
    BY DueIs DEF DueAt
  <1>3. n - 1 \in 0..Final /\ n \in n - 1..Final /\ \A k \in n - 1 + 1..n : k = n
    BY <1>1
  <1>4. \A k \in n - 1 + 1..n : Due[k] = <<>>
    BY <1>2, <1>3
  <1>5. Due \in [1..Final -> Seq(Calls)]
    BY DueIs
  <1>6. PICK b \in 0..Final : b = n - 1
    BY <1>3
  <1>7. n \in b..Final /\ \A k \in b + 1..n : Due[k] = <<>>
    BY <1>3, <1>4, <1>6
  <1>8. Firsts(Due, n) = Firsts(Due, b)
    BY <1>1, <1>5, <1>7, FirstsStay
  <1>9. QED BY <1>6, <1>8

-----------------------------------------------------------------------------
(* The invariant.                                                           *)

\* What travel makes of the node it is at.
LEMMA NodePathIs ==
    ASSUME IsDocument(doc), FramesHeld(stack), stack # <<>>, Node # NULL
    PROVE  /\ Node \in Nodes
           /\ Bytes(NodePath) = FullPath[Node] /\ Handler = HandlerOf(Node)
           /\ WellFormed(string_append(NodePath, Slash))
           /\ Bytes(string_append(NodePath, Slash)) = PathBelow(Node)
           /\ Short => /\ Readable
                       /\ Terminated(string_append(NodePath, Slash))
  <1> DEFINE n == Node
             p == ParentPath(n)
             q == Name(n)
             b == string_blank(NodePathCap)
             s == string_append(b, p)
             t == string_append(s, q)
  <1>1. FrameHeld(Frame, Owner(stack, Len(stack)))
    BY Innermost DEF Frame
  <1>2. n \in Nodes /\ doc.parent[n] = Owner(stack, Len(stack))
    BY <1>1, Root DEF FrameHeld, Node
  <1>3. p \in Seq(Nat) /\ q \in Seq(Nat) /\ FullPath[n] = p \o q
    BY <1>2, FullPathIs, DocIs
  <1>4. Bytes(Frame.cur_path) = p
    BY <1>1, <1>2, PathOfParent DEF FrameHeld
  <1>5. NodePathCap \in Nat \ {0} /\ Slash \in Seq(Nat)
    BY XmlParserAssumption DEF Slash
  <1>6. NodePath = t
    BY <1>4 DEF NodePath
  <1>7. t = PathWithName(NodePathCap, p, q)
    BY DEF PathWithName
  <1>8. n # NULL
    OBVIOUS
  <1> HIDE DEF n, p, q
  <1>9. WellFormed(b) /\ Bytes(b) = <<>>
    BY <1>5, BlankWellFormed
  <1> HIDE DEF b
  <1>10. WellFormed(s) /\ Bytes(s) = p
    <2>1. WellFormed(s) /\ Bytes(s) = <<>> \o p
      BY <1>3, <1>9, AppendKeeps
    <2>2. <<>> \o p = p
      BY <1>3
    <2>3. QED BY <2>1, <2>2
  <1> HIDE DEF s
  <1>11. WellFormed(t) /\ Bytes(t) = FullPath[n]
    BY <1>3, <1>10, AppendKeeps
  <1> HIDE DEF t
  <1>12. /\ WellFormed(string_append(t, Slash))
         /\ Bytes(string_append(t, Slash)) = PathBelow(n)
    BY <1>5, <1>8, <1>11, AppendKeeps DEF PathBelow
  <1>13. ASSUME Short
         PROVE  Readable /\ Terminated(string_append(t, Slash))
    <2>1. Len(p) < NodePathCap /\ Len(q) + 1 < NodePathCap
      BY <1>2, <1>13 DEF Short, p, q
    <2>2. Terminated(t) /\ Terminated(string_append(t, Slash))
      BY <1>3, <1>5, <1>7, <2>1, ShortPathsEnd
    <2>3. Terminated(Frame.cur_path)
      BY <1>1, <1>13 DEF FrameHeld
    <2>4. QED BY <1>6, <2>2, <2>3 DEF Readable
  <1>14. Handler = HandlerOf(n)
    BY <1>6, <1>11 DEF Handler, HandlerOf, n
  <1>15. QED BY <1>2, <1>6, <1>11, <1>12, <1>13, <1>14 DEF n

\* The loop over the callbacks of a handler that was there when it began.
CallingHeld ==
    calling # NoCall =>
        /\ calling \in [handler : [block : Nat, at : Nat],
                        i : Nat, callback_num : Nat]
        /\ stack # <<>> /\ Node # NULL
        /\ calling.handler.block <= handlers.block
        /\ calling.handler.at < handlers.size
        /\ calling.i <= calling.callback_num
        /\ calling.callback_num <= handlers.array[calling.handler.at].callbacks.size

\* The calls lg for nodes before p, none inside of another, and, if one is
\* busy there, for p itself.
LogUpTo(lg, p, busy) ==
    /\ lg \in Seq(Calls)
    /\ \A i \in DOMAIN lg : /\ lg[i].node \in Nodes
                            /\ \/ After(lg[i].node) <= p
                               \/ busy /\ lg[i].node = p
    /\ \A i, j \in DOMAIN lg :
          i < j => lg[i].node = lg[j].node \/ After(lg[i].node) <= lg[j].node

LogHeld == LogUpTo(log, PosOf(stack), calling # NoCall)

\* The calls that are due so far, those for node n as far as loop c has come.
CallsMade(lg, n, c) ==
    LET h == c.handler.at
    IN /\ HandlersOf(n) = {h + 1}
       /\ c.callback_num = handlers.array[h].callbacks.size
       /\ lg = Firsts(Due, n - 1) \o SubSeq(CallsFor(n, h), 1, c.i)

\* Without registrations the calls are those that are due so far.
QuietHeld ==
    quiet =>
        /\ \A k \in 1..Len(stack) : Uncovered(Owner(stack, k))
        /\ calling = NoCall => log = Firsts(Due, PosOf(stack) - 1)
        /\ calling # NoCall => CallsMade(log, PosOf(stack), calling)

PCore == /\ IsDocument(doc) /\ HandlersHeld(handlers) /\ FramesHeld(stack)
         /\ CallingHeld /\ LogHeld /\ QuietHeld /\ quiet \in BOOLEAN

\* The primed invariant, from what a step makes of the variables.
LEMMA SameFrames ==
    ASSUME doc' = doc
    PROVE  /\ IsDocument(doc) => IsDocument(doc)'
           /\ FramesHeld(stack') => FramesHeld(stack)'
           /\ \A k : Owner(stack, k)' = Owner(stack', k)
           /\ PosOf(stack)' = PosOf(stack')
           /\ \A o : PathBelow(o)' = PathBelow(o)
  <1>1. IsDocument(doc) => IsDocument(doc)'
    BY DEF IsDocument
  <1>2. \A k : Owner(stack, k)' = Owner(stack', k)
    BY DEF Owner
  <1>3. \A o : PathBelow(o)' = PathBelow(o)
    BY SameDoc DEF PathBelow, NULL, Slash
  <1>4. Short' <=> Short
    BY SameDoc DEF Short, Name
  <1>5. FramesHeld(stack') => FramesHeld(stack)'
    BY <1>2, <1>3, <1>4, SameDoc
    DEF FramesHeld, FrameHeld, NULL, Frames, IsElement, Name, Bytes, WellFormed,
        Terminated
  <1>6. PosOf(stack)' = PosOf(stack')
    BY <1>2, SameDoc DEF PosOf, NULL
  <1>7. QED BY <1>1, <1>2, <1>3, <1>5, <1>6

\* The log after a step, ...
LEMMA SameLog ==
    ASSUME doc' = doc, NEW p, PosOf(stack') = p,
           LogUpTo(log', p, calling' # NoCall)
    PROVE  LogHeld'
  <1>1. PosOf(stack)' = p
    BY SameFrames
  <1>2. QED BY <1>1, SameDoc DEF LogHeld, LogUpTo, Calls, Func

\* ... what is due as long as no handler is registered, ...
LEMMA SameDue ==
    ASSUME doc' = doc, handlers' = handlers
    PROVE  /\ \A n : HandlersOf(n)' = HandlersOf(n)
           /\ Due' = Due
           /\ \A o : Uncovered(o)' <=> Uncovered(o)
           /\ \A lg, n, c : CallsMade(lg, n, c)' <=> CallsMade(lg, n, c)
           /\ HandlersHeld(handlers) => HandlersHeld(handlers)'
  <1>1. ASSUME NEW n PROVE HandlersOf(n)' = HandlersOf(n)
    BY SameDoc DEF HandlersOf, IsElement, Name
  <1>2. ASSUME NEW n PROVE DueAt(n)' <=> DueAt(n)
    BY <1>1, SameDoc DEF DueAt
  <1>3. ASSUME NEW n PROVE CallsAt(n)' = CallsAt(n)
    BY <1>1 DEF CallsAt
  <1>4. Due' = Due
    BY <1>2, <1>3, SameDoc DEF Due
  <1>5. ASSUME NEW o PROVE Uncovered(o)' <=> Uncovered(o)
    BY <1>1, SameDoc DEF Uncovered, NULL
  <1>6. ASSUME NEW n, NEW h PROVE CallsFor(n, h)' = CallsFor(n, h)
    BY DEF CallsFor
  <1>7. ASSUME NEW lg, NEW n, NEW c
        PROVE  CallsMade(lg, n, c)' <=> CallsMade(lg, n, c)
    BY <1>1, <1>4, <1>6 DEF CallsMade
  <1>8. HandlersHeld(handlers) => HandlersHeld(handlers)'
    BY DEF HandlersHeld
  <1>9. QED BY <1>1, <1>4, <1>5, <1>7, <1>8

\* ... and the calls of a parse after a step.
LEMMA SameQuiet ==
    ASSUME doc' = doc, handlers' = handlers, NEW p, PosOf(stack') = p,
           quiet' => /\ \A k \in 1..Len(stack') : Uncovered(Owner(stack', k))
                     /\ calling' = NoCall => log' = Firsts(Due, p - 1)
                     /\ calling' # NoCall => CallsMade(log', p, calling')
    PROVE  QuietHeld'
  <1> SUFFICES ASSUME quiet'
               PROVE  /\ (\A k \in 1..Len(stack) : Uncovered(Owner(stack, k)))'
                      /\ (calling = NoCall => log = Firsts(Due, PosOf(stack) - 1))'
                      /\ (calling # NoCall => CallsMade(log, PosOf(stack), calling))'
    BY DEF QuietHeld
  <1>1. /\ \A k : Owner(stack, k)' = Owner(stack', k) /\ PosOf(stack)' = p
        /\ Due' = Due /\ \A o : Uncovered(o)' <=> Uncovered(o)
        /\ \A lg, n, c : CallsMade(lg, n, c)' <=> CallsMade(lg, n, c)
    BY SameFrames, SameDue
  <1>2. ASSUME NEW k \in 1..Len(stack') PROVE Uncovered(Owner(stack, k))'
    <2>1. Uncovered(Owner(stack', k))
      OBVIOUS
    <2>2. QED BY <1>1, <2>1
  <1>3. Firsts(Due, PosOf(stack) - 1)' = Firsts(Due, p - 1)
    BY <1>1
  <1>4. CallsMade(log, PosOf(stack), calling)' <=> CallsMade(log', p, calling')
    BY <1>1
  <1>5. QED BY <1>2, <1>3, <1>4

\* The log when the traversal moves on, ...
LEMMA LogAdvances ==
    ASSUME IsDocument(doc), NEW lg, NEW p \in Nat, NEW q \in Nat, p <= q,
           LogUpTo(lg, p, FALSE), NEW busy
    PROVE  LogUpTo(lg, q, busy)
  <1>1. ASSUME NEW i \in DOMAIN lg PROVE After(lg[i].node) <= q
    <2>1. lg[i].node \in 0..Final
      BY DocIs DEF LogUpTo
    <2>2. After(lg[i].node) \in Nat /\ After(lg[i].node) <= p
      BY <2>1, AfterIs DEF LogUpTo
    <2>3. QED BY <2>2
  <1>2. QED BY <1>1 DEF LogUpTo

\* ... when the callbacks for a node have all been called, ...
LEMMA LogDone ==
    ASSUME IsDocument(doc), NEW lg, NEW p \in Nodes, LogUpTo(lg, p, TRUE)
    PROVE  LogUpTo(lg, After(p), FALSE)
  <1>1. p \in 0..Final /\ p \in Nat
    BY DocIs
  <1>2. After(p) \in Nat /\ p < After(p)
    BY <1>1, AfterIs
  <1>3. ASSUME NEW i \in DOMAIN lg PROVE After(lg[i].node) <= After(p)
    <2>1. lg[i].node \in 0..Final
      BY DocIs DEF LogUpTo
    <2>2. After(lg[i].node) \in Nat
      BY <2>1, AfterIs
    <2>3. After(lg[i].node) <= p \/ lg[i].node = p
      BY DEF LogUpTo
    <2>4. QED BY <1>1, <1>2, <2>2, <2>3
  <1>4. QED BY <1>3 DEF LogUpTo

\* ... and when one is called.
LEMMA LogMore ==
    ASSUME NEW lg, NEW p \in Nodes, LogUpTo(lg, p, TRUE), NEW c \in Calls,
           c.node = p
    PROVE  LogUpTo(Append(lg, c), p, TRUE)
  <1> DEFINE t == Append(lg, c)
             n == Len(lg)
  <1>1. lg \in Seq(Calls) /\ n \in Nat /\ DOMAIN lg = 1..n
    BY DEF LogUpTo
  <1>2. /\ t \in Seq(Calls) /\ DOMAIN t = 1..n + 1 /\ t[n + 1] = c
        /\ \A i \in 1..n : t[i] = lg[i]
    BY <1>1
  <1> HIDE DEF t
  <1>3. \A i \in 1..n + 1 : i \in 1..n \/ i = n + 1
    BY <1>1
  <1>4. \A i \in 1..n : /\ lg[i].node \in Nodes
                        /\ After(lg[i].node) <= p \/ lg[i].node = p
    BY <1>1 DEF LogUpTo
  <1>5. \A i \in 1..n + 1 : /\ t[i].node \in Nodes
                            /\ After(t[i].node) <= p \/ t[i].node = p
    BY <1>2, <1>3, <1>4
  <1>6. ASSUME NEW i \in 1..n + 1, NEW j \in 1..n + 1, i < j
        PROVE  t[i].node = t[j].node \/ After(t[i].node) <= t[j].node
    <2>1. i \in 1..n
      BY <1>1, <1>6
    <2>2. CASE j \in 1..n
      BY <1>1, <1>2, <1>6, <2>1, <2>2 DEF LogUpTo
    <2>3. CASE j = n + 1
      BY <1>2, <1>4, <2>1, <2>3
    <2>4. QED BY <1>3, <2>2, <2>3
  <1>7. QED BY <1>2, <1>5, <1>6 DEF LogUpTo, t

\* What the invariant says of the node travel is at.
LEMMA AtNode ==
    ASSUME PCore, stack # <<>>, Node # NULL
    PROVE  /\ Node \in Nodes /\ Node \in Nat /\ Node >= 1 /\ PosOf(stack) = Node
           /\ doc.parent[Node] = Owner(stack, Len(stack))
           /\ After(Node) \in Nat /\ Node < After(Node)
           /\ quiet => /\ Uncovered(doc.parent[Node])
                       /\ DueAt(Node) <=> HandlersOf(Node) # {}
                       /\ HandlersOf(Node) = {} => Uncovered(Node)
  <1>1. IsDocument(doc) /\ FramesHeld(stack)
    BY DEF PCore
  <1>2. Len(stack) \in 1..Len(stack) /\ FrameHeld(Frame, Owner(stack, Len(stack)))
    BY <1>1, Innermost DEF Frame
  <1>3. Node \in Nodes /\ Node \in 0..Final
        /\ doc.parent[Node] = Owner(stack, Len(stack))
    BY <1>1, <1>2, Root DEF FrameHeld, Node
  <1>4. Node \in Nat /\ Node >= 1
    BY <1>1, <1>3, DocIs
  <1>5. PosOf(stack) = Node
    BY DEF PosOf, Node, Frame
  <1>6. After(Node) \in Nat /\ Node < After(Node)
    BY <1>1, <1>3, AfterIs
  <1>7. ASSUME quiet PROVE Uncovered(doc.parent[Node])
    BY <1>2, <1>3, <1>7 DEF PCore, QuietHeld
  <1>8. QED BY <1>1, <1>3, <1>4, <1>5, <1>6, <1>7, DueWhenUncovered

-----------------------------------------------------------------------------
(* Every step keeps the invariant.                                          *)

\* A new parser has the invariant.
LEMMA InitPCore == ParserInit => PCore
  <1> SUFFICES ASSUME ParserInit PROVE PCore
    OBVIOUS
  <1>1. IsDocument(doc)
    BY XmlParserAssumption DEF ParserInit
  <1>2. HandlersHeld(handlers)
    BY NewHandlers DEF ParserInit
  <1>3. stack = <<>> /\ calling = NoCall /\ log = <<>> /\ quiet = FALSE
    BY DEF ParserInit
  <1>4. FramesHeld(stack)
    BY <1>3 DEF FramesHeld
  <1>5. LogHeld
    BY <1>3 DEF LogHeld, LogUpTo
  <1>6. QED BY <1>1, <1>2, <1>3, <1>4, <1>5 DEF PCore, CallingHeld, QuietHeld

\* Steps that leave all of this alone.
LEMMA NothingChanges ==
    ASSUME PCore, UNCHANGED <<doc, handlers, stack, calling, log, quiet>>
    PROVE  PCore'
  <1>1. /\ doc' = doc /\ handlers' = handlers /\ stack' = stack
        /\ calling' = calling /\ log' = log /\ quiet' = quiet
    OBVIOUS
  <1>2. IsDocument(doc)' /\ FramesHeld(stack)' /\ HandlersHeld(handlers)'
    BY <1>1, SameFrames, SameDue DEF PCore
  <1>3. Node' = Node
    BY <1>1 DEF Node, Frame
  <1>4. CallingHeld'
    BY <1>1, <1>3 DEF PCore, CallingHeld, NULL
  <1>5. LogHeld'
    BY <1>1, SameLog DEF PCore, LogHeld
  <1>6. QuietHeld'
    BY <1>1, SameQuiet DEF PCore, QuietHeld
  <1>7. QED BY <1>1, <1>2, <1>4, <1>5, <1>6 DEF PCore

\* Each step keeps it: a registration, between calls or from a callback, ...
LEMMA RegisterKeeps ==
    ASSUME PCore, NEW p \in Path, NEW c \in Callback, Register(p, c)
    PROVE  PCore'
  <1>1. /\ doc' = doc /\ stack' = stack /\ calling' = calling /\ log' = log
        /\ quiet' = FALSE
    BY DEF Register
  <1>2. HandlersHeld(handlers') /\ Kept(handlers', handlers)
    BY RegisterHolds DEF PCore
  <1>3. IsDocument(doc)' /\ FramesHeld(stack)' /\ HandlersHeld(handlers)'
    BY <1>1, <1>2, SameFrames DEF PCore, HandlersHeld
  <1>4. Node' = Node
    BY <1>1 DEF Node, Frame
  <1>5. ASSUME calling # NoCall
        PROVE  /\ calling.handler.block <= handlers'.block
               /\ calling.handler.at < handlers'.size
               /\ calling.callback_num
                     <= handlers'.array[calling.handler.at].callbacks.size
    <2> DEFINE i == calling.handler.at
    <2>1. /\ calling.handler.block \in Nat /\ i \in Nat
          /\ calling.callback_num \in Nat /\ calling.handler.block <= handlers.block
          /\ i < handlers.size
          /\ calling.callback_num <= handlers.array[i].callbacks.size
      BY <1>5 DEF PCore, CallingHeld
    <2>2. /\ handlers.block \in Nat /\ handlers.size \in Nat
          /\ handlers'.block \in Nat /\ handlers'.size \in Nat
      BY <1>2, VectorParts DEF PCore, HandlersHeld
    <2>3. i \in 0..handlers.size - 1 /\ i \in 0..handlers'.size - 1
      BY <1>2, <2>1, <2>2 DEF Kept
    <2>4. /\ handlers.array[i].callbacks.size \in Nat
          /\ handlers'.array[i].callbacks.size \in Nat
      BY <1>2, <2>3, VectorParts DEF PCore, HandlersHeld, IsHandler
    <2>5. QED BY <1>2, <2>1, <2>2, <2>3, <2>4 DEF Kept
  <1>6. CallingHeld'
    BY <1>1, <1>4, <1>5 DEF PCore, CallingHeld, NULL
  <1>7. LogHeld'
    BY <1>1, SameLog DEF PCore, LogHeld
  <1>8. QuietHeld' /\ quiet' \in BOOLEAN
    BY <1>1 DEF QuietHeld
  <1>9. QED BY <1>3, <1>6, <1>7, <1>8 DEF PCore

\* ... the start of a parse, ...
LEMMA ParseKeeps ==
    ASSUME PCore, Parse
    PROVE  PCore'
  <1>1. /\ doc' = doc /\ handlers' = handlers /\ calling' = calling
        /\ log' = <<>> /\ quiet' = TRUE /\ stack = <<>>
        /\ stack' = <<[cur_node |-> FirstChild(0), cur_path |-> string_new(Slash)]>>
    BY DEF Parse, Idle
  <1>2. IsDocument(doc) /\ HandlersHeld(handlers) /\ calling = NoCall
    BY <1>1 DEF PCore, CallingHeld
  <1>3. /\ FramesHeld(stack') /\ PosOf(stack') = 1 /\ Len(stack') = 1
        /\ Owner(stack', 1) = NULL
    BY <1>1, <1>2, Begun
  <1>4. CallingHeld'
    BY <1>1, <1>2 DEF CallingHeld
  <1>5. LogHeld'
    <2>1. LogUpTo(log', 1, calling' # NoCall)
      BY <1>1 DEF LogUpTo
    <2>2. QED BY <1>1, <1>3, <2>1, SameLog
  <1>6. QuietHeld'
    <2>1. \A k \in 1..Len(stack') : k = 1
      BY <1>3
    <2>2. Uncovered(NULL)
      BY <1>2, DocIs DEF Uncovered, NULL
    <2>3. log' = Firsts(Due, 1 - 1)
      <3>1. Due \in [1..Final -> Seq(Calls)] /\ Final \in Nat
        BY <1>2, DueIs, DocIs
      <3>2. Firsts(Due, 0) = <<>>
        BY <3>1, FirstsAre
      <3>3. QED BY <1>1, <3>2
    <2>4. QED BY <1>1, <1>2, <1>3, <2>1, <2>2, <2>3, SameQuiet
  <1>7. QED BY <1>1, <1>2, <1>3, <1>4, <1>5, <1>6, SameFrames, SameDue DEF PCore

\* The loop goes on to the next sibling behind a node that needs no more calls.
LEMMA AdvanceKeeps ==
    ASSUME PCore, stack # <<>>, Node # NULL,
           doc' = doc, handlers' = handlers, log' = log, quiet' = quiet,
           calling' = NoCall, stack' = Advanced(stack),
           LogUpTo(log, After(Node), FALSE),
           quiet => log = Firsts(Due, After(Node) - 1)
    PROVE  PCore'
  <1>1. IsDocument(doc) /\ HandlersHeld(handlers) /\ FramesHeld(stack)
    BY DEF PCore
  <1>2. /\ FramesHeld(stack') /\ Len(stack') = Len(stack)
        /\ \A k \in 1..Len(stack) : Owner(stack', k) = Owner(stack, k)
        /\ PosOf(stack') = After(Node)
    BY <1>1, AdvancedHeld DEF Node, Frame
  <1>3. CallingHeld'
    BY DEF CallingHeld
  <1>4. LogHeld'
    BY <1>2, SameLog
  <1>5. QuietHeld'
    <2>1. quiet' => \A k \in 1..Len(stack') : Uncovered(Owner(stack', k))
      BY <1>2 DEF PCore, QuietHeld
    <2>2. QED BY <1>2, <2>1, SameQuiet
  <1>6. QED BY <1>1, <1>2, <1>3, <1>4, <1>5, SameFrames, SameDue DEF PCore

\* ... a node that is no element, ...
LEMMA SkipNodeKeeps ==
    ASSUME PCore, SkipNode
    PROVE  PCore'
  <1>1. /\ doc' = doc /\ handlers' = handlers /\ log' = log /\ quiet' = quiet
        /\ calling = NoCall /\ calling' = NoCall /\ stack' = Advanced(stack)
        /\ stack # <<>> /\ Node # NULL /\ ~IsElement(Node)
    BY DEF SkipNode, Travelling, Idle
  <1>2. IsDocument(doc) /\ HandlersHeld(handlers)
    BY DEF PCore
  <1>3. /\ Node \in Nodes /\ Node \in Nat /\ PosOf(stack) = Node
        /\ After(Node) \in Nat /\ Node < After(Node) /\ Final \in Nat
        /\ Nodes = 1..Final
    BY <1>1, <1>2, AtNode, DocIs
  <1>4. After(Node) = Node + 1
    <2>1. FirstChild(Node) # NULL => Node + 1 \in Nodes /\ doc.parent[Node + 1] = Node
      BY <1>2, <1>3, FirstChildIs
    <2>2. FirstChild(Node) = NULL
      <3>1. \A n \in Nodes : doc.parent[n] # 0 => IsElement(doc.parent[n])
        BY <1>2, DocIs
      <3>2. QED BY <1>1, <1>3, <2>1, <3>1
    <2>3. QED BY <1>2, <1>3, <2>2, FirstChildIs
  <1>5. LogUpTo(log, After(Node), FALSE)
    <2>1. LogUpTo(log, Node, FALSE)
      BY <1>1, <1>3 DEF PCore, LogHeld
    <2>2. Node <= After(Node)
      BY <1>3
    <2>3. QED BY <1>2, <1>3, <2>1, <2>2, LogAdvances
  <1>6. ASSUME quiet PROVE log = Firsts(Due, After(Node) - 1)
    <2>1. log = Firsts(Due, Node - 1)
      BY <1>1, <1>3, <1>6 DEF PCore, QuietHeld
    <2>2. Firsts(Due, Node) = Firsts(Due, Node - 1)
      BY <1>1, <1>2, <1>3, HandlersOfIs, NothingAt
    <2>3. After(Node) - 1 = Node
      BY <1>3, <1>4
    <2>4. QED BY <2>1, <2>2, <2>3
  <1>7. QED BY <1>1, <1>5, <1>6, AdvanceKeeps

\* ... an element without a handler, into whose children travel descends, ...
LEMMA DescendKeeps ==
    ASSUME PCore, Descend
    PROVE  PCore'
  <1> DEFINE q == string_append(NodePath, Slash)
  <1>1. /\ doc' = doc /\ handlers' = handlers /\ log' = log /\ quiet' = quiet
        /\ calling = NoCall /\ calling' = NoCall
        /\ stack' = Append(stack, [cur_node |-> FirstChild(Node), cur_path |-> q])
        /\ stack # <<>> /\ Node # NULL /\ IsElement(Node) /\ Handler = -1
    BY DEF Descend, AtElement, Travelling, Idle
  <1>2. IsDocument(doc) /\ HandlersHeld(handlers) /\ FramesHeld(stack)
    BY DEF PCore
  <1>3. /\ Node \in Nodes /\ Node \in Nat /\ PosOf(stack) = Node
    BY <1>1, AtNode
  <1>4. /\ Handler = HandlerOf(Node) /\ WellFormed(q)
        /\ Bytes(q) = PathBelow(Node) /\ (Short => Terminated(q))
    BY <1>1, <1>2, NodePathIs
  <1> HIDE DEF q
  <1>5. Len(stack) \in Nat /\ stack[Len(stack)].cur_node = Node
    BY <1>1, <1>2, Innermost DEF Node, Frame
  <1>6. /\ FramesHeld(stack') /\ Len(stack') = Len(stack) + 1
        /\ \A k \in 1..Len(stack) : Owner(stack', k) = Owner(stack, k)
        /\ Owner(stack', Len(stack')) = Node
        /\ PosOf(stack') = Node + 1
    <2>1. Pushed(stack', stack, Node, q)
      BY <1>1, <1>2, <1>4, <1>5 DEF Pushed
    <2>2. QED BY <1>2, <2>1, PushedHeld
  <1>7. HandlersOf(Node) = {}
    BY <1>1, <1>2, <1>3, <1>4, HandlersOfIs
  <1>8. CallingHeld'
    BY <1>1 DEF CallingHeld
  <1>9. LogHeld'
    <2>1. LogUpTo(log, Node, FALSE)
      BY <1>1, <1>3 DEF PCore, LogHeld
    <2>2. Node + 1 \in Nat /\ Node <= Node + 1
      BY <1>3
    <2>3. LogUpTo(log, Node + 1, calling' # NoCall)
      BY <1>2, <1>3, <2>1, <2>2, LogAdvances
    <2>4. QED BY <1>1, <1>6, <2>3, SameLog
  <1>10. QuietHeld'
    <2>1. ASSUME quiet, NEW k \in 1..Len(stack') PROVE Uncovered(Owner(stack', k))
      <3>1. CASE k = Len(stack')
        BY <1>1, <1>6, <1>7, <2>1, <3>1, AtNode
      <3>2. CASE k # Len(stack')
        <4>1. k \in 1..Len(stack)
          BY <1>5, <1>6, <3>2
        <4>2. QED BY <1>6, <2>1, <4>1 DEF PCore, QuietHeld
      <3>3. QED BY <3>1, <3>2
    <2>2. ASSUME quiet PROVE log = Firsts(Due, (Node + 1) - 1)
      <3>1. log = Firsts(Due, Node - 1)
        BY <1>1, <1>3, <2>2 DEF PCore, QuietHeld
      <3>2. Firsts(Due, Node) = Firsts(Due, Node - 1)
        BY <1>2, <1>3, <1>7, NothingAt
      <3>3. (Node + 1) - 1 = Node
        BY <1>3
      <3>4. QED BY <3>1, <3>2, <3>3
    <2>3. QED BY <1>1, <1>6, <2>1, <2>2, SameQuiet
  <1>11. QED BY <1>1, <1>2, <1>6, <1>8, <1>9, <1>10, SameFrames, SameDue DEF PCore

\* ... an element with one, whose callbacks are called, ...
LEMMA HandleKeeps ==
    ASSUME PCore, Handle
    PROVE  PCore'
  <1> DEFINE h == Handler
             c == [handler |-> PointerTo(handlers, h), i |-> 0,
                   callback_num |-> handlers.array[h].callbacks.size]
  <1>1. /\ doc' = doc /\ handlers' = handlers /\ log' = log /\ quiet' = quiet
        /\ calling = NoCall /\ calling' = c /\ stack' = stack
        /\ stack # <<>> /\ Node # NULL /\ IsElement(Node) /\ h # -1
    BY DEF Handle, AtElement, Travelling, Idle
  <1>2. IsDocument(doc) /\ HandlersHeld(handlers) /\ FramesHeld(stack)
    BY DEF PCore
  <1>3. /\ Node \in Nodes /\ Node \in Nat /\ PosOf(stack) = Node
    BY <1>1, AtNode
  <1>4. h = HandlerOf(Node)
    BY <1>1, <1>2, NodePathIs
  <1> HIDE DEF h
  <1>5. h \in 0..handlers.size - 1
    BY <1>1, <1>2, <1>4, HandlerFound DEF HandlerOf
  <1>6. HandlersOf(Node) = {h + 1}
    BY <1>1, <1>2, <1>3, <1>4, HandlersOfIs
  <1>7. /\ handlers.block \in Nat /\ handlers.size \in Nat
        /\ handlers.array[h].callbacks.size \in Nat
    BY <1>2, <1>3, <1>5, VectorParts, CallsForType DEF HandlersHeld
  <1>8. /\ c \in [handler : [block : Nat, at : Nat], i : Nat, callback_num : Nat]
        /\ c.handler.block = handlers.block /\ c.handler.at = h /\ c.i = 0
        /\ c.callback_num = handlers.array[h].callbacks.size
    BY <1>5, <1>7 DEF PointerTo
  <1> HIDE DEF c
  <1>9. Node' = Node
    BY <1>1 DEF Node, Frame
  <1>10. CallingHeld'
    BY <1>1, <1>5, <1>7, <1>8, <1>9 DEF CallingHeld, NULL
  <1>11. LogHeld'
    <2>1. LogUpTo(log, Node, FALSE)
      BY <1>1, <1>3 DEF PCore, LogHeld
    <2>2. Node <= Node
      BY <1>3
    <2>3. LogUpTo(log, Node, calling' # NoCall)
      BY <1>2, <1>3, <2>1, <2>2, LogAdvances
    <2>4. QED BY <1>1, <1>3, <2>3, SameLog
  <1>12. QuietHeld'
    <2>1. ASSUME quiet PROVE \A k \in 1..Len(stack) : Uncovered(Owner(stack, k))
      BY <2>1 DEF PCore, QuietHeld
    <2>2. ASSUME quiet PROVE CallsMade(log, Node, c)
      <3>1. log = Firsts(Due, Node - 1)
        BY <1>1, <1>3, <2>2 DEF PCore, QuietHeld
      <3>2. /\ Due \in [1..Final -> Seq(Calls)] /\ Final \in Nat
            /\ Node - 1 \in 0..Final
        BY <1>2, <1>3, DueIs, DocIs
      <3>3. Firsts(Due, Node - 1) \in Seq(Calls)
        BY <3>2, FirstsAre
      <3>4. SubSeq(CallsFor(Node, h), 1, 0) = <<>>
        BY SubSeqEmpty
      <3>5. log \o <<>> = log
        BY <3>1, <3>3
      <3>6. QED BY <1>6, <1>8, <3>1, <3>4, <3>5 DEF CallsMade
    <2>3. c # NoCall
      BY <1>8, XmlParserAssumption
    <2>4. QED BY <1>1, <1>3, <2>1, <2>2, <2>3, SameQuiet
  <1>13. QED BY <1>1, <1>2, <1>10, <1>11, <1>12, SameFrames, SameDue DEF PCore
\* One callback more.
LEMMA OneMoreCall ==
    ASSUME NEW S, NEW s \in Seq(S), NEW g \in Seq(S), NEW i \in 0..Len(g) - 1
    PROVE  Append(s \o SubSeq(g, 1, i), g[i + 1]) = s \o SubSeq(g, 1, i + 1)
  <1>1. i \in 0..Len(g) /\ i + 1 \in 0..Len(g) /\ i + 1 \in 1..Len(g) /\ i \in Nat
    OBVIOUS
  <1> DEFINE t == SubSeq(g, 1, i)
             u == SubSeq(g, 1, i + 1)
             e == g[i + 1]
             l == Append(s \o t, e)
             r == s \o u
  <1>2. t \in Seq(S) /\ Len(t) = i /\ \A k \in 1..i : t[k] = g[k]
    BY <1>1, Beginning
  <1>3. u \in Seq(S) /\ Len(u) = i + 1 /\ \A k \in 1..i + 1 : u[k] = g[k]
    <2>1. PICK n \in 0..Len(g) : n = i + 1
      BY <1>1
    <2>2. /\ SubSeq(g, 1, n) \in Seq(S) /\ Len(SubSeq(g, 1, n)) = n
          /\ \A k \in 1..n : SubSeq(g, 1, n)[k] = g[k]
      BY Beginning
    <2>3. QED BY <2>1, <2>2
  <1>4. e \in S
    BY <1>1
  <1>5. u[i + 1] = e
    BY <1>1, <1>3
  <1>6. \A k \in 1..i : t[k] = u[k]
    BY <1>1, <1>2, <1>3
  <1> HIDE DEF t, u, e
  <1>7. /\ l \in Seq(S) /\ Len(l) = Len(s) + i + 1
        /\ r \in Seq(S) /\ Len(r) = Len(s) + i + 1
    BY <1>2, <1>3, <1>4
  <1>8. ASSUME NEW k \in 1..Len(s) + i + 1 PROVE l[k] = r[k]
    <2>1. CASE k <= Len(s)
      BY <1>2, <1>3, <1>4, <2>1
    <2>2. CASE k > Len(s) /\ k # Len(s) + i + 1
      <3>1. k - Len(s) \in 1..i /\ k - Len(s) \in 1..i + 1
        BY <1>1, <2>2
      <3>2. l[k] = t[k - Len(s)]
        BY <1>2, <1>4, <2>2, <3>1
      <3>3. r[k] = u[k - Len(s)]
        BY <1>3, <2>2, <3>1
      <3>4. QED BY <1>6, <3>1, <3>2, <3>3
    <2>3. CASE k = Len(s) + i + 1
      <3>1. l[k] = e
        BY <1>2, <1>4, <2>3
      <3>2. k - Len(s) = i + 1 /\ k > Len(s)
        BY <1>1, <2>3
      <3>3. r[k] = u[i + 1]
        BY <1>1, <1>3, <3>2
      <3>4. QED BY <1>5, <3>1, <3>3
    <2>4. Len(s) \in Nat /\ k \in Nat
      BY <1>1
    <2>5. k <= Len(s) \/ (k > Len(s) /\ k # Len(s) + i + 1) \/ k = Len(s) + i + 1
      BY <2>4
    <2>6. QED BY <2>1, <2>2, <2>3, <2>5
  <1> HIDE DEF l, r
  <1>9. l = r
    BY <1>7, <1>8, SeqEqual
  <1>10. QED BY <1>9 DEF l, r, t, u, e

\* The handler of a loop that is running.
LEMMA LoopIs ==
    ASSUME PCore, calling # NoCall
    PROVE  LET h == calling.handler.at
           IN /\ h \in 0..handlers.size - 1 /\ calling.i \in Nat
              /\ calling.callback_num \in Nat /\ calling.i <= calling.callback_num
              /\ calling.callback_num <= Len(CallsFor(Node, h))
              /\ CallsFor(Node, h) \in Seq(Calls)
              /\ handlers.array[h].callbacks.size = Len(CallsFor(Node, h))
              /\ Node \in Nodes /\ Node \in Nat /\ PosOf(stack) = Node
              /\ stack # <<>> /\ Node # NULL
  <1> DEFINE h == calling.handler.at
  <1>1. /\ h \in Nat /\ calling.i \in Nat /\ calling.callback_num \in Nat
        /\ calling.i <= calling.callback_num /\ h < handlers.size
        /\ calling.callback_num <= handlers.array[h].callbacks.size
        /\ stack # <<>> /\ Node # NULL
    BY DEF PCore, CallingHeld
  <1>2. Node \in Nodes /\ Node \in Nat /\ PosOf(stack) = Node
    BY <1>1, AtNode
  <1>3. handlers.size \in Nat
    BY VectorParts DEF PCore, HandlersHeld
  <1>4. h \in 0..handlers.size - 1
    BY <1>1, <1>3
  <1> HIDE DEF h
  <1>5. /\ CallsFor(Node, h) \in Seq(Calls)
        /\ Len(CallsFor(Node, h)) = handlers.array[h].callbacks.size
    BY <1>2, <1>4, CallsForType DEF PCore
  <1>6. QED BY <1>1, <1>2, <1>4, <1>5 DEF h

\* ... a callback, ...
LEMMA CallKeeps ==
    ASSUME PCore, Call
    PROVE  PCore'
  <1> DEFINE h == calling.handler.at
             g == CallsFor(Node, h)
             e == [node |-> Node, func |-> handlers.array[h].callbacks.array[calling.i]]
             c == [calling EXCEPT !.i = @ + 1]
  <1>1. /\ doc' = doc /\ handlers' = handlers /\ stack' = stack
        /\ quiet' = quiet /\ calling # NoCall /\ calling.i < calling.callback_num
        /\ calling' = c /\ log' = Append(log, e)
    BY DEF Call
  <1>2. IsDocument(doc) /\ HandlersHeld(handlers) /\ FramesHeld(stack)
    BY DEF PCore
  <1>3. /\ h \in 0..handlers.size - 1 /\ calling.i \in Nat
        /\ calling.callback_num \in Nat
        /\ calling.callback_num <= Len(g) /\ g \in Seq(Calls)
        /\ handlers.array[h].callbacks.size = Len(g)
        /\ Node \in Nodes /\ Node \in Nat /\ PosOf(stack) = Node
        /\ stack # <<>> /\ Node # NULL
    BY <1>1, LoopIs
  <1>4. calling.i \in 0..Len(g) - 1 /\ calling.i + 1 \in 1..Len(g)
    BY <1>1, <1>3
  <1>5. e = g[calling.i + 1] /\ e \in Calls /\ e.node = Node
    <2>1. (calling.i + 1) - 1 = calling.i
      BY <1>3
    <2>2. g[calling.i + 1] =
            [node |-> Node, func |-> handlers.array[h].callbacks.array[(calling.i + 1) - 1]]
      <3>1. calling.i + 1 \in 1..handlers.array[h].callbacks.size
        BY <1>3, <1>4
      <3>2. QED BY <3>1 DEF CallsFor
    <2>3. g[calling.i + 1] \in Calls
      BY <1>3, <1>4
    <2>4. QED BY <2>1, <2>2, <2>3
  <1>6. /\ calling \in [handler : [block : Nat, at : Nat], i : Nat,
                        callback_num : Nat]
    BY <1>1 DEF PCore, CallingHeld
  <1>7. /\ c \in [handler : [block : Nat, at : Nat], i : Nat, callback_num : Nat]
        /\ c.handler = calling.handler /\ c.i = calling.i + 1
        /\ c.callback_num = calling.callback_num
    BY <1>6
  <1> HIDE DEF c, e
  <1>8. c # NoCall
    BY <1>7, XmlParserAssumption
  <1>9. Node' = Node
    BY <1>1 DEF Node, Frame
  <1>10. CallingHeld'
    <2>1. c.i <= c.callback_num
      BY <1>1, <1>3, <1>7
    <2>2. calling.handler.block <= handlers.block /\ h < handlers.size
          /\ calling.callback_num <= handlers.array[h].callbacks.size
      BY <1>1 DEF PCore, CallingHeld
    <2>3. QED BY <1>1, <1>3, <1>7, <1>9, <2>1, <2>2 DEF CallingHeld, NULL
  <1>11. LogHeld'
    <2>1. LogUpTo(log, Node, TRUE)
      BY <1>1, <1>3 DEF PCore, LogHeld
    <2>2. LogUpTo(log', Node, calling' # NoCall)
      BY <1>1, <1>3, <1>5, <1>8, <2>1, LogMore
    <2>3. QED BY <1>1, <1>3, <2>2, SameLog
  <1>12. QuietHeld'
    <2>1. ASSUME quiet PROVE \A k \in 1..Len(stack) : Uncovered(Owner(stack, k))
      BY <2>1 DEF PCore, QuietHeld
    <2>2. ASSUME quiet PROVE CallsMade(Append(log, e), Node, c)
      <3> DEFINE s == Firsts(Due, Node - 1)
      <3>1. /\ HandlersOf(Node) = {h + 1}
            /\ calling.callback_num = handlers.array[h].callbacks.size
            /\ log = s \o SubSeq(g, 1, calling.i)
        BY <1>1, <1>3, <2>2 DEF PCore, QuietHeld, CallsMade
      <3>2. /\ Due \in [1..Final -> Seq(Calls)] /\ Final \in Nat
            /\ Node - 1 \in 0..Final
        BY <1>2, <1>3, DueIs, DocIs
      <3>3. s \in Seq(Calls)
        BY <3>2, FirstsAre
      <3> HIDE DEF s, g
      <3>4. Append(s \o SubSeq(g, 1, calling.i), g[calling.i + 1])
               = s \o SubSeq(g, 1, calling.i + 1)
        BY <1>3, <1>4, <3>3, OneMoreCall
      <3>5. Append(log, e) = s \o SubSeq(g, 1, c.i)
        BY <1>5, <1>7, <3>1, <3>4
      <3>6. c.handler.at = h
        BY <1>7
      <3>7. QED BY <1>7, <3>1, <3>5, <3>6 DEF CallsMade, s, g
    <2>3. QED BY <1>1, <1>3, <1>8, <2>1, <2>2, SameQuiet
  <1>13. QED BY <1>1, <1>2, <1>10, <1>11, <1>12, SameFrames, SameDue DEF PCore

\* ... the end of the loop over the callbacks, ...
LEMMA CallsDoneKeeps ==
    ASSUME PCore, CallsDone
    PROVE  PCore'
  <1> DEFINE h == calling.handler.at
             g == CallsFor(Node, h)
  <1>1. /\ doc' = doc /\ handlers' = handlers /\ log' = log /\ quiet' = quiet
        /\ calling # NoCall /\ calling' = NoCall /\ stack' = Advanced(stack)
        /\ calling.i = calling.callback_num
    BY DEF CallsDone
  <1>2. IsDocument(doc) /\ HandlersHeld(handlers)
    BY DEF PCore
  <1>3. /\ h \in 0..handlers.size - 1 /\ calling.i \in Nat
        /\ g \in Seq(Calls) /\ handlers.array[h].callbacks.size = Len(g)
        /\ Node \in Nodes /\ Node \in Nat /\ PosOf(stack) = Node
        /\ stack # <<>> /\ Node # NULL
    BY <1>1, LoopIs
  <1>4. LogUpTo(log, After(Node), FALSE)
    <2>1. LogUpTo(log, Node, TRUE)
      BY <1>1, <1>3 DEF PCore, LogHeld
    <2>2. QED BY <1>2, <1>3, <2>1, LogDone
  <1>5. ASSUME quiet PROVE log = Firsts(Due, After(Node) - 1)
    <2>1. /\ HandlersOf(Node) = {h + 1} /\ calling.i = Len(g)
          /\ log = Firsts(Due, Node - 1) \o SubSeq(g, 1, calling.i)
      BY <1>1, <1>3, <1>5 DEF PCore, QuietHeld, CallsMade
    <2>2. SubSeq(g, 1, Len(g)) = g
      BY <1>3, SubSeqFull
    <2>3. DueAt(Node)
      BY <1>3, <1>5, <2>1, AtNode
    <2>4. Due[Node] = g
      BY <1>2, <1>3, <2>1, <2>3, DueIs
    <2>5. Firsts(Due, Node) = Firsts(Due, Node - 1) \o Due[Node]
      <3>1. /\ Due \in [1..Final -> Seq(Calls)] /\ Final \in Nat
            /\ Node \in 1..Final
        BY <1>2, <1>3, DueIs, DocIs
      <3>2. QED BY <3>1, FirstsAre
    <2>6. Firsts(Due, After(Node) - 1) = Firsts(Due, Node)
      BY <1>2, <1>3, <2>1, NothingInside
    <2>7. QED BY <2>1, <2>2, <2>4, <2>5, <2>6
  <1>6. QED BY <1>1, <1>3, <1>4, <1>5, AdvanceKeeps

\* ... and the end of an invocation of travel.
LEMMA ReturnKeeps ==
    ASSUME PCore, Return
    PROVE  PCore'
  <1> DEFINE L == Len(stack)
             t == Front(stack)
             n == Owner(stack, L)
  <1>1. /\ doc' = doc /\ handlers' = handlers /\ log' = log /\ quiet' = quiet
        /\ calling = NoCall /\ calling' = NoCall /\ stack' = Advanced(t)
        /\ stack # <<>> /\ Node = NULL
    BY DEF Return, Travelling, Idle
  <1>2. IsDocument(doc) /\ HandlersHeld(handlers) /\ FramesHeld(stack)
    BY DEF PCore
  <1>3. L \in Nat /\ L >= 1 /\ PosOf(stack) = After(n)
    BY <1>1, <1>2, Innermost DEF PosOf, Node, Frame
  <1>4. /\ FramesHeld(t) /\ Len(t) = L - 1 /\ (t = <<>> <=> L = 1)
        /\ \A k \in 1..L - 1 : t[k] = stack[k] /\ Owner(t, k) = Owner(stack, k)
    BY <1>1, <1>2, FrontHeld
  <1> HIDE DEF t, L
  <1>5. /\ FramesHeld(stack') /\ PosOf(stack') = After(n)
        /\ Len(stack') = L - 1
        /\ \A k \in 1..L - 1 : Owner(stack', k) = Owner(stack, k)
    <2>1. CASE L = 1
      <3>1. stack' = <<>> /\ stack' = t
        BY <1>1, <1>4, <2>1 DEF Advanced
      <3>2. n = NULL
        BY <2>1 DEF Owner
      <3>3. PosOf(stack') = Final + 1 /\ After(NULL) = Final + 1
        BY <1>2, <3>1, Root DEF PosOf
      <3>4. QED BY <1>4, <3>1, <3>2, <3>3
    <2>2. CASE L # 1
      <3>1. L - 1 \in 1..L - 1 /\ L - 1 \in 1..L /\ L - 1 < L
        BY <1>3, <2>2
      <3>2. n = stack[L - 1].cur_node
        BY <2>2 DEF Owner
      <3>3. stack[L - 1].cur_node # NULL
        BY <1>2, <3>1 DEF FramesHeld, L
      <3>4. t[Len(t)].cur_node = n /\ t # <<>>
        BY <1>4, <2>2, <3>1, <3>2
      <3>5. /\ FramesHeld(stack') /\ PosOf(stack') = After(n)
            /\ Len(stack') = Len(t)
            /\ \A k \in 1..Len(t) : Owner(stack', k) = Owner(t, k)
        BY <1>1, <1>2, <1>4, <3>2, <3>3, <3>4, AdvancedHeld
      <3>6. QED BY <1>4, <3>5
    <2>3. QED BY <2>1, <2>2
  <1>6. CallingHeld'
    BY <1>1 DEF CallingHeld
  <1>7. LogHeld'
    <2>1. LogUpTo(log', After(n), calling' # NoCall)
      BY <1>1, <1>3 DEF PCore, LogHeld
    <2>2. QED BY <1>1, <1>5, <2>1, SameLog
  <1>8. QuietHeld'
    <2>1. ASSUME quiet, NEW k \in 1..Len(stack') PROVE Uncovered(Owner(stack', k))
      <3>1. k \in 1..L - 1 /\ k \in 1..L
        BY <1>3, <1>5
      <3>2. QED BY <1>5, <2>1, <3>1 DEF PCore, QuietHeld, L
    <2>2. ASSUME quiet PROVE log = Firsts(Due, After(n) - 1)
      BY <1>1, <1>3, <2>2 DEF PCore, QuietHeld
    <2>3. QED BY <1>1, <1>5, <2>1, <2>2, SameQuiet
  <1>9. QED BY <1>1, <1>2, <1>5, <1>6, <1>7, <1>8, SameFrames, SameDue DEF PCore

\* What a prefix has in common with the sequence.
LEMMA PrefixHas ==
    ASSUME NEW S, NEW s \in Seq(S), NEW t \in Seq(S), IsPrefix(s, t)
    PROVE  Len(s) <= Len(t) /\ \A k \in 1..Len(s) : s[k] = t[k]
  <1>1. /\ Len(s) <= Len(t)
        /\ SubSeq(s, 1, Len(s)) = SubSeq(t, 1, Len(s))
    BY DEF IsPrefix
  <1>2. Len(s) \in 0..Len(s) /\ Len(s) \in 0..Len(t)
    BY <1>1
  <1>3. \A k \in 1..Len(s) : SubSeq(s, 1, Len(s))[k] = s[k]
    BY <1>2, Beginning
  <1>4. \A k \in 1..Len(s) : SubSeq(t, 1, Len(s))[k] = t[k]
    BY <1>2, Beginning
  <1>5. QED BY <1>1, <1>3, <1>4

\* So every step keeps the invariant.
LEMMA StepPCore == PCore /\ [ParserNext]_parserVars => PCore'
  <1> SUFFICES ASSUME PCore, [ParserNext]_parserVars PROVE PCore'
    OBVIOUS
  <1>1. CASE UNCHANGED parserVars
    BY <1>1, NothingChanges DEF parserVars
  <1>2. CASE ReadsOn \/ CallStale \/ EvalXpath \/ Destroy
    BY <1>2, NothingChanges DEF ReadsOn, CallStale, EvalXpath, Destroy
  <1>3. ASSUME NEW p \in Path, NEW c \in Callback, Register(p, c) PROVE PCore'
    BY <1>3, RegisterKeeps
  <1>4. CASE Parse
    BY <1>4, ParseKeeps
  <1>5. CASE SkipNode
    BY <1>5, SkipNodeKeeps
  <1>6. CASE Descend
    BY <1>6, DescendKeeps
  <1>7. CASE Handle
    BY <1>7, HandleKeeps
  <1>8. CASE Return
    BY <1>8, ReturnKeeps
  <1>9. CASE Call
    BY <1>9, CallKeeps
  <1>10. CASE CallsDone
    BY <1>10, CallsDoneKeeps
  <1>11. QED BY <1>1, <1>2, <1>3, <1>4, <1>5, <1>6, <1>7, <1>8, <1>9, <1>10
            DEF ParserNext, ParserOver

\* Whatever the document, the handlers and the callbacks do, travel keeps its
\* place: the frames are a path of the tree, the handlers have distinct paths,
\* and the log is what is due for the nodes passed.
THEOREM AlwaysPCore == ParserSpec => []PCore
  BY InitPCore, StepPCore, PTL DEF ParserSpec

\* The array of handlers moves under travel only when there are more of them
\* than it was made for, and travel reads beyond the end of a path only when a
\* parent's path or a name with its slash is as long as the string for it.
LEMMA StepWithinLimits ==
    ASSUME PCore, SafeWithinLimits, [ParserNext]_parserVars
    PROVE  SafeWithinLimits'
  <1> DEFINE Beyond == \E n \in Nodes : \/ Len(ParentPath(n)) >= NodePathCap
                                        \/ Len(Name(n)) + 1 >= NodePathCap
  <1>1. IsDocument(doc) /\ HandlersHeld(handlers) /\ FramesHeld(stack)
    BY DEF PCore
  <1>2. Short \/ Beyond
    <2>1. \A n \in Nodes : Len(ParentPath(n)) \in Nat /\ Len(Name(n)) \in Nat
      BY <1>1, FullPathIs, DocIs
    <2>2. QED BY <2>1, XmlParserAssumption DEF Short
  <1> HIDE DEF Beyond
  <1>3. CASE ReadsOn
    <2>1. /\ doc' = doc /\ handlers' = handlers /\ state' = "garbled"
          /\ stack # <<>> /\ Node # NULL /\ ~Readable
      BY <1>3 DEF ReadsOn, AtElement, Travelling, Idle
    <2>2. Beyond
      BY <1>1, <1>2, <2>1, NodePathIs
    <2>3. Beyond'
      BY <2>1, <2>2, SameDoc DEF Beyond, Name
    <2>4. QED BY <2>1, <2>3 DEF SafeWithinLimits, Beyond
  <1>4. CASE CallStale
    <2>1. /\ handlers' = handlers /\ state' = "stale" /\ calling # NoCall
          /\ calling.handler.block # handlers.block
      BY <1>4 DEF CallStale, HandlerMoved
    <2>2. calling.handler.block \in Nat /\ calling.handler.block <= handlers.block
      BY <2>1 DEF PCore, CallingHeld
    <2>3. handlers.block \in Nat
      BY <1>1, VectorParts DEF HandlersHeld
    <2>4. handlers.block # 0
      BY <2>1, <2>2, <2>3
    <2>5. handlers.size > HandlerCap
      BY <1>1, <2>4 DEF HandlersHeld
    <2>6. QED BY <2>1, <2>5 DEF SafeWithinLimits
  <1>5. CASE UNCHANGED parserVars
    <2>1. doc' = doc /\ handlers' = handlers /\ state' = state
      BY <1>5 DEF parserVars
    <2>2. Beyond' <=> Beyond
      BY <2>1, SameDoc DEF Beyond, Name
    <2>3. QED BY <2>1, <2>2 DEF SafeWithinLimits, Beyond
  <1>6. CASE state' = "live" \/ state' = "destroyed"
    BY <1>6 DEF SafeWithinLimits
  <1>7. ASSUME NEW p \in Path, NEW c \in Callback, state = "live", Register(p, c)
        PROVE  state' = "live"
    BY <1>7 DEF Register
  <1>8. ASSUME state = "live",
               \/ Parse \/ SkipNode \/ Descend \/ Handle \/ Return \/ Call
               \/ CallsDone \/ EvalXpath
        PROVE  state' = "live"
    BY <1>8 DEF Parse, SkipNode, Descend, Handle, Return, Call, CallsDone,
                EvalXpath
  <1>9. CASE Destroy
    BY <1>6, <1>9 DEF Destroy
  <1>10. QED BY <1>3, <1>4, <1>5, <1>6, <1>7, <1>8, <1>9 DEF ParserNext, ParserOver

\* travel goes wrong only beyond its limits: more handlers than the array was
\* made for, or a path longer than its string.
THEOREM ParserWithinLimits == ParserSpec => []SafeWithinLimits
  <1>1. ParserInit => SafeWithinLimits
    BY DEF ParserInit, SafeWithinLimits
  <1>2. PCore /\ SafeWithinLimits /\ [ParserNext]_parserVars => SafeWithinLimits'
    BY StepWithinLimits
  <1>3. QED BY <1>1, <1>2, AlwaysPCore, PTL DEF ParserSpec

\* The calls made are the first of those that are due.
LEMMA CallsBegin ==
    ASSUME PCore, quiet, ~Idle
    PROVE  IsPrefix(log, Expected)
  <1>1. IsDocument(doc) /\ HandlersHeld(handlers) /\ FramesHeld(stack)
    BY DEF PCore
  <1>2. /\ Due \in [1..Final -> Seq(Calls)] /\ Final \in Nat
        /\ Nodes = 1..Final /\ Expected = Firsts(Due, Final)
    BY <1>1, DueIs, DocIs
  <1>3. CASE calling = NoCall
    <2> DEFINE p == PosOf(stack)
    <2>1. log = Firsts(Due, p - 1)
      BY <1>3 DEF PCore, QuietHeld
    <2>2. p \in Nat /\ 1 <= p /\ p <= Final + 1
      <3>1. CASE Node # NULL
        BY <1>2, <3>1, AtNode DEF Idle
      <3>2. CASE Node = NULL
        <4>1. p = After(Owner(stack, Len(stack)))
          BY <3>2 DEF PosOf, Node, Frame, Idle
        <4>2. Owner(stack, Len(stack)) \in 0..Final
          BY <1>1, Innermost DEF Idle
        <4>3. /\ p \in Nat /\ Owner(stack, Len(stack)) < p /\ p <= Final + 1
          BY <1>1, <4>1, <4>2, AfterIs
        <4>4. QED BY <1>2, <4>2, <4>3
      <3>3. QED BY <3>1, <3>2
    <2> HIDE DEF p
    <2>3. PICK b \in 0..Final : b = p - 1
      BY <1>2, <2>2
    <2>4. Final \in b..Final
      BY <1>2
    <2>5. IsPrefix(Firsts(Due, b), Firsts(Due, Final))
      BY <1>2, <2>4, FirstsPrefix
    <2>6. QED BY <1>2, <2>1, <2>3, <2>5
  <1>4. CASE calling # NoCall
    <2> DEFINE h == calling.handler.at
               g == CallsFor(Node, h)
               s == Firsts(Due, Node - 1)
               i == calling.i
    <2>1. /\ h \in 0..handlers.size - 1 /\ i \in Nat /\ i <= Len(g)
          /\ g \in Seq(Calls) /\ Node \in Nodes /\ Node \in Nat
          /\ PosOf(stack) = Node /\ stack # <<>> /\ Node # NULL
      BY <1>4, LoopIs
    <2>2. HandlersOf(Node) = {h + 1} /\ log = s \o SubSeq(g, 1, i)
      BY <1>4, <2>1 DEF PCore, QuietHeld, CallsMade
    <2>3. Due[Node] = g
      BY <1>1, <2>1, <2>2, AtNode, DueIs
    <2>4. /\ Firsts(Due, Node) = s \o g /\ s \in Seq(Calls)
      <3>1. Node \in 1..Final /\ Node - 1 \in 0..Final
        BY <1>2, <2>1
      <3>2. QED BY <1>2, <2>3, <3>1, FirstsAre
    <2>5. IsPrefix(Firsts(Due, Node), Expected) /\ Expected \in Seq(Calls)
      <3>1. Node \in 0..Final /\ Final \in Node..Final /\ Final \in 0..Final
        BY <1>2, <2>1
      <3>2. QED BY <1>2, <3>1, FirstsPrefix, FirstsAre
    <2> DEFINE e == Expected
    <2> HIDE DEF g, s, i, e
    <2>6. /\ SubSeq(g, 1, i) \in Seq(Calls) /\ Len(SubSeq(g, 1, i)) = i
          /\ \A k \in 1..i : SubSeq(g, 1, i)[k] = g[k]
      <3>1. i \in 0..Len(g)
        BY <2>1
      <3>2. QED BY <2>1, <3>1, Beginning
    <2> DEFINE t == SubSeq(g, 1, i)
               u == s \o t
               w == s \o g
    <2> HIDE DEF t
    <2>7. /\ u \in Seq(Calls) /\ w \in Seq(Calls) /\ Len(u) <= Len(w)
          /\ \A k \in 1..Len(u) : u[k] = w[k]
      <3>1. t \in Seq(Calls) /\ Len(t) = i /\ \A k \in 1..i : t[k] = g[k]
        BY <2>6 DEF t
      <3>2. /\ u \in Seq(Calls) /\ w \in Seq(Calls)
            /\ Len(u) = Len(s) + i /\ Len(w) = Len(s) + Len(g)
            /\ Len(s) \in Nat /\ Len(g) \in Nat
        <4>1. s \in Seq(Calls) /\ g \in Seq(Calls) /\ t \in Seq(Calls) /\ Len(t) = i
          BY <2>1, <2>4, <3>1 DEF g, s
        <4>2. QED BY <4>1
      <3>3. ASSUME NEW k \in 1..Len(u) PROVE u[k] = w[k]
        <4>1. CASE k <= Len(s)
          BY <2>1, <2>4, <3>1, <3>2, <4>1
        <4>2. CASE ~(k <= Len(s))
          <5>1. k - Len(s) \in 1..i
            BY <2>1, <3>2, <4>2
          <5>2. u[k] = t[k - Len(s)] /\ w[k] = g[k - Len(s)]
            BY <2>1, <2>4, <3>1, <3>2, <4>2
          <5>3. QED BY <3>1, <5>1, <5>2
        <4>3. QED BY <4>1, <4>2
      <3>4. QED BY <2>1, <3>2, <3>3
    <2> HIDE DEF u, w
    <2>8. IsPrefix(w, e) /\ e \in Seq(Calls)
      BY <2>4, <2>5 DEF w, e
    <2>9. Len(w) <= Len(e) /\ \A k \in 1..Len(w) : w[k] = e[k]
      BY <2>7, <2>8, PrefixHas
    <2>10. Len(u) <= Len(e) /\ \A k \in 1..Len(u) : u[k] = e[k]
      BY <2>7, <2>8, <2>9
    <2>11. IsPrefix(u, e)
      BY <2>7, <2>8, <2>10, PrefixIs
    <2>12. QED BY <2>2, <2>11 DEF u, t, e
  <1>5. QED BY <1>3, <1>4

\* A parse makes the calls that are due, in document order; no callback is
\* called for a node inside of one that was handled.
THEOREM ParserCallsExact == ParserSpec => []CallsExact
  <1>1. PCore => CallsExact
    <2> SUFFICES ASSUME PCore PROVE CallsExact
      OBVIOUS
    <2>1. IsDocument(doc) /\ HandlersHeld(handlers)
      BY DEF PCore
    <2>2. ASSUME quiet, Idle PROVE log = Expected
      <3>1. calling = NoCall /\ PosOf(stack) = Final + 1
        BY <2>2 DEF PCore, CallingHeld, Idle, PosOf
      <3>2. log = Firsts(Due, (Final + 1) - 1)
        BY <2>2, <3>1 DEF PCore, QuietHeld
      <3>3. (Final + 1) - 1 = Final
        BY <2>1, DocIs
      <3>4. QED BY <2>1, <3>2, <3>3, DueIs
    <2>3. ASSUME NEW i \in DOMAIN log, NEW j \in DOMAIN log, i < j
          PROVE  /\ log[i].node <= log[j].node
                 /\ ~IsAncestor(log[i].node, log[j].node)
      <3>1. log[i].node \in Nodes /\ log[j].node \in Nodes
        BY DEF PCore, LogHeld, LogUpTo
      <3>2. \/ log[i].node = log[j].node
            \/ After(log[i].node) <= log[j].node
        BY <2>3 DEF PCore, LogHeld, LogUpTo
      <3>3. /\ log[i].node \in 0..Final /\ log[i].node \in Nat
            /\ log[j].node \in Nat
        BY <2>1, <3>1, DocIs
      <3>4. After(log[i].node) \in Nat /\ log[i].node < After(log[i].node)
        BY <2>1, <3>3, AfterIs
      <3>5. IsAncestor(log[i].node, log[j].node) <=>
               log[i].node < log[j].node /\ log[j].node < After(log[i].node)
        BY <2>1, <3>1, DescendantsAre
      <3>6. QED BY <3>2, <3>3, <3>4, <3>5
    <2>4. QED BY <2>2, <2>3, CallsBegin DEF CallsExact
  <1>2. QED BY <1>1, AlwaysPCore, PTL
============================================================================
