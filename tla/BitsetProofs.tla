---------------------------- MODULE BitsetProofs ----------------------------
(***************************************************************************)
(* Proofs about Bitset for every word size and every capacity.             *)
(***************************************************************************)
EXTENDS Bitset, FiniteSetTheorems, TLAPS

Types ==
    /\ set \in [Groups -> SUBSET (0..group_size - 1)]
    /\ size \in Nat
    /\ members \subseteq Index
    /\ touched \subseteq Groups

\* Where no reset has hit a group, all members have their bit.
Untouched == \A i \in members : group_index(i) \notin touched => IsSet(i)

\* The counter counts the members, or too many once a group was hit.
Counted ==
    /\ Cardinality(members) <= size
    /\ touched = {} => size = Cardinality(members)

IInv == Types /\ OnesAreMembers /\ Untouched /\ Counted

\* An index is its group and its bit.
LEMMA Division ==
    ASSUME NEW i \in Nat
    PROVE  /\ group_index(i) \in Nat /\ Bit(i) \in 0..group_size - 1
           /\ i = group_index(i) * group_size + Bit(i)
  BY BitsetAssumption DEF group_index, Bit

LEMMA IndexParts ==
    ASSUME NEW i \in Index
    PROVE  /\ i \in Nat
           /\ group_index(i) \in Groups /\ Bit(i) \in 0..group_size - 1
           /\ i = group_index(i) * group_size + Bit(i)
  BY BitsetAssumption DEF group_index, Bit, Index, Groups

\* No other group and bit make the same index.
LEMMA PartsOfIndex ==
    ASSUME NEW g \in Nat, NEW b \in 0..group_size - 1
    PROVE  group_index(g * group_size + b) = g /\ Bit(g * group_size + b) = b
  BY BitsetAssumption DEF group_index, Bit

LEMMA GroupsAreNat == Groups \subseteq Nat
  BY BitsetAssumption DEF Groups, group_index

\* The members are a finite set.
LEMMA MembersFinite ==
    ASSUME Types
    PROVE  IsFiniteSet(members) /\ Cardinality(members) \in Nat
  <1>1. IsFiniteSet(Index)
    BY BitsetAssumption, FS_Interval DEF Index
  <1>. QED  BY <1>1, FS_Subset, FS_CardinalityType DEF Types

\* A one is a member.
LEMMA OneIsMember ==
    ASSUME Types, OnesAreMembers, NEW i \in Index, IsSet(i)
    PROVE  i \in members
  <1>1. \A b \in set[group_index(i)] : group_index(i) * group_size + b \in members
    BY IndexParts DEF OnesAreMembers
  <1>2. group_index(i) * group_size + Bit(i) \in members
    BY <1>1 DEF IsSet
  <1>. QED  BY <1>2, IndexParts

-----------------------------------------------------------------------------

LEMMA InitIInv == Init => IInv
  <1>. SUFFICES ASSUME Init PROVE IInv
    OBVIOUS
  <1>. USE DEF Init
  <1>1. Types
    BY DEF Types
  <1>2. OnesAreMembers
    BY DEF OnesAreMembers
  <1>3. Untouched
    BY DEF Untouched
  <1>4. Counted
    BY FS_EmptySet DEF Counted
  <1>. QED  BY <1>1, <1>2, <1>3, <1>4 DEF IInv

LEMMA SetKeeps ==
    ASSUME IInv, NEW i \in Index, Set(i)
    PROVE  IInv'
  <1>. USE DEF IInv
  <1>p. group_index(i) \in Groups /\ Bit(i) \in 0..group_size - 1
    BY IndexParts
  <1>1. CASE IsSet(i)
    <2>1. members' = members /\ set' = set /\ size' = size /\ touched' = touched
      BY <1>1, OneIsMember DEF Set
    <2>. QED  BY <2>1
         DEF Types, OnesAreMembers, Untouched, Counted, IsSet
  <1>2. CASE ~IsSet(i)
    <2>. /\ set' = [set EXCEPT ![group_index(i)] = @ \cup {Bit(i)}]
         /\ size' = size + 1 /\ members' = members \cup {i} /\ touched' = touched
      BY <1>2 DEF Set
    <2>1. Types'
      BY <1>p DEF Types
    <2>2. OnesAreMembers'
      <3>. SUFFICES ASSUME NEW g \in Groups, NEW b \in set'[g]
                    PROVE  g * group_size + b \in members'
        BY DEF OnesAreMembers
      <3>1. CASE g = group_index(i) /\ b = Bit(i)
        BY <3>1, IndexParts
      <3>2. CASE ~(g = group_index(i) /\ b = Bit(i))
        <4>1. b \in set[g]
          BY <3>2, <1>p DEF Types
        <4>. QED  BY <4>1 DEF OnesAreMembers
      <3>. QED  BY <3>1, <3>2
    <2>3. Untouched'
      <3>. SUFFICES ASSUME NEW j \in members', group_index(j) \notin touched'
                    PROVE  Bit(j) \in set'[group_index(j)]
        BY DEF Untouched, IsSet
      <3>1. CASE j = i
        BY <3>1, <1>p DEF Types
      <3>2. CASE j # i
        <4>1. j \in members /\ j \in Index
          BY <3>2 DEF Types
        <4>2. Bit(j) \in set[group_index(j)]
          BY <4>1 DEF Untouched, IsSet
        <4>. QED  BY <4>1, <4>2, <1>p, IndexParts DEF Types
      <3>. QED  BY <3>1, <3>2
    <2>4. Counted'
      <3>1. Cardinality(members') =
              IF i \in members THEN Cardinality(members) ELSE Cardinality(members) + 1
        BY MembersFinite, FS_AddElement
      <3>2. touched = {} => i \notin members
        BY <1>2 DEF Untouched
      <3>. QED  BY <3>1, <3>2, MembersFinite DEF Counted, Types
    <2>. QED  BY <2>1, <2>2, <2>3, <2>4
  <1>. QED  BY <1>1, <1>2

LEMMA ResetKeeps ==
    ASSUME IInv, NEW i \in Index, Reset(i)
    PROVE  IInv'
  <1>. USE DEF IInv
  <1>p. group_index(i) \in Groups /\ Bit(i) \in 0..group_size - 1
    BY IndexParts
  <1>m. members' = members \ {i}
    BY DEF Reset
  <1>c. Cardinality(members') =
          IF i \in members THEN Cardinality(members) - 1 ELSE Cardinality(members)
    BY <1>m, MembersFinite, FS_RemoveElement
  <1>1. CASE IsSet(i)
    <2>. /\ set' = [set EXCEPT ![group_index(i)] = {}]
         /\ size' = size - 1 /\ touched' = touched \cup {group_index(i)}
      BY <1>1 DEF Reset
    <2>m. i \in members
      BY <1>1, OneIsMember
    <2>n. Cardinality(members) >= 1
      BY <2>m, MembersFinite, FS_EmptySet
    <2>1. Types'
      BY <1>p, <1>m, <2>n, MembersFinite DEF Types, Counted
    <2>2. OnesAreMembers'
      <3>. SUFFICES ASSUME NEW g \in Groups, NEW b \in set'[g]
                    PROVE  g * group_size + b \in members'
        BY DEF OnesAreMembers
      <3>1. g # group_index(i) /\ b \in set[g] /\ b \in 0..group_size - 1
        BY DEF Types
      <3>2. g * group_size + b \in members
        BY <3>1 DEF OnesAreMembers
      <3>3. g * group_size + b # i
        BY <3>1, PartsOfIndex, GroupsAreNat
      <3>. QED  BY <3>2, <3>3, <1>m
    <2>3. Untouched'
      <3>. SUFFICES ASSUME NEW j \in members', group_index(j) \notin touched'
                    PROVE  Bit(j) \in set'[group_index(j)]
        BY DEF Untouched, IsSet
      <3>1. j \in members /\ group_index(j) \notin touched /\ group_index(j) # group_index(i)
        BY <1>m
      <3>2. Bit(j) \in set[group_index(j)] /\ group_index(j) \in Groups
        BY <3>1, IndexParts DEF Untouched, IsSet, Types
      <3>. QED  BY <3>1, <3>2 DEF Types
    <2>4. Counted'
      BY <1>c, <2>m, MembersFinite DEF Counted, Types
    <2>. QED  BY <2>1, <2>2, <2>3, <2>4
  <1>2. CASE ~IsSet(i)
    <2>. set' = set /\ size' = size /\ touched' = touched
      BY <1>2 DEF Reset
    <2>1. Types'
      BY <1>m DEF Types
    <2>2. OnesAreMembers'
      <3>. SUFFICES ASSUME NEW g \in Groups, NEW b \in set[g]
                    PROVE  g * group_size + b \in members'
        BY DEF OnesAreMembers
      <3>1. b \in 0..group_size - 1 /\ g * group_size + b \in members
        BY DEF OnesAreMembers, Types
      <3>2. g * group_size + b # i
        BY <3>1, <1>2, PartsOfIndex, GroupsAreNat DEF IsSet
      <3>. QED  BY <3>1, <3>2, <1>m
    <2>3. Untouched'
      BY <1>m DEF Untouched, IsSet
    <2>4. Counted'
      <3>1. touched = {} => i \notin members
        BY <1>2 DEF Untouched
      <3>. QED  BY <3>1, <1>c, MembersFinite DEF Counted, Types
    <2>. QED  BY <2>1, <2>2, <2>3, <2>4
  <1>. QED  BY <1>1, <1>2

LEMMA StepKeeps == IInv /\ [Next]_vars => IInv'
  <1>. SUFFICES ASSUME IInv, [Next]_vars PROVE IInv'
    OBVIOUS
  <1>1. CASE UNCHANGED vars
    BY <1>1 DEF IInv, Types, OnesAreMembers, Untouched, Counted, IsSet, vars
  <1>2. ASSUME NEW i \in Index, Set(i) PROVE IInv'
    BY <1>2, SetKeeps
  <1>3. ASSUME NEW i \in Index, Reset(i) PROVE IInv'
    BY <1>3, ResetKeeps
  <1>4. CASE Clear
    BY <1>4, FS_EmptySet
       DEF Clear, IInv, Types, OnesAreMembers, Untouched, Counted, IsSet
  <1>5. CASE ResetAborts \/ Free
    BY <1>5 DEF ResetAborts, Free, IInv, Types, OnesAreMembers, Untouched, Counted, IsSet
  <1>. QED  BY <1>1, <1>2, <1>3, <1>4, <1>5 DEF Next, Over

\* Whatever the order of the calls, a one is a member, the members of a group
\* no reset has hit have their bit, and the counter falls short of nothing.
THEOREM AlwaysIInv == Spec => []IInv
  BY InitIInv, StepKeeps, PTL DEF Spec

-----------------------------------------------------------------------------

\* For every word size and capacity, bitset_isset reports nothing that was not
\* set or that was reset or cleared since.
THEOREM NoFalseMember == Spec => []OnesAreMembers
  BY AlwaysIInv, PTL DEF IInv

LEMMA IInvCounts == IInv => CountNeverShort
  <1>. SUFFICES ASSUME IInv PROVE CountNeverShort
    OBVIOUS
  <1>1. Ones \subseteq members
    BY OneIsMember DEF IInv, Ones
  <1>2. Cardinality(Ones) <= Cardinality(members) /\ Cardinality(Ones) \in Nat
    BY <1>1, MembersFinite, FS_Subset, FS_CardinalityType DEF IInv
  <1>. QED  BY <1>2, MembersFinite DEF IInv, Counted, Types, CountNeverShort

\* The counter of bitset_count never wraps around below zero.
THEOREM CounterHolds == Spec => []CountNeverShort
  BY AlwaysIInv, IInvCounts, PTL

LEMMA IInvExact == IInv => ExactUntilReset
  <1>. SUFFICES ASSUME IInv PROVE ExactUntilReset
    OBVIOUS
  <1>1. IsFiniteSet(Index) /\ Cardinality(Index) = capcity
    BY BitsetAssumption, FS_Interval DEF Index
  <1>2. Cardinality(members) = capcity <=> members = Index
    BY <1>1, FS_Subset DEF IInv, Types
  <1>. QED  BY <1>2 DEF IInv, Untouched, Counted, ExactUntilReset, IsAllSet

\* Until a reset hits, isset, count and isallset are exact for every capacity.
THEOREM ExactBeforeReset == Spec => []ExactUntilReset
  BY AlwaysIInv, IInvExact, PTL
=============================================================================
