------------------------------- MODULE Bitset -------------------------------
(***************************************************************************)
(* at_bitset.c: bits in groups of one machine word, with a counter beside  *)
(* them.  `temp <<= index` with an index beyond the word is undefined in   *)
(* C; on the machines the library is built for the shift takes the index   *)
(* modulo the word, which is what the model does.                          *)
(*                                                                         *)
(* An operator that stands directly before an action and that nothing uses *)
(* is a mutant of that action.                                             *)
(***************************************************************************)
EXTENDS Integers, FiniteSets

CONSTANTS group_size,   \* bits in an unsigned long
          capcity,      \* bits the caller asked for
          MaxSize       \* bound of the model on the counter

ASSUME BitsetAssumption ==
    /\ group_size \in Nat \ {0}
    /\ capcity \in Nat \ {0}
    /\ MaxSize \in Nat

VARIABLES
    set,        \* bitset->set: the positions of the ones, by group
    size,       \* bitset->size
    state,      \* "live", "freed" or "aborted" (by an assert)
    members,    \* history: the indices set and neither reset nor cleared since
    touched     \* history: the groups with a reset since the last clear

vars == <<set, size, state, members, touched>>

group_index(i) == i \div group_size
Bit(i) == i % group_size

Index == 0..capcity - 1
Groups == 0..group_index(capcity - 1)

\* bitset_isset, bitset_isallset
IsSet(i) == Bit(i) \in set[group_index(i)]
IsAllSet == size = capcity

Ones == {i \in Index : IsSet(i)}

Init ==
    /\ set = [g \in Groups |-> {}]
    /\ size = 0
    /\ state = "live"
    /\ members = {} /\ touched = {}

SetCountsAlways(i) ==
    /\ set' = [set EXCEPT ![group_index(i)] = @ \cup {Bit(i)}]
    /\ size < MaxSize
    /\ size' = size + 1
    /\ members' = members \cup {i}
    /\ UNCHANGED <<state, touched>>

\* bitset_set, returning 0 for a new bit and -1 for an old one.
Set(i) ==
    /\ IF IsSet(i)
       THEN UNCHANGED <<set, size>>
       ELSE /\ size < MaxSize
            /\ set' = [set EXCEPT ![group_index(i)] = @ \cup {Bit(i)}]
            /\ size' = size + 1
    /\ members' = members \cup {i}
    /\ UNCHANGED <<state, touched>>

ResetCountsBits(i) ==
    /\ i > 0
    /\ set' = [set EXCEPT ![group_index(i)] = {}]
    /\ size' = size - Cardinality(set[group_index(i)])
    /\ touched' = touched \cup {group_index(i)}
    /\ members' = members \ {i}
    /\ UNCHANGED state

\* bitset_reset: `temp = 0; set[group_idx] &= temp`.
Reset(i) ==
    /\ i > 0
    /\ IF IsSet(i)
       THEN /\ set' = [set EXCEPT ![group_index(i)] = {}]
            /\ size' = size - 1
            /\ touched' = touched \cup {group_index(i)}
       ELSE UNCHANGED <<set, size, touched>>
    /\ members' = members \ {i}
    /\ UNCHANGED state

\* bitset_reset of index 0: assert(index > 0 ...).
ResetAborts ==
    /\ state' = "aborted"
    /\ UNCHANGED <<set, size, members, touched>>

ClearFirstGroup ==
    /\ set' = [set EXCEPT ![0] = {}]
    /\ size' = 0
    /\ members' = {} /\ touched' = {}
    /\ UNCHANGED state

\* bitset_clear
Clear ==
    /\ set' = [g \in Groups |-> {}]
    /\ size' = 0
    /\ members' = {} /\ touched' = {}
    /\ UNCHANGED state

\* bitset_free
Free ==
    /\ state' = "freed"
    /\ UNCHANGED <<set, size, members, touched>>

\* The bitset is gone, or the program is.
Over == state # "live" /\ UNCHANGED vars

Next ==
    \/ /\ state = "live"
       /\ \/ \E i \in Index : Set(i) \/ Reset(i)
          \/ ResetAborts
          \/ Clear
          \/ Free
    \/ Over

Spec == Init /\ [][Next]_vars

-----------------------------------------------------------------------------
(* Properties.                                                              *)

\* bitset_isset never reports an index that was not set, or that was reset or
\* cleared since; nor is there a one where the last group goes on beyond the
\* capacity.
OnesAreMembers ==
    \A g \in Groups : \A b \in set[g] : g * group_size + b \in members

\* The unsigned counter never falls below the number of indices that are in
\* the set, so bitset_reset, which takes one off for a whole group of bits,
\* cannot make it wrap around.
CountNeverShort ==
    /\ Cardinality(members) <= size
    /\ Cardinality(Ones) <= size

\* Where no reset has hit a group the bits of that group are exact, and while
\* no reset has hit any, bitset_count and bitset_isallset are exact too.
ExactUntilReset ==
    /\ \A i \in members : group_index(i) \notin touched => IsSet(i)
    /\ touched = {} =>
         /\ size = Cardinality(members)
         /\ IsAllSet <=> members = Index
=============================================================================
