------------------------------ MODULE HashSet -------------------------------
(***************************************************************************)
(* at_hashset.c: a hash map whose values are one placeholder.  Its calls   *)
(* are the map's, with hashset_array besides, which returns the keys as an *)
(* array: for the numeric types of pointers into the nodes of the map.     *)
(***************************************************************************)
EXTENDS HashMap

VARIABLES
    array,      \* the nodes the array of the caller points into, or NoArray
    room,       \* the pointers that were allocated for it
    listed      \* history: the members when it was made

setVars == <<vars, array, room, listed>>

NoArray == <<Null>>

hashset_iscontain(k) == Find(nodes, capcity, k) # Null

HashsetInit == Init /\ array = NoArray /\ room = 0 /\ listed = {}

\* The iterator after n calls of hashmap_next.
hashmap_next[n \in 0..Cardinality(DOMAIN nodes)] ==
    IF n = 0 THEN NextBucket(0)
    ELSE IF hashmap_next[n - 1].next_node = Null THEN hashmap_next[n - 1]
    ELSE After(hashmap_next[n - 1])

\* All the nodes an iterator comes to.
Visited ==
    LET ended == {n \in 0..Cardinality(DOMAIN nodes) :
                    hashmap_next[n].next_node = Null}
    IN [n \in 1..Min(ended) |-> hashmap_next[n - 1].next_node]

\* The array has one pointer more than the set has members, for the NULL that
\* ends it; an empty set has no array at all.
HashsetArray ==
    /\ held = Null /\ itr = NoItr
    /\ IF size = 0
       THEN array' = NoArray /\ room' = 0 /\ listed' = {}
       ELSE /\ array' = Visited
            /\ room' = size + 1
            /\ listed' = {k \in Key : hashset_iscontain(k)}
    /\ UNCHANGED vars

\* What an insertion leaves where it is, unless it expands the table.
PointersStay ==
    /\ capcity' = capcity /\ size' >= size /\ state' = state
    /\ UNCHANGED <<array, room, listed>>

\* After anything else the caller no longer uses the array.
ArrayDropped ==
    /\ capcity' # capcity \/ size' < size \/ state' # state
    /\ array' = NoArray /\ room' = 0 /\ listed' = {}

\* A caller has the array, an iterator or a pointer, one at a time.
HashsetNext ==
    \/ /\ Next
       /\ array # NoArray => itr' = NoItr /\ held' = Null
       /\ PointersStay \/ ArrayDropped
    \/ state = "live" /\ HashsetArray

HashsetSpec == HashsetInit /\ [][HashsetNext]_setVars

\* The array lists every member once, ends within the memory allocated for it,
\* and still shows the members it was made of after any insertions that did
\* not expand the table, although it points into the nodes.
ArrayExact ==
    array # NoArray =>
    /\ Len(array) + 1 = room
    /\ ToSet(array) \subseteq Stored
    /\ {nodes[array[i]].key : i \in DOMAIN array} = listed
    /\ Len(array) = Cardinality(listed)
=============================================================================
