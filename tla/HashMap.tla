------------------------------ MODULE HashMap -------------------------------
(***************************************************************************)
(* at_hashmap.c: an array of buckets, each a node in use or not, with      *)
(* further nodes of the same bucket on a doubly linked list behind it.     *)
(* Keys of every type are modelled by their hash.                          *)
(*                                                                         *)
(* A node's address is a number: the buckets are 0..capcity-1, the nodes   *)
(* of malloc come after MaxCapcity, and DOMAIN nodes is what is allocated. *)
(* Which free address malloc picks is immaterial as long as no pointer     *)
(* outlives its node: a call that leaves such a pointer in the map ends    *)
(* the behaviour in state "dangling".                                      *)
(*                                                                         *)
(* An operator that stands directly before a definition and that nothing   *)
(* uses is a mutant of that definition.                                    *)
(***************************************************************************)
EXTENDS SequencesExt

CONSTANTS Key,                  \* the keys
          Hash,                 \* their hashes
          Value,                \* the values
          Zeros,                \* the zeros of calloc
          Requested,            \* the capacities callers ask for
          DEFAULT_MAP_CAPCITY,  \* what they get for one that is not positive
          MaxCapcity,           \* bound of the model: no expansion beyond it
          MaxShifts,            \* bound of the model: no more leaked nodes
          LoadFactors           \* what a caller may set, in quarters

ASSUME HashMapAssumption ==
    /\ Hash \in [Key -> Nat]
    /\ Requested \subseteq Int
    /\ DEFAULT_MAP_CAPCITY \in Nat \ {0}
    /\ MaxCapcity \in Nat /\ MaxShifts \in Nat
    /\ LoadFactors \subseteq Int

VARIABLES
    nodes,        \* the allocated nodes by address
    capcity,      \* map->capcity
    load_factor,  \* map->load_factor, in quarters
    threshold,    \* map->threshold
    size,         \* map->size
    state,        \* "live", "freed", "dangling" (a link to a freed node),
                  \* "hung" (a call that never returns) or "broken" (expand_map
                  \* ran out of memory half-way)
    held,         \* history: the node whose value hashmap_get returned, or Null
                  \* when the caller may no longer use the pointer
    heldKey,      \* history: the key it was asked for
    itr,          \* the iterator: [next_node, bucket_index], or NoItr
    promised,     \* history: the keys present when the iteration began
    seen,         \* history: the keys it has returned
    shifts        \* history: the removals that copied a node into its bucket

table == <<nodes, capcity, load_factor, threshold, size>>
client == <<held, heldKey, itr, promised, seen>>
vars == <<table, state, client, shifts>>

Null == -1
NoItr == [next_node |-> Null, bucket_index |-> -1]

Buckets == 0..capcity - 1
key_hashcode(k, mask) == Hash[k] % mask
Blank == [key |-> Zeros, value |-> Zeros, prev |-> Null, next |-> Null,
          is_inuse |-> FALSE]

\* Any address malloc may return with the nodes of t allocated: the lowest.
Malloc(t) == Min({a \in MaxCapcity..MaxCapcity + Cardinality(DOMAIN t) :
                  a \notin DOMAIN t})

\* The nodes of table t from p on, along next.
Listed(t, p) ==
    LET from[q \in DOMAIN t \cup {Null}] ==
            IF q = Null THEN {} ELSE {q} \cup from[t[q].next]
    IN from[p]

\* The nodes of bucket i.
Chain(t, i) == IF t[i].is_inuse THEN Listed(t, i) ELSE {}
Stored == UNION {Chain(nodes, i) : i \in Buckets}
KeysIn == {nodes[p].key : p \in Stored}

\* Allocated, but neither a bucket nor on a list.
Leaked == DOMAIN nodes \ (Stored \cup Buckets)

\* The first node with key k of its bucket, as hashmap_get and hashmap_insert
\* look for it, or Null.
Find(t, c, k) ==
    LET hits == {p \in Chain(t, key_hashcode(k, c)) : t[p].key = k}
    IN IF hits = {} THEN Null ELSE CHOOSE p \in hits : hits \subseteq Listed(t, p)

\* int = float * int, rounding towards zero.
Threshold(l, c) == IF l < 0 THEN -((-l * c) \div 4) ELSE (l * c) \div 4

PowerOfTwo[i \in Nat] == IF i = 0 THEN 1 ELSE 2 * PowerOfTwo[i - 1]

\* The least power of two that is not below n.  That min2n computes it is
\* RoundingExact of TextTools.
min2n(n) == Min({p \in {PowerOfTwo[i] : i \in 0..n} : p >= n})

\* hashmap_new
Init ==
    /\ capcity \in {min2n(IF c <= 0 THEN DEFAULT_MAP_CAPCITY ELSE c) :
                    c \in Requested}
    /\ capcity <= MaxCapcity
    /\ nodes = [i \in Buckets |-> Blank]
    /\ load_factor = 3
    /\ threshold = Threshold(3, capcity)
    /\ size = 0
    /\ state = "live"
    /\ held = Null /\ heldKey = Zeros
    /\ itr = NoItr /\ promised = {} /\ seen = <<>>
    /\ shifts = 0

-----------------------------------------------------------------------------
(* The order of the nodes                                                   *)

NextBucketSkips(i) ==
    LET used == {j \in i + 1..capcity - 1 : nodes[j].is_inuse}
    IN IF used = {} THEN [next_node |-> Null, bucket_index |-> i]
       ELSE [next_node |-> Min(used), bucket_index |-> Min(used)]

\* next_valid_bucket from bucket i on.
NextBucket(i) ==
    LET used == {j \in i..capcity - 1 : nodes[j].is_inuse}
    IN IF used = {} THEN [next_node |-> Null, bucket_index |-> i]
       ELSE [next_node |-> Min(used), bucket_index |-> Min(used)]

\* The node after that of iterator it, in the order of hashmap_next and of
\* expand_map.
After(it) ==
    LET next == nodes[it.next_node].next
    IN IF next # Null THEN [it EXCEPT !.next_node = next]
                      ELSE NextBucket(it.bucket_index + 1)

-----------------------------------------------------------------------------
(* hashmap_insert                                                           *)

LinkedInFront(t, i, k, v) ==
    LET a == Malloc(t)
    IN [b \in DOMAIN t \cup {a} |->
            CASE b = a -> [t[i] EXCEPT !.prev = i]
              [] b = i -> [key |-> k, value |-> v, prev |-> Null,
                           next |-> a, is_inuse |-> TRUE]
              [] b = t[i].next -> [t[b] EXCEPT !.prev = a]
              [] OTHER -> t[b]]

\* A new node holding key k and value v, linked behind bucket i of table t.
Linked(t, i, k, v) ==
    LET a == Malloc(t)
    IN [b \in DOMAIN t \cup {a} |->
            CASE b = a -> [key |-> k, value |-> v, prev |-> i,
                           next |-> t[i].next, is_inuse |-> TRUE]
              [] b = i -> [t[i] EXCEPT !.next = a]
              [] b = t[i].next -> [t[b] EXCEPT !.prev = a]
              [] OTHER -> t[b]]

\* Key k, which is not in table t of capacity c, into its bucket or behind it.
Added(t, c, k, v) ==
    LET i == key_hashcode(k, c)
    IN IF t[i].is_inuse
       THEN Linked(t, i, k, v)
       ELSE [t EXCEPT ![i].key = k, ![i].value = v, ![i].is_inuse = TRUE]

RehashOldMask(t, n, c) == Added(t, c \div 2, n.key, n.value)

\* rehash: a copy of node n into the new table of capacity c.
Rehash(t, n, c) == Added(t, c, n.key, n.value)

\* expand_map's loops after n nodes: the node they come to, and the new table.
\* They end where size nodes are done and the list of the last is, too.  All old
\* nodes are freed in the end, so the new ones get any address.
expand_map[n \in 0..Cardinality(DOMAIN nodes)] ==
    IF n = 0
    THEN [at |-> IF size > 0 THEN NextBucket(0) ELSE NoItr,
          tab |-> [a \in 0..2 * capcity - 1 \cup Leaked |->
                     IF a \in Leaked THEN nodes[a] ELSE Blank]]
    ELSE LET done == expand_map[n - 1]
             p == done.at.next_node
         IN IF p = Null THEN done
            ELSE [at |-> IF nodes[p].next = Null /\ n >= size THEN NoItr
                         ELSE After(done.at),
                  tab |-> Rehash(done.tab, nodes[p], 2 * capcity)]

Expanded == expand_map[Cardinality(DOMAIN nodes)].tab

\* The part of hashmap_insert that follows the expansion.
Put(t, c, k, v) ==
    LET p == Find(t, c, k)
    IN IF p # Null
       THEN nodes' = [t EXCEPT ![p].value = v] /\ UNCHANGED size
       ELSE nodes' = Added(t, c, k, v) /\ size' = size + 1

\* What a caller has of the map that no longer can be used.
DropIterator == itr' = NoItr /\ promised' = {} /\ seen' = <<>>
DropPointer == held' = Null /\ heldKey' = Zeros

Full == size >= threshold

Insert(k, v) ==
    /\ ~Full
    /\ Put(nodes, capcity, k, v)
    /\ UNCHANGED <<capcity, load_factor, threshold, state, client, shifts>>

\* With the expansion first, even when the key is there already.
InsertExpand(k, v) ==
    /\ Full
    /\ 2 * capcity <= MaxCapcity
    /\ Put(Expanded, 2 * capcity, k, v)
    /\ capcity' = 2 * capcity
    /\ threshold' = Threshold(load_factor, 2 * capcity)
    /\ DropIterator /\ DropPointer
    /\ UNCHANGED <<load_factor, state, shifts>>

\* calloc of the new buckets fails: AT_FALSE, and nothing has changed.
InsertRefused == Full /\ UNCHANGED vars

\* malloc of a new node fails in the middle of the expansion: AT_FALSE, "map
\* has been broken".
InsertBreaks ==
    /\ Full
    /\ 2 * capcity <= MaxCapcity
    /\ \E a \in DOMAIN Expanded \ Leaked : a >= MaxCapcity
    /\ state' = "broken"
    /\ DropIterator /\ DropPointer
    /\ UNCHANGED <<table, shifts>>

\* hashmap_setloadfactor: only a factor that is not positive is taken.
SetLoadFactor(l) ==
    /\ l <= 0
    /\ load_factor' = l
    /\ threshold' = Threshold(l, capcity)
    /\ UNCHANGED <<nodes, capcity, size, state, client, shifts>>

-----------------------------------------------------------------------------
(* hashmap_get and the iterator                                             *)

\* A caller holds the pointer to a value or an iterator, not both at a time.
Get(k) ==
    /\ itr = NoItr
    /\ held' = Find(nodes, capcity, k)
    /\ heldKey' = IF held' = Null THEN Zeros ELSE k
    /\ UNCHANGED <<table, state, itr, promised, seen, shifts>>

Iterate ==
    /\ held = Null
    /\ itr' = NextBucket(0)
    /\ promised' = KeysIn
    /\ seen' = <<>>
    /\ UNCHANGED <<table, state, held, heldKey, shifts>>

\* hashmap_next; the key it returns is added to seen.
IteratorNext ==
    /\ itr.next_node # Null
    /\ seen' = Append(seen, nodes[itr.next_node].key)
    /\ itr' = After(itr)
    /\ UNCHANGED <<table, state, held, heldKey, promised, shifts>>

\* hashmap_next returns NULL and the caller is done with the iterator.
IteratorEnd ==
    /\ itr # NoItr
    /\ itr.next_node = Null
    /\ DropIterator
    /\ UNCHANGED <<table, state, held, heldKey, shifts>>

-----------------------------------------------------------------------------
(* hashmap_remove, by what is in the bucket of the key                      *)

Index(k) == key_hashcode(k, capcity)
InBucket(k) == nodes[Index(k)].is_inuse /\ nodes[Index(k)].key = k
Behind(k) == nodes[Index(k)].next
Freed(t, p) == Restrict(t, DOMAIN t \ {p})

\* After a removal iterators are not used again, nor is the pointer to the
\* value of key k or of what was in one of the places ps.
Removed(k, ps) ==
    /\ size' = size - 1
    /\ DropIterator
    /\ IF heldKey = k \/ held \in ps
       THEN DropPointer ELSE UNCHANGED <<held, heldKey>>
    /\ UNCHANGED <<capcity, load_factor, threshold>>

\* No such key, and at most one node to compare it with.
RemoveMiss(k) ==
    /\ ~InBucket(k)
    /\ nodes[Index(k)].is_inuse => Behind(k) = Null
    /\ UNCHANGED vars

\* The key is in the bucket itself, which has no followers.
RemoveAlone(k) ==
    /\ InBucket(k) /\ Behind(k) = Null
    /\ nodes' = [nodes EXCEPT ![Index(k)].is_inuse = FALSE]
    /\ Removed(k, {})
    /\ UNCHANGED <<state, shifts>>

ShiftedKeyOnly(t, i) ==
    [t EXCEPT ![i].key = t[t[i].next].key, ![i].next = t[t[i].next].next]

\* The first follower of bucket i, copied into the bucket.
Shifted(t, i) ==
    [t EXCEPT ![i] = [t[t[i].next] EXCEPT !.prev = t[i].prev]]

\* The key is in the bucket itself, with followers: free(node_ptr->next) comes
\* after the shift.  It frees NULL instead of the first follower, or the second
\* follower, which is the bucket's successor by then.
RemoveHead(k) ==
    LET third == nodes[Behind(k)].next
    IN /\ InBucket(k) /\ Behind(k) # Null
       /\ shifts < MaxShifts
       /\ nodes' = Freed(Shifted(nodes, Index(k)), third)
       /\ shifts' = shifts + 1
       /\ state' = IF third = Null THEN state ELSE "dangling"
       /\ Removed(k, {Index(k), Behind(k), third})

\* Node p taken out of its list.
Unlinked(t, p) ==
    [q \in DOMAIN t |->
        CASE q = t[p].prev -> [t[q] EXCEPT !.next = t[p].next]
          [] q = t[p].next -> [t[q] EXCEPT !.prev = t[p].prev]
          [] OTHER -> t[q]]

\* The key is in the first follower.
RemoveSecond(k) ==
    /\ nodes[Index(k)].is_inuse /\ ~InBucket(k) /\ Behind(k) # Null
    /\ nodes[Behind(k)].key = k
    /\ nodes' = Freed(Unlinked(nodes, Behind(k)), Behind(k))
    /\ Removed(k, {})
    /\ UNCHANGED <<state, shifts>>

\* The first follower has another key: the loop compares it for ever.
RemoveHangs(k) ==
    /\ nodes[Index(k)].is_inuse /\ ~InBucket(k) /\ Behind(k) # Null
    /\ nodes[Behind(k)].key # k
    /\ state' = "hung"
    /\ DropIterator /\ DropPointer
    /\ UNCHANGED <<table, shifts>>

\* hashmap_free: the nodes on the lists and the buckets.  It reads next from a
\* node it has just freed, where the C library has left it as it was.
Free ==
    /\ nodes' = Restrict(nodes, Leaked)
    /\ state' = "freed"
    /\ DropIterator /\ DropPointer
    /\ UNCHANGED <<capcity, load_factor, threshold, size, shifts>>

\* The map, or the program, is gone.
Over == state # "live" /\ UNCHANGED vars

RemoveKey(k) ==
    \/ RemoveMiss(k)
    \/ RemoveAlone(k)
    \/ RemoveHead(k)
    \/ RemoveSecond(k)
    \/ RemoveHangs(k)

Next ==
    \/ /\ state = "live"
       /\ \/ \E k \in Key, v \in Value : Insert(k, v) \/ InsertExpand(k, v)
          \/ InsertRefused
          \/ InsertBreaks
          \/ \E l \in LoadFactors : SetLoadFactor(l)
          \/ \E k \in Key : Get(k) \/ RemoveKey(k)
          \/ Iterate
          \/ IteratorNext
          \/ IteratorEnd
          \/ Free
    \/ Over

Spec == Init /\ [][Next]_vars

-----------------------------------------------------------------------------
(* Properties.                                                              *)

\* The lists are well formed both ways: a node's successor is allocated and
\* names it as its predecessor, and a bucket not in use has no successor.
\* (hashmap_insert takes such a bucket without resetting its next, and
\* hashmap_remove relies on prev.)
LinksAgree ==
    /\ \A p \in Stored : nodes[p].next # Null =>
          /\ nodes[p].next \in DOMAIN nodes \ Buckets
          /\ nodes[nodes[p].next].prev = p
          /\ nodes[nodes[p].next].is_inuse
    /\ \A i \in Buckets : ~nodes[i].is_inuse => nodes[i].next = Null

\* A search for the key of any stored node, with the capacity of the moment,
\* comes to that very node: no key is stored twice, none in a bucket where it
\* would not be found after an expansion.
KeysFindable == \A p \in Stored : Find(nodes, capcity, nodes[p].key) = p

\* map->size is the number of stored nodes, which is what ends the loop of
\* expand_map, and with the default load factor it stays within the threshold.
SizeCounts ==
    /\ size = Cardinality(Stored)
    /\ load_factor > 0 => size <= threshold

\* A map in use is well formed: its links agree in both directions, the search
\* for a key ends at its only node, map->size counts the nodes, and a node is
\* lost only where hashmap_remove moves a follower into the bucket, one each
\* time.  hashmap_free releases all the others.
MapWellFormed ==
    /\ state = "live" =>
          /\ \E i \in 0..capcity : capcity = PowerOfTwo[i]
          /\ LinksAgree /\ KeysFindable /\ SizeCounts
          /\ Cardinality(Leaked) = shifts
    /\ state = "freed" => Cardinality(DOMAIN nodes) = shifts

\* The pointer that hashmap_get returned still shows the value of its key, the
\* newest one, after any number of insertions that did not expand the map and
\* any removal but that of the key or of the bucket before it, even one that
\* spoils another list.
HeldIntact ==
    held # Null =>
    /\ held \in DOMAIN nodes
    /\ nodes[held].key = heldKey
    /\ state = "live" => held \in Stored

\* An iteration over a map that is only inserted into, and not expanded,
\* returns no key twice and, when it ends, has returned every key that was
\* there when it began.
IterationExact ==
    itr # NoItr =>
    /\ IsInjective(seen)
    /\ itr.next_node = Null => promised \subseteq ToSet(seen)
    /\ itr.next_node # Null => itr.next_node \in Stored

\* The map is a dictionary: through collisions, expansion, overwriting and
\* removal every key keeps its last value.
Contents ==
    IF state = "live"
    THEN [k \in KeysIn |-> nodes[Find(nodes, capcity, k)].value]
    ELSE [k \in {} |-> Zeros]
Abstract == INSTANCE Dictionary WITH map <- Contents, open <- state = "live"
ImplementsDictionary == Abstract!Spec

\* hashmap_remove returns and hashmap_get then finds nothing
\* (tests/test_hashmap.c:40-43).
RemoveReturns == state # "hung"
=============================================================================
