------------------------------ MODULE MemPool -------------------------------
(***************************************************************************)
(* at_mpool.c: one buffer, cut into blocks of a header and data, the       *)
(* headers linked both ways in the order of their addresses.  Addresses    *)
(* count from mpool->start; sizes are in a unit of which the header has    *)
(* RESERVE_ALLOC_SIZE.                                                     *)
(*                                                                         *)
(* An operator that stands directly before a definition and that nothing   *)
(* uses is a mutant of that definition.                                    *)
(***************************************************************************)
EXTENDS Integers, FiniteSetsExt, Functions

CONSTANTS Capacity,             \* the size given to mpool_create
          RESERVE_ALLOC_SIZE,   \* the size of a header
          Request               \* the sizes asked for

ASSUME MemPoolAssumption ==
    /\ Capacity \in Nat
    /\ RESERVE_ALLOC_SIZE \in Nat \ {0}
    /\ Request \subseteq Nat

VARIABLES
    hdr,          \* the headers on the list by address: end, prev, next
    allocs,       \* mpool->allocs
    last_alloc,   \* mpool->last_alloc
    total_free,   \* mpool->total_free
    state,        \* "live", "freed", "dangling" (the pool was freed under its
                  \* caller), "corrupted" or "crashed"
    owned,        \* history: the data pointers callers hold, with their sizes,
                  \* but those whose block mpool_compress has moved
    refused       \* history: the request just refused as fragmented, or Null

pool == <<hdr, allocs, last_alloc, total_free>>
vars == <<pool, state, owned, refused>>

Null == -1
RealSize(n) == n + RESERVE_ALLOC_SIZE

Length(p) == hdr[p].end - p

\* The block that has p for its successor.
Before(p) == CHOOSE q \in DOMAIN hdr : hdr[q].next = p

Init ==
    /\ hdr = [p \in {} |-> 0]
    /\ allocs = Null /\ last_alloc = Null
    /\ total_free = Capacity
    /\ state = "live"
    /\ owned = [p \in {} |-> 0]
    /\ refused = Null

-----------------------------------------------------------------------------
(* mpool_malloc                                                             *)

PlacedAfter(p, n, prev, next) ==
    [q \in DOMAIN hdr \cup {p} |->
        CASE q = p -> [end |-> p + RealSize(n), prev |-> prev, next |-> next]
          [] q = prev -> [hdr[q] EXCEPT !.next = p]
          [] OTHER -> hdr[q]]

\* The headers with a new one at address p, between prev and next.
Placed(p, n, prev, next) ==
    [q \in DOMAIN hdr \cup {p} |->
        CASE q = p -> [end |-> p + RealSize(n), prev |-> prev, next |-> next]
          [] q = prev -> [hdr[q] EXCEPT !.next = p]
          [] q = next -> [hdr[q] EXCEPT !.prev = p]
          [] OTHER -> hdr[q]]

\* The block at p, whatever list it is on, becomes the caller's.
HandOut(p, n) ==
    /\ total_free' = total_free - RealSize(n)
    /\ owned' = [q \in DOMAIN owned \cup {p + RESERVE_ALLOC_SIZE} |->
                    IF q = p + RESERVE_ALLOC_SIZE THEN n ELSE owned[q]]
    /\ refused' = Null
    /\ UNCHANGED state

Enough(n) == total_free >= RealSize(n)
TailFits(n) ==
    last_alloc # Null /\ Capacity - hdr[last_alloc].end >= RealSize(n)

MallocFirst(n) ==
    /\ Enough(n) /\ last_alloc = Null
    /\ hdr' = Placed(0, n, Null, Null)
    /\ allocs' = 0 /\ last_alloc' = 0
    /\ HandOut(0, n)

MallocTail(n) ==
    /\ Enough(n) /\ TailFits(n)
    /\ LET p == hdr[last_alloc].end
       IN /\ hdr' = Placed(p, n, last_alloc, Null)
          /\ last_alloc' = p
          /\ HandOut(p, n)
    /\ UNCHANGED allocs

\* The blocks with room for n between them and their successor.
GapsForData(n) ==
    {p \in DOMAIN hdr : hdr[p].next # Null /\ hdr[p].next - hdr[p].end > n}

Gaps(n) ==
    {p \in DOMAIN hdr : /\ hdr[p].next # Null
                        /\ hdr[p].next - hdr[p].end > RealSize(n)}

\* The first gap of the list that is larger than needed.
MallocGap(n) ==
    /\ Enough(n) /\ last_alloc # Null /\ ~TailFits(n)
    /\ Gaps(n) # {}
    /\ LET cur == Min(Gaps(n))
           p == hdr[cur].end
       IN /\ hdr' = Placed(p, n, cur, hdr[cur].next)
          /\ HandOut(p, n)
    /\ UNCHANGED <<allocs, last_alloc>>

-----------------------------------------------------------------------------
(* mpool_compress                                                           *)

TargetFromFirst ==
    LET at[p \in DOMAIN hdr] ==
            IF p = allocs THEN allocs ELSE at[Before(p)] + Length(Before(p))
    IN at

\* Where each block goes: the first of the list to the start of the pool, every
\* other to the end of its predecessor.
Target ==
    LET at[p \in DOMAIN hdr] ==
            IF p = allocs THEN 0 ELSE at[Before(p)] + Length(Before(p))
    IN at

\* mpool_move keeps the prev of the block as it is, also when the block it
\* names has just been moved.
Compressed ==
    [q \in {Target[p] : p \in DOMAIN hdr} |->
        LET p == CHOOSE b \in DOMAIN hdr : Target[b] = q
        IN [end |-> q + Length(p),
            prev |-> hdr[p].prev,
            next |-> IF hdr[p].next = Null THEN Null ELSE Target[hdr[p].next]]]

\* mpool_move writes the new header before it has read all of the old one: a
\* block that moves by less than a header loses it.
HeadersOverlap ==
    \E p \in DOMAIN hdr : p - Target[p] \in 1..RESERVE_ALLOC_SIZE - 1

\* The pool compressed; nobody holds a pointer to a block that has moved, and
\* last_alloc is where the loop along next ends.
CompressPool ==
    IF HeadersOverlap
    THEN /\ state' = "corrupted"
         /\ UNCHANGED <<pool, owned>>
    ELSE LET last == CHOOSE p \in DOMAIN hdr : hdr[p].next = Null
             kept == {d \in DOMAIN owned :
                        Target[d - RESERVE_ALLOC_SIZE] = d - RESERVE_ALLOC_SIZE}
         IN /\ hdr' = Compressed
            /\ allocs' = Target[allocs]
            /\ last_alloc' = Target[last]
            /\ owned' = Restrict(owned, kept)
            /\ UNCHANGED <<total_free, state>>

\* mpool_compress called by the owner of the pool.
Compress ==
    /\ allocs # Null
    /\ CompressPool
    /\ refused' = Null

\* ... of an empty pool: mpool_move reads a header at NULL.
CompressCrashes ==
    /\ allocs = Null
    /\ state' = "crashed"
    /\ UNCHANGED <<pool, owned, refused>>

\* mpool_malloc without a gap that is large enough: the pool is compressed
\* under the blocks in use, and the caller gets NULL.
MallocFragmented(n) ==
    /\ Enough(n) /\ last_alloc # Null /\ ~TailFits(n)
    /\ Gaps(n) = {}
    /\ CompressPool
    /\ refused' = n

\* mpool_malloc with too little left: mpool_expand frees the pool, and only a
\* local variable of mpool_malloc gets the larger one.
MallocShort(n) ==
    /\ ~Enough(n)
    /\ state' = "dangling"
    /\ UNCHANGED <<pool, owned, refused>>

\* mpool_calloc where mpool_malloc returns NULL: memset(NULL, ...).
CallocCrashes(n) ==
    /\ \/ ~Enough(n)
       \/ last_alloc # Null /\ ~TailFits(n) /\ Gaps(n) = {}
    /\ state' = "crashed"
    /\ UNCHANGED <<pool, owned, refused>>

-----------------------------------------------------------------------------
(* mpool_free, mpool_reset, mpool_destroy                                   *)

SpaceForData(d) == owned[d]

\* The space mpool_free gives back for the block of data pointer d.
SpaceOf(d) == Length(d - RESERVE_ALLOC_SIZE)

\* mpool_free of a pointer that is still good.
Free(d) ==
    LET p == d - RESERVE_ALLOC_SIZE
        prev == hdr[p].prev
        next == hdr[p].next
        linked == [q \in DOMAIN hdr |->
                     CASE q = prev -> [hdr[q] EXCEPT !.next = next]
                       [] q = next -> [hdr[q] EXCEPT !.prev = prev]
                       [] OTHER -> hdr[q]]
    IN /\ hdr' = Restrict(linked, DOMAIN hdr \ {p})
       /\ allocs' = IF prev = Null THEN next ELSE allocs
       /\ last_alloc' = IF next = Null THEN prev ELSE last_alloc
       /\ total_free' = total_free + SpaceOf(d)
       /\ owned' = Restrict(owned, DOMAIN owned \ {d})
       /\ refused' = Null
       /\ UNCHANGED state

\* mpool_reset; no pointer into the pool is good after it.
Reset ==
    /\ hdr' = [p \in {} |-> 0]
    /\ allocs' = Null /\ last_alloc' = Null
    /\ total_free' = Capacity
    /\ owned' = [p \in {} |-> 0]
    /\ refused' = Null
    /\ UNCHANGED state

Destroy ==
    /\ state' = "freed"
    /\ UNCHANGED <<pool, owned, refused>>

\* The pool, or the program, is gone.
Over == state # "live" /\ UNCHANGED vars

Malloc(n) ==
    \/ MallocFirst(n)
    \/ MallocTail(n)
    \/ MallocGap(n)
    \/ MallocFragmented(n)
    \/ MallocShort(n)

Next ==
    \/ /\ state = "live"
       /\ \/ \E n \in Request : Malloc(n) \/ CallocCrashes(n)
          \/ \E d \in DOMAIN owned : Free(d)
          \/ Compress
          \/ CompressCrashes
          \/ Reset
          \/ Destroy
    \/ Over

Spec == Init /\ [][Next]_vars

-----------------------------------------------------------------------------
(* Properties.                                                              *)

\* No two blocks overlap: the list goes upwards through the buffer, from the
\* lowest header on and past none, each block ends before the next one's header,
\* and last_alloc is where it ends, inside the buffer.
BlocksApart ==
    IF DOMAIN hdr = {} THEN allocs = Null /\ last_alloc = Null
    ELSE /\ allocs \in DOMAIN hdr /\ allocs >= 0
         /\ last_alloc \in DOMAIN hdr
         /\ hdr[last_alloc].next = Null /\ hdr[last_alloc].end <= Capacity
         /\ \A p \in DOMAIN hdr :
               /\ allocs <= p
               /\ p # last_alloc =>
                     /\ hdr[p].next \in DOMAIN hdr
                     /\ hdr[p].end <= hdr[p].next
               /\ \A q \in DOMAIN hdr : p < q => hdr[p].next \in p + 1..q

\* total_free is what the blocks, pushed together at the start, would leave of
\* the buffer, whichever way they were placed, moved and freed.
FreeAccounted ==
    total_free = Capacity - (IF DOMAIN hdr = {} THEN 0
                             ELSE Target[last_alloc] + Length(last_alloc))

\* Whoever holds a pointer to a block that was not moved under him has all of
\* the block, and mpool_free will find both its neighbours, also those that
\* mpool_compress has moved.
OwnersServed ==
    \A d \in DOMAIN owned :
        LET p == d - RESERVE_ALLOC_SIZE
        IN /\ p \in DOMAIN hdr
           /\ hdr[p].end = d + owned[d]
           /\ hdr[p].prev = Null => allocs = p
           /\ hdr[p].prev # Null =>
                 hdr[p].prev \in DOMAIN hdr /\ hdr[hdr[p].prev].next = p
           /\ hdr[p].next # Null => hdr[p].next \in DOMAIN hdr

\* A request that mpool_malloc refused as fragmented fits behind the last
\* block when it is repeated.
RetryFits == state = "live" /\ refused # Null => TailFits(refused)
=============================================================================
