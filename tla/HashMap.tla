------------------------------ MODULE HashMap -------------------------------
(***************************************************************************)
(* structures::hash_map down to the nodes of its buckets.  A pointer is    *)
(* the number of a node, in order of allocation, and 0 is nullptr.  Memory *)
(* is not used again; a walk that comes to a freed node is wild, and the   *)
(* behaviour ends there.                                                   *)
(***************************************************************************)
EXTENDS Integers, Sequences, FiniteSets

CONSTANTS
    HashKeys,       \* keys, which are their own hash
    HashVals,       \* values
    BucketCount,    \* DEFAULT_BUCKET_COUNT
    MaxNodes        \* bound: nodes allocated in a behaviour

ASSUME HashAssumption == HashKeys \subseteq Nat /\ BucketCount \in Nat \ {0} /\ MaxNodes \in Nat

VARIABLES
    hmap,       \* [buckets, size, nodes]
    hist        \* history: [content, second, wild]

hashVars == <<hmap, hist>>

EmptyBuckets(n) == [b \in 0..n - 1 |-> 0]

HashInit ==
    /\ hmap = [buckets |-> EmptyBuckets(BucketCount), size |-> 0, nodes |-> <<>>]
    /\ hist = [content |-> <<>>, second |-> FALSE, wild |-> FALSE]

Bucket(m, k) == k % Cardinality(DOMAIN m.buckets)

\* The pointers that a walk of bucket b follows
Chain(m, b) ==
    LET c[i \in 0..Len(m.nodes)] ==
            IF i = 0 THEN m.buckets[b] ELSE IF c[i - 1] = 0 THEN 0 ELSE m.nodes[c[i - 1]].next
    IN  c

Freed(m, p) == p # 0 /\ ~m.nodes[p].live

\* How far the walk for key k goes: to nullptr, to the key, or to a freed node.
Steps(m, k) ==
    LET c == Chain(m, Bucket(m, k))
        Ends(i) == c[i] = 0 \/ Freed(m, c[i]) \/ m.nodes[c[i]].key = k
    IN  CHOOSE i \in DOMAIN c : Ends(i) /\ \A j \in 0..i - 1 : ~Ends(j)

Find(m, k) == Chain(m, Bucket(m, k))[Steps(m, k)]

\* at: what the map says of a key; "none" stands for the empty item.
At(m, k) ==
    IF m.size = 0 \/ Find(m, k) = 0 THEN "none"
    ELSE IF Freed(m, Find(m, k)) THEN "wild"
    ELSE m.nodes[Find(m, k)].val

\* insert of an element whose key is not in the map: at the end of its bucket
Link(m, n) ==
    LET k == m.nodes[n].key
        b == Bucket(m, k)
        last == IF Steps(m, k) = 0 THEN 0 ELSE Chain(m, b)[Steps(m, k) - 1]
    IN  [m EXCEPT !.buckets[b] = IF last = 0 THEN n ELSE @,
                  !.nodes = [i \in DOMAIN @ |-> IF i = n THEN [@[i] EXCEPT !.next = 0, !.prev = last]
                                                ELSE IF i = last THEN [@[i] EXCEPT !.next = n] ELSE @[i]],
                  !.size = @ + 1]

\* The elements that rehash meets in a bucket, and in all of them
Elements(m, b) == SelectSeq([i \in 1..Len(m.nodes) |-> Chain(m, b)[i - 1]], LAMBDA p : p # 0)

AllElements(m) ==
    LET all[b \in 0..Cardinality(DOMAIN m.buckets)] ==
            IF b = 0 THEN <<>> ELSE all[b - 1] \o Elements(m, b - 1)
    IN  all[Cardinality(DOMAIN m.buckets)]

\* rehash: every element is inserted again, into twice as many buckets.
Rehash(m) ==
    LET all == AllElements(m)
        empty == [m EXCEPT !.buckets = EmptyBuckets(2 * Cardinality(DOMAIN m.buckets)), !.size = 0]
        done[i \in 0..Len(all)] == IF i = 0 THEN empty ELSE Link(done[i - 1], all[i])
    IN  done[Len(all)]

\* The map is full: its load factor goes above 1.
Full(m) == m.size > Cardinality(DOMAIN m.buckets)

\* insert, for a key that is not in the map
AddElement(m, k, v) ==
    LET linked == Link([m EXCEPT !.nodes = Append(@, [key |-> k, val |-> v, next |-> 0, prev |-> 0, live |-> TRUE])],
                       Len(m.nodes) + 1)
    IN  IF Full(linked) THEN Rehash(linked) ELSE linked

\* A rehash of a map with a freed element
MeetsFreed(m) == Full([m EXCEPT !.size = @ + 1]) /\ \E p \in DOMAIN m.nodes :
    Freed(m, p) /\ \E i \in 1..Len(AllElements(m)) : AllElements(m)[i] = p

GoesWild ==
    /\ hist' = [hist EXCEPT !.wild = TRUE]
    /\ UNCHANGED hmap

Put(k, v) == [x \in DOMAIN hist.content \cup {k} |-> IF x = k THEN v ELSE hist.content[x]]

-----------------------------------------------------------------------------

\* insert: an element that is there is left alone.
HashInsert(k, v) ==
    /\ ~hist.wild /\ Len(hmap.nodes) < MaxNodes
    /\ LET p == Find(hmap, k)
       IN  IF Freed(hmap, p) \/ (p = 0 /\ MeetsFreed(hmap)) THEN GoesWild
           ELSE /\ hmap' = IF p = 0 THEN AddElement(hmap, k, v) ELSE hmap
                /\ hist' = IF k \in DOMAIN hist.content THEN hist ELSE [hist EXCEPT !.content = Put(k, v)]

\* operator[] on the left of an assignment
HashAssign(k, v) ==
    /\ ~hist.wild /\ Len(hmap.nodes) < MaxNodes
    /\ LET p == Find(hmap, k)
       IN  IF Freed(hmap, p) \/ (p = 0 /\ MeetsFreed(hmap)) THEN GoesWild
           ELSE /\ hmap' = IF p = 0 THEN AddElement(hmap, k, v) ELSE [hmap EXCEPT !.nodes[p].val = v]
                /\ hist' = [hist EXCEPT !.content = Put(k, v)]

\* Mutant of Unhooked: the bucket of a first element is emptied.
UnhookAll(m, b, p) == IF m.nodes[p].prev = 0 THEN [m EXCEPT !.buckets[b] = 0] ELSE m

(***************************************************************************)
(* Only an element without a previous one is taken out of its bucket; the  *)
(* branch for the others has the same condition and is never taken.        *)
(***************************************************************************)
Unhooked(m, b, p) == IF m.nodes[p].prev = 0 THEN [m EXCEPT !.buckets[b] = m.nodes[p].next] ELSE m

\* erase; the history notes an element that another one came before.
HashErase(k) ==
    /\ ~hist.wild /\ hmap.size > 0
    /\ LET p == Find(hmap, k)
       IN  IF Freed(hmap, p) THEN GoesWild
           ELSE /\ p # 0
                /\ hmap' = [Unhooked(hmap, Bucket(hmap, k), p) EXCEPT !.nodes[p].live = FALSE, !.size = @ - 1]
                /\ hist' = [hist EXCEPT !.content = [x \in DOMAIN @ \ {k} |-> @[x]],
                                        !.second = @ \/ hmap.nodes[p].prev # 0]

HashNext ==
    \/ \E k \in HashKeys, v \in HashVals : HashInsert(k, v) \/ HashAssign(k, v)
    \/ \E k \in HashKeys : HashErase(k)

-----------------------------------------------------------------------------
(***************************************************************************)
(* insert, operator[] and erase of hash_map keep the keys, the values and  *)
(* the size of a map, through collisions and rehashes and without a look   *)
(* at a freed element, as long as no element is erased that was put behind *)
(* another one: erase leaves that one, freed, in its bucket.               *)
(***************************************************************************)
MapKeepsItsElements ==
    \/ hist.second
    \/ /\ ~hist.wild
       /\ hmap.size = Cardinality(DOMAIN hist.content)
       /\ \A k \in HashKeys : At(hmap, k) = IF k \in DOMAIN hist.content THEN hist.content[k] ELSE "none"
=============================================================================
