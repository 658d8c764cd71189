----------------------------- MODULE UniqueMap -----------------------------
(***************************************************************************)
(* structures::unique_hash_map as its users see it: a map whose keys are   *)
(* given out by the map.  at is the map, counter the next new key and free *)
(* the list of the keys that were erased, smallest first.  operator[] and  *)
(* insert share the map but know nothing of counter and free.              *)
(***************************************************************************)
EXTENDS Integers, Sequences

EmptyMap == [at |-> <<>>, counter |-> 0, free |-> <<>>]

Keys(h) == DOMAIN h.at

\* operator[] on the left of an assignment
Assign(h, k, v) == [h EXCEPT !.at = [x \in DOMAIN @ \cup {k} |-> IF x = k THEN v ELSE @[x]]]

NextKey(h) == IF h.free = <<>> THEN h.counter ELSE Head(h.free)

\* The key insert_unique returns: -1 when its key is in use.
NewKey(h) == IF NextKey(h) \in Keys(h) THEN -1 ELSE NextKey(h)

InsertUnique(h, v) ==
    LET k == NextKey(h)
    IN  IF k \in Keys(h) THEN h
        ELSE IF k = h.counter THEN [Assign(h, k, v) EXCEPT !.counter = @ + 1]
        ELSE [Assign(h, k, v) EXCEPT !.free = Tail(@)]

\* The key is taken before the insertion is known to succeed.
EmplaceUnique(h, v) ==
    LET k == NextKey(h)
        taken == IF h.free = <<>> THEN [h EXCEPT !.counter = @ + 1]
                 ELSE [h EXCEPT !.free = Tail(@)]
    IN  IF k \in Keys(h) THEN taken ELSE Assign(taken, k, v)

EraseKey(h, k) ==
    IF k \in Keys(h)
    THEN [h EXCEPT !.at = [x \in DOMAIN @ \ {k} |-> @[x]],
                   !.free = SelectSeq(@, LAMBDA x : x < k) \o <<k>>
                            \o SelectSeq(@, LAMBDA x : x >= k)]
    ELSE h
=============================================================================
