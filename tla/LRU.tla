-------------------------------- MODULE LRU --------------------------------
(***************************************************************************)
(* The in-process cache of adapter/cache/lru.go: a map from keys to the    *)
(* entries of a doubly linked list, head most and tail least recently      *)
(* used.  Every method holds the mutex throughout and is one step.         *)
(* Nothing in the repository puts the cache in front of a store: a caller  *)
(* that does must invalidate it when a row is redacted or deleted.         *)
(***************************************************************************)
EXTENDS Naturals, Sequences, FiniteSets

CONSTANTS
    Ids,        \* entity IDs, each the sequence of its parts between colons
    Versions,   \* version numbers
    Vals,       \* what a cached record holds
    Capacity,   \* LRU.capacity, at least 1
    Nil         \* nil

VARIABLES
    cache,      \* node: the entries by key; head and tail: keys or Nil
    got         \* what the last Get returned

vars == <<cache, got>>

\* cacheKey joins type, ID and version by colons.  Types are the names of Go
\* structs and have none; versions are numbers: the joined keys of different
\* records differ.
CacheKey(id, v) == id \o <<v>>

Keys == {CacheKey(id, v) : id \in Ids, v \in Versions}

-----------------------------------------------------------------------------
(* The list: operators on a value c of the variable cache. *)

\* Sets prev of one entry; nil has none.
SetPrev(c, k, p) == IF k = Nil THEN c ELSE [c EXCEPT !.node[k].prev = p]
SetNext(c, k, n) == IF k = Nil THEN c ELSE [c EXCEPT !.node[k].next = n]

PushFront(c, k) ==
    LET linked == SetPrev(SetNext(SetPrev(c, k, Nil), k, c.head), c.head, k)
    IN [linked EXCEPT !.head = k, !.tail = IF @ = Nil THEN k ELSE @]

\* Unlinks an entry and keeps the tail although it was the last one.
RemoveEntryKeepingTail(c, k) ==
    LET e == c.node[k]
        linked == SetPrev(SetNext(c, e.prev, e.next), e.next, e.prev)
        moved == [linked EXCEPT !.head = IF e.prev = Nil THEN e.next ELSE @]
    IN SetNext(SetPrev(moved, k, Nil), k, Nil)

RemoveEntry(c, k) ==
    LET e == c.node[k]
        linked == SetPrev(SetNext(c, e.prev, e.next), e.next, e.prev)
        moved == [linked EXCEPT !.head = IF e.prev = Nil THEN e.next ELSE @,
                                !.tail = IF e.next = Nil THEN e.prev ELSE @]
    IN SetNext(SetPrev(moved, k, Nil), k, Nil)

MoveToFront(c, k) == IF c.head = k THEN c ELSE PushFront(RemoveEntry(c, k), k)

\* removeEntry and delete from the map.
Delete(c, k) ==
    LET r == RemoveEntry(c, k)
    IN [r EXCEPT !.node = [x \in DOMAIN r.node \ {k} |-> r.node[x]]]

EvictLRU(c) == IF c.tail = Nil THEN c ELSE Delete(c, c.tail)

Insert(c, k, x) ==
    [c EXCEPT !.node = [y \in DOMAIN c.node \cup {k} |->
        IF y = k THEN [val |-> x, prev |-> Nil, next |-> Nil] ELSE c.node[y]]]

-----------------------------------------------------------------------------

Get(id, v) ==
    LET k == CacheKey(id, v)
    IN \/ /\ k \in DOMAIN cache.node
          /\ cache' = MoveToFront(cache, k)
          /\ got' = cache.node[k].val
       \/ /\ k \notin DOMAIN cache.node
          /\ got' = Nil
          /\ UNCHANGED cache

Put(id, v, x) ==
    LET k == CacheKey(id, v)
        room == IF Cardinality(DOMAIN cache.node) >= Capacity THEN EvictLRU(cache) ELSE cache
    IN /\ cache' = IF k \in DOMAIN cache.node
                     THEN MoveToFront([cache EXCEPT !.node[k].val = x], k)
                     ELSE PushFront(Insert(room, k, x), k)
       /\ UNCHANGED got

\* The orders in which a range over the map can meet a set of its keys.
Orders(S) == {f \in [1..Cardinality(S) -> S] : \A i, j \in DOMAIN f : f[i] = f[j] => i = j}

DeleteAll(c, ks) ==
    LET after[n \in 0..Len(ks)] == IF n = 0 THEN c ELSE Delete(after[n - 1], ks[n])
    IN after[Len(ks)]

\* Removes every key that starts with type, ID and a colon.
Invalidate(id) ==
    LET hits == {k \in DOMAIN cache.node : Len(k) > Len(id) /\ SubSeq(k, 1, Len(id)) = id}
    IN /\ \E ks \in Orders(hits) : cache' = DeleteAll(cache, ks)
       /\ UNCHANGED got

Init ==
    /\ cache = [node |-> [k \in {} |-> Nil], head |-> Nil, tail |-> Nil]
    /\ got = Nil

Next ==
    \/ \E id \in Ids, v \in Versions : Get(id, v) \/ \E x \in Vals : Put(id, v, x)
    \/ \E id \in Ids : Invalidate(id)

Spec == Init /\ [][Next]_vars

-----------------------------------------------------------------------------
(* Refinement *)

\* The keys met from head along next, as many as the map has.
Walk(c) ==
    LET N == Cardinality(DOMAIN c.node)
        nth[i \in 1..N] ==
            IF i = 1 THEN c.head
            ELSE IF nth[i - 1] \in DOMAIN c.node THEN c.node[nth[i - 1]].next ELSE Nil
    IN nth

\* The ID and version a key was made of.
Parts(k) == <<SubSeq(k, 1, Len(k) - 1), k[Len(k)]>>

RecordList(c) ==
    [i \in 1..Cardinality(DOMAIN c.node) |-> IF Walk(c)[i] \in DOMAIN c.node
        THEN [key |-> Parts(Walk(c)[i]), val |-> c.node[Walk(c)[i]].val] ELSE Nil]

R == INSTANCE Recency WITH order <- RecordList(cache), got <- got

\* Through every sequence of hits, misses, updates, evictions and
\* invalidations, the map and the linked list behave as one sequence in order
\* of last use that holds at most Capacity records; Get returns the value last
\* put for the record asked for, and never another record's.
ImplementsRecency == R!Spec

\* However Put, Get and Invalidate follow each other, the list never holds
\* more than Capacity records, and none of them twice.
Bounded ==
    /\ Len(RecordList(cache)) <= Capacity
    /\ \A i, j \in DOMAIN RecordList(cache) : RecordList(cache)[i].key = RecordList(cache)[j].key => i = j

=============================================================================
