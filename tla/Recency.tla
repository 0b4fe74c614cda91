------------------------------ MODULE Recency ------------------------------
(***************************************************************************)
(* What the cache promises: the Capacity most recently used records, in    *)
(* the order of their last use.                                            *)
(***************************************************************************)
EXTENDS Naturals, Sequences

CONSTANTS
    Ids,        \* entity IDs, each the sequence of its parts between colons
    Versions,   \* version numbers
    Vals,       \* what a cached record holds
    Capacity,   \* how many records the cache keeps
    Nil         \* no record

VARIABLES
    order,      \* the cached records, most recently used first
    got         \* what the last Get returned

Key(id, v) == <<id, v>>

Record == [key : {Key(id, v) : id \in Ids, v \in Versions}, val : Vals]

IndexOf(k) == {i \in 1..Len(order) : order[i].key = k}

Before(q, r) == \E a, b \in 1..Len(order) : a < b /\ order[a] = q /\ order[b] = r

\* From a position on, the records whose key is not in K, in the order they had.
Keep(from, K) ==
    /\ order' \in Seq(Record)
    /\ {order'[i] : i \in from..Len(order')} = {order[i] : i \in {j \in 1..Len(order) : order[j].key \notin K}}
    /\ \A i, j \in from..Len(order') : i < j => Before(order'[i], order'[j])

Hit(k) ==
    \E i \in IndexOf(k) :
        /\ Keep(2, {k}) /\ order' # <<>> /\ order'[1] = order[i]
        /\ got' = order[i].val

Miss(k) == IndexOf(k) = {} /\ got' = Nil /\ UNCHANGED order

\* A new record in a full cache takes the place of the least recently used one.
Displaced(k) ==
    IF IndexOf(k) = {} /\ Len(order) >= Capacity THEN {order[Len(order)].key} ELSE {}

Store(k, x) ==
    /\ Keep(2, {k} \cup Displaced(k)) /\ order' # <<>> /\ order'[1] = [key |-> k, val |-> x]
    /\ UNCHANGED got

\* All versions of the entity are forgotten.  An entity whose ID continues the
\* given one behind a colon may be forgotten with it.
Continues(id, start) == Len(id) >= Len(start) /\ SubSeq(id, 1, Len(start)) = start

Forget(id) ==
    /\ Keep(1, {Key(i, v) : i \in {j \in Ids : Continues(j, id)}, v \in Versions})
    /\ UNCHANGED got

Init == order = <<>> /\ got = Nil

Next ==
    \/ \E id \in Ids, v \in Versions :
           \/ Hit(Key(id, v)) \/ Miss(Key(id, v))
           \/ \E x \in Vals : Store(Key(id, v), x)
    \/ \E id \in Ids : Forget(id)

Spec == Init /\ [][Next]_<<order, got>>
=============================================================================
