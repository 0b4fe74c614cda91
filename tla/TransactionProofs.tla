------------------------- MODULE TransactionProofs --------------------------
(***************************************************************************)
(* Proofs about Transaction, for every number of transactions, plain calls *)
(* and entities.                                                           *)
(*                                                                         *)
(* The argument.  A record that has been numbered v was numbered after     *)
(* v - 1 was committed (Founded), and a row of an open transaction keeps   *)
(* every other row with its key out (KeysHeld).  The committed versions    *)
(* being 1..n, both together leave n + 1 as the only version that can be   *)
(* pending or inserted: so a transaction has at most one row per entity,   *)
(* its commit adds the next version, and what was read outside the         *)
(* transaction, for the delta or the hash, was read from version n.        *)
(***************************************************************************)
EXTENDS Transaction, FiniteSetTheorems, TLAPS

-----------------------------------------------------------------------------
(* Facts about sets of rows: committed ones now, or after a step. *)

IsRecord(r) ==
    r = [by |-> r.by, op |-> r.op, entity |-> r.entity, version |-> r.version,
         base |-> r.base, prev |-> r.prev, hash |-> r.hash]

OfIn(rs, e) == {r \in rs : r.entity = e}
AtIn(rs, e, v) == {r \in OfIn(rs, e) : r.version = v}

\* The versions of every entity are 1..n without repetition.
Gapless(rs) ==
    \A e \in Entities :
        /\ \A r, s \in OfIn(rs, e) : r.version = s.version => r = s
        /\ {r.version : r \in OfIn(rs, e)} = 1..Cardinality(OfIn(rs, e))

\* A numbered record has its predecessor among the rows.
Founded(rs, r) ==
    /\ IsRecord(r) /\ r.entity \in Entities
    /\ r.version \in Nat \ {0}
    /\ r.version > 1 => AtIn(rs, r.entity, r.version - 1) # {}

\* A record with a hash has the hash of its payload and links to version - 1.
LinkedIn(rs, r) ==
    r.hash # NoHash =>
        /\ r.hash = Hash(r)
        /\ \E p \in AtIn(rs, r.entity, r.version - 1) \cup {[hash |-> NoHash, version |-> 0]} :
               p.version = r.version - 1 /\ r.prev = p.hash

\* A delta was taken from a row at version - 1 or above.
DeltaIn(rs, r) ==
    r.base # 0 => /\ r.base \in Nat /\ r.base >= r.version - 1
                  /\ AtIn(rs, r.entity, r.base) # {}

\* A row, pending or committed.
RowIn(rs, r) ==
    /\ Founded(rs, r) /\ LinkedIn(rs, r)
    /\ r.base # 0 => r.base = r.version - 1

\* More rows do not change what was read.
LEMMA MoreRows ==
    ASSUME NEW rs, NEW ss, rs \subseteq ss, NEW r
    PROVE  /\ Founded(rs, r) => Founded(ss, r)
           /\ LinkedIn(rs, r) => LinkedIn(ss, r)
           /\ DeltaIn(rs, r) => DeltaIn(ss, r)
           /\ RowIn(rs, r) => RowIn(ss, r)
<1>1. \A e, v : AtIn(rs, e, v) \subseteq AtIn(ss, e, v)
  BY DEF AtIn, OfIn
<1> QED
  BY <1>1 DEF Founded, LinkedIn, DeltaIn, RowIn

\* The only version that is founded and missing is the next one.
LEMMA MissingIsNext ==
    ASSUME NEW rs, IsFiniteSet(rs), Gapless(rs), NEW r, Founded(rs, r),
           AtIn(rs, r.entity, r.version) = {}
    PROVE  /\ Cardinality(OfIn(rs, r.entity)) \in Nat
           /\ r.version = Cardinality(OfIn(rs, r.entity)) + 1
<1> DEFINE e == r.entity
           n == Cardinality(OfIn(rs, e))
<1>1. n \in Nat
  <2>1. IsFiniteSet(OfIn(rs, e))
    BY FS_Subset DEF OfIn
  <2> QED
    BY <2>1, FS_CardinalityType
<1>2. {s.version : s \in OfIn(rs, e)} = 1..n
  BY DEF Gapless, Founded
<1> HIDE DEF n
<1>3. r.version \notin 1..n
  BY <1>2 DEF AtIn
<1>4. r.version > 1 => r.version - 1 \in 1..n
  BY <1>2 DEF AtIn, Founded
<1>5. r.version \in Nat \ {0}
  BY DEF Founded
<1> QED
  BY <1>1, <1>3, <1>4, <1>5 DEF n

\* Committing founded and missing versions, one for each entity at most,
\* leaves no gap.
LEMMA AddRows ==
    ASSUME NEW rs, IsFiniteSet(rs), Gapless(rs),
           NEW P, IsFiniteSet(P),
           \A p \in P : Founded(rs, p) /\ AtIn(rs, p.entity, p.version) = {},
           \A p, q \in P : p.entity = q.entity => p = q
    PROVE  IsFiniteSet(rs \cup P) /\ Gapless(rs \cup P)
<1>1. IsFiniteSet(rs \cup P)
  BY FS_Union
<1>2. ASSUME NEW e \in Entities
      PROVE  /\ \A r, s \in OfIn(rs \cup P, e) : r.version = s.version => r = s
             /\ {r.version : r \in OfIn(rs \cup P, e)} = 1..Cardinality(OfIn(rs \cup P, e))
  <2> DEFINE A == OfIn(rs, e)
             n == Cardinality(A)
  <2>1. CASE \A p \in P : p.entity # e
    <3>1. OfIn(rs \cup P, e) = OfIn(rs, e)
      BY <2>1 DEF OfIn
    <3> QED
      BY <3>1 DEF Gapless
  <2>2. ASSUME NEW p \in P, p.entity = e
        PROVE  /\ \A r, s \in OfIn(rs \cup P, e) : r.version = s.version => r = s
               /\ {r.version : r \in OfIn(rs \cup P, e)} = 1..Cardinality(OfIn(rs \cup P, e))
    <3>1. OfIn(rs \cup P, e) = A \cup {p}
      BY <2>2 DEF OfIn
    <3>2. n \in Nat /\ p.version = n + 1
      BY <2>2, MissingIsNext
    <3>3. p \notin A
      BY <2>2 DEF AtIn
    <3>4. Cardinality(A \cup {p}) = n + 1
      BY <3>3, FS_Subset, FS_AddElement DEF OfIn
    <3>5. {r.version : r \in A} = 1..n /\ \A r, s \in A : r.version = s.version => r = s
      BY DEF Gapless
    <3> HIDE DEF A, n
    <3>6. {r.version : r \in A \cup {p}} = 1..(n + 1)
      <4>1. {r.version : r \in A \cup {p}} = {r.version : r \in A} \cup {p.version}
        OBVIOUS
      <4> QED
        BY <3>2, <3>5, <4>1
    <3>7. \A r \in A : r.version # p.version
      BY <3>2, <3>5
    <3> QED
      BY <3>1, <3>4, <3>5, <3>6, <3>7
  <2> QED
    BY <2>1, <2>2
<1> QED
  BY <1>1, <1>2 DEF Gapless

\* The reader's latest row has the highest version, and NextVersion is the
\* one above it.
LEMMA LatestIs ==
    ASSUME IsFiniteSet(rows), Gapless(rows), NEW e \in Entities
    PROVE  LET n == Cardinality(OfIn(rows, e))
           IN /\ n \in Nat
              /\ \A a : NextVersion(a, e) = n + 1
              /\ n > 0 => AtIn(rows, e, n) # {}
              /\ Of(e) # {} => n > 0 /\ Latest(e) \in Of(e) /\ Latest(e).version = n
<1> DEFINE A == OfIn(rows, e)
           n == Cardinality(A)
<1>1. Of(e) = A
  BY DEF Of, OfIn
<1>2. n \in Nat
  BY FS_Subset, FS_CardinalityType DEF OfIn
<1>3. {r.version : r \in A} = 1..n
  BY DEF Gapless
<1>4. Latest(e) = CHOOSE r \in A : \A t \in A : t.version <= r.version
  BY <1>1, Zenon DEF Latest
<1> HIDE DEF A, n
<1>5. ASSUME A # {} PROVE n > 0 /\ Latest(e) \in A /\ Latest(e).version = n
  <2>1. n > 0
    BY <1>2, <1>3, <1>5
  <2>2. PICK r \in A : r.version = n
    BY <1>2, <1>3, <2>1
  <2>3. \A t \in A : t.version \in 1..n
    BY <1>3
  <2>4. \A t \in A : t.version <= r.version
    BY <1>2, <2>2, <2>3
  <2>5. Latest(e) \in A /\ \A t \in A : t.version <= Latest(e).version
    BY <1>4, <2>4
  <2> QED
    BY <1>2, <2>1, <2>2, <2>3, <2>5
<1>6. A = {} => n = 0
  BY FS_EmptySet DEF n
<1>7. \A a : NextVersion(a, e) = n + 1
  BY <1>1, <1>2, <1>5, <1>6 DEF NextVersion
<1>8. n > 0 => AtIn(rows, e, n) # {}
  <2>1. n > 0 => n \in {r.version : r \in A}
    BY <1>2, <1>3
  <2> QED
    BY <2>1 DEF A, AtIn
<1>9. (Of(e) # {} => n > 0 /\ Latest(e) \in Of(e) /\ Latest(e).version = n)
  BY <1>1, <1>5
<1> QED
  BY <1>2, <1>7, <1>8, <1>9 DEF n, A

-----------------------------------------------------------------------------
(* The inductive invariant. *)

Labels == {"idle", "sequence", "diff", "seal", "insert", "notify"}
Stages == {"open", "aborted", "committed", "rolledback"}

TypeInv ==
    /\ IsFiniteSet(rows)
    /\ pend = [t \in Txs |-> pend[t]]
    /\ st \in [Txs -> Stages]
    /\ pc \in [Actors -> Labels]
    /\ rec = [a \in Actors |-> rec[a]]

\* The record of an actor, by where it is in VersionInTx.
RecordIn(rs, hs, a, l, r) ==
    /\ l # "idle" => IsRecord(r) /\ r.by = a /\ r.entity \in Entities
    /\ l \in {"sequence", "diff", "seal"} => r.hash = NoHash
    /\ l \in {"sequence", "diff"} => r.base = 0
    /\ l = "diff" => r.version > 1
    /\ l \in {"diff", "seal", "insert"} => Founded(rs, r) /\ DeltaIn(rs, r)
    /\ l = "insert" => LinkedIn(rs, r)
    /\ l = "notify" => r \in hs

Records == \A a \in Actors : RecordIn(rows, handed, a, pc[a], rec[a])

\* Rows are founded, committed or pending.
RowsFounded ==
    /\ Gapless(rows)
    /\ \A r \in rows : RowIn(rows, r)
    /\ \A t \in Txs : IsFiniteSet(pend[t]) /\ \A r \in pend[t] : RowIn(rows, r)

\* A pending row keeps every other row with its key out.
KeysHeld ==
    /\ \A t \in Txs : \A r \in pend[t] : AtIn(rows, r.entity, r.version) = {}
    /\ \A t, u \in Txs : \A r \in pend[t], s \in pend[u] : SameKey(r, s) => t = u /\ r = s

\* Whose rows are where.
Owned ==
    /\ \A t \in Txs : (\A r \in pend[t] : r.by = t) /\ (st[t] # "open" => pend[t] = {})
    /\ \A r \in rows : r.by \in Actors /\ (r.by \in Txs => st[r.by] = "committed")

\* What the OLAP store and the subscriber were given has been inserted.
Handed ==
    /\ notified \subseteq handed
    /\ \A r \in handed :
          /\ r.by \in Actors
          /\ r.by \in Plain => r \in rows
          /\ r.by \in Txs /\ st[r.by] = "open" => r \in pend[r.by]
          /\ r.by \in Txs /\ st[r.by] = "committed" => r \in rows

IInv == TypeInv /\ Records /\ RowsFounded /\ KeysHeld /\ Owned /\ Handed

-----------------------------------------------------------------------------
(* Steps that change nothing but the record of one call. *)

\* The record of a call stays in order when rows are added.
LEMMA MoreRecords ==
    ASSUME NEW rs, NEW ss, rs \subseteq ss, NEW hs, NEW gs, hs \subseteq gs,
           NEW a, NEW l, NEW r, RecordIn(rs, hs, a, l, r)
    PROVE  RecordIn(ss, gs, a, l, r)
<1>1. /\ Founded(rs, r) => Founded(ss, r)
      /\ LinkedIn(rs, r) => LinkedIn(ss, r)
      /\ DeltaIn(rs, r) => DeltaIn(ss, r)
  BY MoreRows
<1> QED
  BY <1>1 DEF RecordIn

\* A step inside VersionInTx that leaves a record in order there keeps the
\* invariant; the record of a call that is reporting is not touched.
LEMMA BuildStep ==
    ASSUME IInv, NEW a \in Actors, NEW l \in Labels \ {"notify"}, NEW r,
           pc[a] # "notify",
           UNCHANGED <<rows, pend, st, notified, handed>>,
           pc' = [pc EXCEPT ![a] = l],
           rec' = [rec EXCEPT ![a] = r],
           RecordIn(rows, handed, a, l, r)
    PROVE  IInv'
<1>1. TypeInv'
  BY DEF IInv, TypeInv
<1>2. \A b \in Actors : (b = a => pc'[b] = l /\ rec'[b] = r)
                        /\ (b # a => pc'[b] = pc[b] /\ rec'[b] = rec[b])
  BY DEF IInv, TypeInv
<1>3. Records'
  BY <1>2 DEF IInv, Records
<1>4. RowsFounded' /\ KeysHeld'
  BY DEF IInv, RowsFounded, KeysHeld
<1>5. Owned' /\ Handed'
  BY DEF IInv, Owned, Handed
<1> QED
  BY <1>1, <1>3, <1>4, <1>5 DEF IInv

\* VersionInTx starts a record that belongs to its call.
LEMMA VersionInTxStep ==
    ASSUME IInv, NEW a \in Actors, NEW e \in Entities, VersionInTx(a, e)
    PROVE  IInv'
<1> DEFINE r == NewRecord(a, ops[a] + 1, e)
<1>1. /\ pc[a] = "idle"
      /\ pc' = [pc EXCEPT ![a] = "sequence"] /\ rec' = [rec EXCEPT ![a] = r]
      /\ UNCHANGED <<rows, pend, st, notified, handed>>
  BY DEF VersionInTx, told
<1>2. RecordIn(rows, handed, a, "sequence", r)
  BY DEF RecordIn, NewRecord, IsRecord
<1> HIDE DEF r
<1> QED
  BY <1>1, <1>2, BuildStep DEF Labels

\* An error return before the insert.
LEMMA RejectedStep ==
    ASSUME IInv, NEW a \in Actors, VersionInTxRejected(a)
    PROVE  IInv'
<1>1. RecordIn(rows, handed, a, "idle", None)
  BY DEF RecordIn
<1> QED
  BY <1>1, BuildStep DEF VersionInTxRejected, Return, told, Labels

\* A numbered record is founded: NextVersion read the version before it.
LEMMA SequenceStep ==
    ASSUME IInv, NEW a \in Actors, Sequence(a)
    PROVE  IInv'
<1> DEFINE e == rec[a].entity
           v == NextVersion(a, e)
           r == [rec[a] EXCEPT !.version = v]
<1>1. /\ pc[a] = "sequence" /\ RecordIn(rows, handed, a, pc[a], rec[a])
      /\ rec' = [rec EXCEPT ![a] = r]
      /\ UNCHANGED <<rows, pend, st, notified, handed>>
  BY DEF Sequence, told, IInv, Records
<1>2. PICK l \in {"diff", "seal"} : pc' = [pc EXCEPT ![a] = l] /\ (l = "diff" => v > 1)
  BY DEF Sequence
<1>3. e \in Entities /\ IsRecord(rec[a]) /\ rec[a].by = a /\ rec[a].hash = NoHash /\ rec[a].base = 0
  BY <1>1 DEF RecordIn
<1>4. v \in Nat \ {0} /\ (v > 1 => AtIn(rows, e, v - 1) # {})
  <2> DEFINE n == Cardinality(OfIn(rows, e))
  <2>1. n \in Nat /\ v = n + 1 /\ (n > 0 => AtIn(rows, e, n) # {})
    BY <1>3, LatestIs DEF IInv, TypeInv, RowsFounded
  <2> HIDE DEF n, v
  <2>2. n + 1 - 1 = n /\ (n + 1 > 1 => n > 0)
    BY <2>1
  <2> QED
    BY <2>1, <2>2
<1> HIDE DEF v
<1>5. /\ IsRecord(r) /\ r.by = a /\ r.entity = e /\ r.hash = NoHash /\ r.base = 0
      /\ r.version = v
  BY <1>3 DEF IsRecord
<1> HIDE DEF e, r
<1>6. RecordIn(rows, handed, a, l, r)
  BY <1>2, <1>3, <1>4, <1>5 DEF RecordIn, Founded, DeltaIn, LinkedIn
<1> QED
  BY <1>1, <1>2, <1>6, BuildStep DEF Labels

\* A delta is taken from the latest row, which is at version - 1 or above.
LEMMA DiffStep ==
    ASSUME IInv, NEW a \in Actors, DiffPrevious(a)
    PROVE  IInv'
<1> DEFINE e == rec[a].entity
<1>1. /\ pc[a] = "diff" /\ RecordIn(rows, handed, a, pc[a], rec[a])
      /\ pc' = [pc EXCEPT ![a] = "seal"]
      /\ UNCHANGED <<rows, pend, st, notified, handed>>
  BY DEF DiffPrevious, told, IInv, Records
<1>2. PICK base \in {0, Latest(e).version} : rec' = [rec EXCEPT ![a].base = base]
  BY DEF DiffPrevious
<1> DEFINE r == [rec[a] EXCEPT !.base = base]
<1>3. /\ e \in Entities /\ IsRecord(rec[a]) /\ rec[a].by = a /\ rec[a].hash = NoHash
      /\ rec[a].version > 1 /\ Founded(rows, rec[a])
  BY <1>1 DEF RecordIn
<1>4. /\ IsRecord(r) /\ r.by = a /\ r.entity = e /\ r.hash = NoHash /\ r.base = base
      /\ r.version = rec[a].version
  BY <1>3 DEF IsRecord
<1>5. base # 0 => /\ base \in Nat /\ base >= rec[a].version - 1
                  /\ AtIn(rows, e, base) # {}
  <2> DEFINE n == Cardinality(OfIn(rows, e))
             v == rec[a].version
  <2>1. Of(e) # {} /\ AtIn(rows, e, v - 1) # {} /\ v \in Nat
    BY <1>3 DEF Founded, AtIn, OfIn, Of
  <2>2. n \in Nat /\ n > 0 /\ AtIn(rows, e, n) # {} /\ Latest(e).version = n
    BY <1>3, <2>1, LatestIs DEF IInv, TypeInv, RowsFounded
  <2>3. v - 1 \in 1..n
    <3>1. {q.version : q \in OfIn(rows, e)} = 1..n
      BY <1>3 DEF IInv, RowsFounded, Gapless
    <3> QED
      BY <2>1, <3>1 DEF AtIn
  <2> HIDE DEF n, v
  <2>4. v - 1 <= n
    BY <2>1, <2>2, <2>3
  <2> QED
    BY <2>2, <2>4, <1>2 DEF v
<1>6. rec' = [rec EXCEPT ![a] = r]
  BY <1>2
<1> HIDE DEF e, r
<1>7. RecordIn(rows, handed, a, "seal", r)
  BY <1>3, <1>4, <1>5 DEF RecordIn, Founded, DeltaIn, e
<1> QED
  BY <1>1, <1>6, <1>7, BuildStep DEF Labels

\* Linking a record changes its link and its hash only.
LEMMA LinkedFields ==
    ASSUME NEW r, IsRecord(r), NEW h
    PROVE  LET l == Linked(r, h)
           IN /\ IsRecord(l) /\ l.by = r.by /\ l.entity = r.entity /\ l.version = r.version
              /\ l.base = r.base /\ l.prev = h /\ l.hash = Hash(l)
<1> DEFINE m == [r EXCEPT !.prev = h]
           l == [m EXCEPT !.hash = Hash(m)]
<1>1. Linked(r, h) = l
  BY DEF Linked
<1>2. /\ IsRecord(m) /\ m.by = r.by /\ m.op = r.op /\ m.entity = r.entity
      /\ m.version = r.version /\ m.base = r.base /\ m.prev = h
  BY DEF IsRecord
<1> HIDE DEF m
<1>3. /\ IsRecord(l) /\ l.by = m.by /\ l.op = m.op /\ l.entity = m.entity
      /\ l.version = m.version /\ l.base = m.base /\ l.prev = m.prev /\ l.hash = Hash(m)
  BY <1>2 DEF IsRecord
<1> HIDE DEF l
<1>4. Hash(l) = Hash(m)
  BY <1>3 DEF Hash
<1> QED
  BY <1>1, <1>2, <1>3, <1>4

\* ComputeAndStore links to the row at version - 1, or leaves no hash.
LEMMA SealStep ==
    ASSUME IInv, NEW a \in Actors, Seal(a) \/ SealFails(a)
    PROVE  IInv'
<1>1. /\ pc[a] = "seal" /\ RecordIn(rows, handed, a, pc[a], rec[a])
      /\ pc' = [pc EXCEPT ![a] = "insert"]
      /\ UNCHANGED <<rows, pend, st, notified, handed>>
  BY DEF Seal, SealFails, told, IInv, Records
<1>2. /\ IsRecord(rec[a]) /\ rec[a].by = a /\ rec[a].hash = NoHash /\ rec[a].entity \in Entities
      /\ Founded(rows, rec[a]) /\ DeltaIn(rows, rec[a])
  BY <1>1 DEF RecordIn
<1>3. CASE SealFails(a)
  <2>1. rec' = [rec EXCEPT ![a] = rec[a]]
    BY <1>3 DEF SealFails, IInv, TypeInv
  <2>2. RecordIn(rows, handed, a, "insert", rec[a])
    BY <1>2 DEF RecordIn, LinkedIn
  <2> QED
    BY <1>1, <2>1, <2>2, BuildStep DEF Labels
<1>4. ASSUME NEW p, rec' = [rec EXCEPT ![a] = Linked(@, p.hash)],
             p \in AtIn(rows, rec[a].entity, rec[a].version - 1) \cup {[hash |-> NoHash, version |-> 0]},
             p.version = rec[a].version - 1
      PROVE  IInv'
  <2> DEFINE r == Linked(rec[a], p.hash)
  <2>1. /\ IsRecord(r) /\ r.by = a /\ r.entity = rec[a].entity /\ r.version = rec[a].version
        /\ r.base = rec[a].base /\ r.prev = p.hash /\ r.hash = Hash(r)
    BY <1>2, LinkedFields
  <2>2. rec' = [rec EXCEPT ![a] = r]
    BY <1>4
  <2> HIDE DEF r
  <2>3. RecordIn(rows, handed, a, "insert", r)
    BY <1>2, <1>4, <2>1 DEF RecordIn, LinkedIn, Founded, DeltaIn
  <2> QED
    BY <1>1, <2>2, <2>3, BuildStep DEF Labels
<1>5. CASE Seal(a)
  <2>1. CASE rec[a].version = 1 /\ rec' = [rec EXCEPT ![a] = Linked(@, NoHash)]
    <3> DEFINE p == [hash |-> NoHash, version |-> 0]
    <3>1. p.hash = NoHash /\ p.version = rec[a].version - 1
      BY <2>1
    <3> QED
      BY <1>4, <2>1, <3>1
  <2>2. ASSUME NEW p \in Previous(rec[a]), rec' = [rec EXCEPT ![a] = Linked(@, p.hash)] PROVE IInv'
    <3>1. p \in AtIn(rows, rec[a].entity, rec[a].version - 1) /\ p.version = rec[a].version - 1
      BY <2>2 DEF Previous, ByVersion, Of, AtIn, OfIn
    <3> QED
      BY <1>4, <2>2, <3>1
  <2> QED
    BY <1>5, <2>1, <2>2 DEF Seal
<1> QED
  BY <1>3, <1>5

-----------------------------------------------------------------------------
(* Steps that insert, report and end transactions. *)

\* A record that passes the UNIQUE constraint carries the next version: what
\* it was diffed against is the row right before it.
LEMMA InsertableRow ==
    ASSUME IInv, NEW a \in Actors, pc[a] = "insert", Insertable(a)
    PROVE  /\ RowIn(rows, rec[a]) /\ rec[a].by = a
           /\ AtIn(rows, rec[a].entity, rec[a].version) = {}
           /\ \A t \in Txs : \A s \in pend[t] : ~SameKey(s, rec[a])
           /\ a \in Txs => st[a] = "open"
<1> DEFINE r == rec[a]
<1>1. RecordIn(rows, handed, a, pc[a], r)
  BY DEF IInv, Records
<1>2. /\ r.by = a /\ Founded(rows, r) /\ DeltaIn(rows, r) /\ LinkedIn(rows, r)
  BY <1>1 DEF RecordIn
<1>3. AtIn(rows, r.entity, r.version) = {}
  BY DEF Insertable, Duplicate, SameKey, AtIn, OfIn
<1>4. \A t \in Txs : \A s \in pend[t] : ~SameKey(s, r)
  BY DEF Insertable, Duplicate, Holders
<1>5. a \in Txs => st[a] = "open"
  BY DEF Insertable
<1> HIDE DEF r
<1>6. r.base # 0 => r.base = r.version - 1
  <2> DEFINE n == Cardinality(OfIn(rows, r.entity))
  <2>1. n \in Nat /\ r.version = n + 1
    BY <1>2, <1>3, MissingIsNext DEF IInv, TypeInv, RowsFounded
  <2>2. {q.version : q \in OfIn(rows, r.entity)} = 1..n
    BY <1>2 DEF IInv, RowsFounded, Gapless, Founded
  <2> HIDE DEF n
  <2>3. r.base # 0 => r.base \in 1..n /\ r.base >= r.version - 1
    BY <1>2, <2>2 DEF DeltaIn, AtIn
  <2> QED
    BY <2>1, <2>3
<1> QED
  BY <1>2, <1>3, <1>4, <1>5, <1>6 DEF RowIn, r

\* An insert that took effect goes on to the subscriber with its record handed
\* to the router, or returns an error with nobody told.
Inserted(a, l, x) ==
    /\ pc[a] = "insert" /\ Insertable(a) /\ Put(a)
    /\ pc' = [pc EXCEPT ![a] = l] /\ rec' = [rec EXCEPT ![a] = x]
    /\ \/ l = "notify" /\ x = rec[a] /\ handed' = handed \cup {rec[a]}
       \/ l = "idle" /\ handed' = handed
    /\ UNCHANGED <<st, notified>>

\* Insert and InsertUnknown are such steps.
LEMMA InsertEnds ==
    ASSUME IInv, NEW a \in Actors, Insert(a) \/ InsertUnknown(a)
    PROVE  \E l, x : Inserted(a, l, x)
<1>1. CASE Insert(a)
  <2>1. rec' = [rec EXCEPT ![a] = rec[a]]
    BY <1>1 DEF Insert, IInv, TypeInv
  <2> QED
    BY <1>1, <2>1 DEF Insert, Inserted
<1>2. CASE InsertUnknown(a)
  BY <1>2 DEF InsertUnknown, Return, Inserted, told
<1> QED
  BY <1>1, <1>2

\* An insert inside a transaction: the row is pending.
LEMMA InsertPendingStep ==
    ASSUME IInv, NEW a \in Txs, NEW l, NEW x, Inserted(a, l, x)
    PROVE  IInv'
<1>1. PICK r : r = rec[a]
  OBVIOUS
<1>2. /\ pc[a] = "insert" /\ l \in {"notify", "idle"}
      /\ pc' = [pc EXCEPT ![a] = l] /\ rec' = [rec EXCEPT ![a] = x]
      /\ pend' = [pend EXCEPT ![a] = @ \cup {r}]
      /\ handed \subseteq handed' /\ handed' \subseteq handed \cup {r}
      /\ l = "notify" => x = r /\ r \in handed'
      /\ UNCHANGED <<rows, st, notified>>
  BY <1>1 DEF Inserted, Put
<1>3. /\ RowIn(rows, r) /\ r.by = a
      /\ AtIn(rows, r.entity, r.version) = {}
      /\ \A t \in Txs : \A s \in pend[t] : ~SameKey(s, r)
      /\ st[a] = "open" /\ a \in Actors /\ a \notin Plain
  BY <1>1, InsertableRow, TxAssumption DEF Inserted, Actors
<1>4. TypeInv'
  BY <1>2 DEF IInv, TypeInv, Labels
<1>5. \A t \in Txs : pend'[t] = IF t = a THEN pend[a] \cup {r} ELSE pend[t]
  BY <1>2 DEF IInv, TypeInv
<1>6. \A b \in Actors : (b = a => pc'[b] = l /\ rec'[b] = x)
                        /\ (b # a => pc'[b] = pc[b] /\ rec'[b] = rec[b])
  BY <1>2 DEF IInv, TypeInv
<1>7. Records'
  <2>1. \A b \in Actors : RecordIn(rows, handed', b, pc[b], rec[b])
    BY <1>2, MoreRecords DEF IInv, Records
  <2>2. RecordIn(rows, handed', a, l, x)
    BY <1>2, <1>3 DEF RecordIn, RowIn, Founded
  <2> QED
    BY <1>1, <1>2, <1>6, <2>1, <2>2 DEF Records
<1>8. RowsFounded'
  <2>1. IsFiniteSet(pend[a] \cup {r})
    BY FS_AddElement DEF IInv, RowsFounded
  <2> QED
    BY <1>2, <1>3, <1>5, <2>1 DEF IInv, RowsFounded
<1>9. KeysHeld'
  BY <1>2, <1>3, <1>5 DEF IInv, KeysHeld, SameKey
<1>10. Owned' /\ Handed'
  BY <1>2, <1>3, <1>5 DEF IInv, Owned, Handed
<1> QED
  BY <1>4, <1>7, <1>8, <1>9, <1>10 DEF IInv

\* Rows of an open transaction keep their place when others are committed
\* under other keys.
LEMMA CommitRows ==
    ASSUME IInv, NEW P, IsFiniteSet(P),
           \A p \in P : RowIn(rows, p) /\ AtIn(rows, p.entity, p.version) = {},
           \A p, q \in P : SameKey(p, q) => p = q
    PROVE  /\ IsFiniteSet(rows \cup P) /\ Gapless(rows \cup P)
           /\ \A r \in rows \cup P : RowIn(rows \cup P, r)
<1>1. ASSUME NEW p \in P, NEW q \in P, p.entity = q.entity PROVE p = q
  <2>1. p.version = q.version
    <3>1. /\ p.version = Cardinality(OfIn(rows, p.entity)) + 1
          /\ q.version = Cardinality(OfIn(rows, q.entity)) + 1
      BY MissingIsNext DEF IInv, TypeInv, RowsFounded, RowIn
    <3> QED
      BY <1>1, <3>1
  <2> QED
    BY <1>1, <2>1 DEF SameKey
<1>2. IsFiniteSet(rows \cup P) /\ Gapless(rows \cup P)
  BY <1>1, AddRows DEF IInv, TypeInv, RowsFounded, RowIn
<1>3. rows \subseteq rows \cup P
  OBVIOUS
<1>4. \A r : RowIn(rows, r) => RowIn(rows \cup P, r)
  BY <1>3, MoreRows
<1> QED
  BY <1>2, <1>4 DEF IInv, RowsFounded

\* An insert outside a transaction: the row is committed at once.
LEMMA InsertPlainStep ==
    ASSUME IInv, NEW a \in Plain, NEW l, NEW x, Inserted(a, l, x)
    PROVE  IInv'
<1>1. PICK r : r = rec[a]
  OBVIOUS
<1>2. /\ pc[a] = "insert" /\ l \in {"notify", "idle"}
      /\ pc' = [pc EXCEPT ![a] = l] /\ rec' = [rec EXCEPT ![a] = x]
      /\ rows' = rows \cup {r}
      /\ handed \subseteq handed' /\ handed' \subseteq handed \cup {r}
      /\ l = "notify" => x = r /\ r \in handed'
      /\ UNCHANGED <<pend, st, notified>> /\ a \notin Txs /\ a \in Actors
  BY <1>1, TxAssumption DEF Inserted, Put, Actors
<1>3. /\ RowIn(rows, r) /\ r.by = a
      /\ AtIn(rows, r.entity, r.version) = {}
      /\ \A t \in Txs : \A s \in pend[t] : ~SameKey(s, r)
  BY <1>1, <1>2, InsertableRow DEF Inserted
<1>4. IsFiniteSet(rows') /\ Gapless(rows') /\ \A q \in rows' : RowIn(rows', q)
  <2>1. IsFiniteSet({r})
    BY FS_Singleton
  <2> QED
    BY <1>2, <1>3, <2>1, CommitRows
<1>5. TypeInv'
  BY <1>2, <1>4 DEF IInv, TypeInv, Labels
<1>6. \A b \in Actors : (b = a => pc'[b] = l /\ rec'[b] = x)
                        /\ (b # a => pc'[b] = pc[b] /\ rec'[b] = rec[b])
  BY <1>2 DEF IInv, TypeInv
<1>7. Records'
  <2>1. \A b \in Actors : RecordIn(rows', handed', b, pc[b], rec[b])
    BY <1>2, MoreRecords DEF IInv, Records
  <2>2. RecordIn(rows', handed', a, l, x)
    BY <1>2, <1>3 DEF RecordIn, RowIn, Founded
  <2> QED
    BY <1>1, <1>2, <1>6, <2>1, <2>2 DEF Records
<1>8. RowsFounded'
  <2>1. \A q : RowIn(rows, q) => RowIn(rows', q)
    BY <1>2, MoreRows
  <2> QED
    BY <1>2, <1>4, <2>1 DEF IInv, RowsFounded
<1>9. KeysHeld'
  <2>1. ASSUME NEW t \in Txs, NEW q \in pend[t] PROVE AtIn(rows', q.entity, q.version) = {}
    <3>1. AtIn(rows, q.entity, q.version) = {} /\ ~SameKey(q, r)
      BY <1>3 DEF IInv, KeysHeld
    <3> QED
      BY <1>2, <3>1 DEF AtIn, OfIn, SameKey
  <2>2. \A t, u \in Txs : \A q \in pend[t], s \in pend[u] : SameKey(q, s) => t = u /\ q = s
    BY DEF IInv, KeysHeld
  <2> QED
    BY <1>2, <2>1, <2>2 DEF KeysHeld
<1>10. Owned' /\ Handed'
  BY <1>2, <1>3 DEF IInv, Owned, Handed
<1> QED
  BY <1>5, <1>7, <1>8, <1>9, <1>10 DEF IInv

\* A transaction that is aborted or rolled back loses its rows; none of them
\* was committed.
LEMMA GiveUpStep ==
    ASSUME IInv, NEW a \in Txs, st[a] \in {"open", "aborted"}, pc[a] # "notify",
           NEW x \in {"aborted", "rolledback"}, NEW r,
           st' = [st EXCEPT ![a] = x], pend' = [pend EXCEPT ![a] = {}],
           pc' = [pc EXCEPT ![a] = "idle"], rec' = [rec EXCEPT ![a] = r],
           UNCHANGED <<rows, notified, handed>>
    PROVE  IInv'
<1>1. TypeInv'
  BY DEF IInv, TypeInv, Labels, Stages
<1>2. /\ \A t \in Txs : pend'[t] = IF t = a THEN {} ELSE pend[t]
      /\ \A t \in Txs : st'[t] = IF t = a THEN x ELSE st[t]
      /\ \A b \in Actors : pc'[b] = IF b = a THEN "idle" ELSE pc[b]
      /\ \A b \in Actors : b # a => rec'[b] = rec[b]
  BY DEF IInv, TypeInv
<1>3. Records'
  BY <1>2 DEF IInv, Records, RecordIn
<1>4. RowsFounded'
  BY <1>2, FS_EmptySet DEF IInv, RowsFounded
<1>5. KeysHeld'
  BY <1>2 DEF IInv, KeysHeld
<1>6. Owned' /\ Handed'
  BY <1>2 DEF IInv, Owned, Handed
<1> QED
  BY <1>1, <1>3, <1>4, <1>5, <1>6 DEF IInv

\* A failed insert, with the transaction aborted or not, and the victim of a
\* deadlock.
LEMMA InsertFailsStep ==
    ASSUME IInv, NEW a \in Actors,
           InsertFails(a) \/ (a \in Txs /\ DeadlockVictim(a))
    PROVE  IInv'
<1>1. /\ pc[a] = "insert" /\ Return(a) /\ UNCHANGED <<rows, notified, handed>>
      /\ Abort(a) \/ UNCHANGED <<st, pend>>
  BY DEF InsertFails, DeadlockVictim, WaitsFor, told
<1>2. CASE Abort(a)
  BY <1>1, <1>2, GiveUpStep DEF Abort, Return
<1>3. CASE UNCHANGED <<st, pend>>
  <2>1. RecordIn(rows, handed, a, "idle", None)
    BY DEF RecordIn
  <2> QED
    BY <1>1, <1>3, <2>1, BuildStep DEF Return, Labels
<1> QED
  BY <1>1, <1>2, <1>3

\* The subscriber is given the record of the call.
LEMMA NotifyStep ==
    ASSUME IInv, NEW a \in Actors, Notify(a)
    PROVE  IInv'
<1>1. /\ pc[a] = "notify" /\ notified' = notified \cup {rec[a]}
      /\ pc' = [pc EXCEPT ![a] = "idle"] /\ rec' = [rec EXCEPT ![a] = None]
      /\ UNCHANGED <<rows, pend, st, handed>>
  BY DEF Notify, Return
<1>2. TypeInv'
  BY <1>1 DEF IInv, TypeInv, Labels
<1>3. /\ \A b \in Actors : pc'[b] = IF b = a THEN "idle" ELSE pc[b]
      /\ \A b \in Actors : b # a => rec'[b] = rec[b]
  BY <1>1 DEF IInv, TypeInv
<1>4. Records'
  BY <1>1, <1>3 DEF IInv, Records, RecordIn
<1>5. RowsFounded' /\ KeysHeld'
  BY <1>1 DEF IInv, RowsFounded, KeysHeld
<1>6. rec[a] \in handed
  BY <1>1 DEF IInv, Records, RecordIn
<1>7. Owned' /\ Handed'
  BY <1>1, <1>6 DEF IInv, Owned, Handed
<1> QED
  BY <1>2, <1>4, <1>5, <1>7 DEF IInv

\* A commit adds the next version of some entities.
LEMMA CommitStep ==
    ASSUME IInv, NEW t \in Txs, Commit(t)
    PROVE  IInv'
<1>1. /\ pc[t] = "idle" /\ st[t] = "open"
      /\ rows' = rows \cup pend[t]
      /\ pend' = [pend EXCEPT ![t] = {}]
      /\ st' = [st EXCEPT ![t] = "committed"]
      /\ UNCHANGED <<pc, rec, notified, handed>>
  BY DEF Commit, told
<1>2. /\ \A u \in Txs : pend'[u] = IF u = t THEN {} ELSE pend[u]
      /\ \A u \in Txs : st'[u] = IF u = t THEN "committed" ELSE st[u]
  BY <1>1 DEF IInv, TypeInv
<1>3. IsFiniteSet(rows') /\ Gapless(rows') /\ \A q \in rows' : RowIn(rows', q)
  BY <1>1, CommitRows DEF IInv, RowsFounded, KeysHeld
<1>4. TypeInv'
  BY <1>1, <1>3 DEF IInv, TypeInv, Stages
<1>5. Records'
  BY <1>1, MoreRecords DEF IInv, Records
<1>6. RowsFounded'
  <2>1. \A q : RowIn(rows, q) => RowIn(rows', q)
    BY <1>1, MoreRows
  <2> QED
    BY <1>2, <1>3, <2>1, FS_EmptySet DEF IInv, RowsFounded
<1>7. KeysHeld'
  <2>1. ASSUME NEW u \in Txs, NEW q \in pend'[u] PROVE AtIn(rows', q.entity, q.version) = {}
    <3>1. u # t /\ q \in pend[u]
      BY <1>2
    <3>2. AtIn(rows, q.entity, q.version) = {} /\ \A p \in pend[t] : ~SameKey(p, q)
      BY <3>1 DEF IInv, KeysHeld
    <3> QED
      BY <1>1, <3>2 DEF AtIn, OfIn, SameKey
  <2>2. \A u, w \in Txs : \A q \in pend'[u], s \in pend'[w] : SameKey(q, s) => u = w /\ q = s
    BY <1>2 DEF IInv, KeysHeld
  <2> QED
    BY <2>1, <2>2 DEF KeysHeld
<1>8. Owned'
  BY <1>1, <1>2 DEF IInv, Owned, Actors
<1>9. Handed'
  BY <1>1, <1>2 DEF IInv, Handed
<1> QED
  BY <1>4, <1>5, <1>6, <1>7, <1>8, <1>9 DEF IInv

\* A rollback takes the rows of its transaction with it.
LEMMA RollbackStep ==
    ASSUME IInv, NEW t \in Txs, Rollback(t)
    PROVE  IInv'
<1>1. pc' = [pc EXCEPT ![t] = "idle"] /\ rec' = [rec EXCEPT ![t] = rec[t]]
  BY DEF Rollback, IInv, TypeInv
<1> QED
  BY <1>1, GiveUpStep DEF Rollback, told

-----------------------------------------------------------------------------
(* The theorems. *)

\* No rows and no transactions satisfy the invariant.
LEMMA InitInv == Init => IInv
<1> SUFFICES ASSUME Init PROVE IInv
  OBVIOUS
<1>1. IsFiniteSet({}) /\ Cardinality({}) = 0
  BY FS_EmptySet
<1>2. Gapless({})
  BY <1>1 DEF Gapless, OfIn
<1> QED
  BY <1>1, <1>2 DEF Init, IInv, TypeInv, Records, RecordIn, RowsFounded, KeysHeld, Owned, Handed,
                    Labels, Stages

\* Every step keeps the invariant.
LEMMA NextInv ==
    ASSUME IInv, [Next]_vars
    PROVE  IInv'
<1>1. ASSUME NEW a \in Actors, Work(a) PROVE IInv'
  <2>1. CASE Insert(a) \/ InsertUnknown(a)
    BY <2>1, InsertEnds, InsertPendingStep, InsertPlainStep DEF Actors
  <2> QED
    BY <1>1, <2>1, RejectedStep, SequenceStep, DiffStep, SealStep, InsertFailsStep, NotifyStep
       DEF Work
<1>2. ASSUME NEW t \in Txs, End(t) \/ DeadlockVictim(t) PROVE IInv'
  BY <1>2, CommitStep, RollbackStep, InsertFailsStep DEF End, Actors
<1>3. CASE UNCHANGED vars
  BY <1>3 DEF vars, IInv, TypeInv, Records, RowsFounded, KeysHeld, Owned, Handed
<1>4. ASSUME NEW a \in Actors, NEW e \in Entities, VersionInTx(a, e) PROVE IInv'
  BY <1>4, VersionInTxStep
<1> QED
  BY <1>1, <1>2, <1>3, <1>4 DEF Next, Terminated

\* The invariant holds throughout.
LEMMA Invariance == Spec => []IInv
  BY InitInv, NextInv, PTL DEF Spec

\* Whatever transactions and plain calls race on an entity and however they
\* end, its committed versions are 1..n without repetition: NextVersion reads
\* outside the transaction, the UNIQUE key does the rest.
THEOREM TransactionGapless == Spec => []VersionsGapless
<1>1. IInv => VersionsGapless
  BY DEF IInv, RowsFounded, Gapless, VersionsGapless, Of, OfIn
<1> QED
  BY <1>1, Invariance, PTL

\* A committed delta and a committed hash are founded on the committed version
\* right before, although VersionInTx read it outside the transaction and the
\* row became visible only with the commit.
THEOREM TransactionFounded == Spec => []FoundedOnPrevious
<1>1. IInv => FoundedOnPrevious
  BY DEF IInv, RowsFounded, RowIn, LinkedIn, FoundedOnPrevious, ByVersion, Of, AtIn, OfIn
<1> QED
  BY <1>1, Invariance, PTL

\* VersionInTx does not see the rows of its own transaction: a second version
\* of the same entity in one transaction is never inserted.
THEOREM TransactionOnePerEntity == Spec => []OnePerEntityAndTx
<1>1. ASSUME IInv, NEW t \in Txs, NEW r \in pend[t], NEW s \in pend[t], r.entity = s.entity
      PROVE  r = s
  <2>1. /\ r.version = Cardinality(OfIn(rows, r.entity)) + 1
        /\ s.version = Cardinality(OfIn(rows, s.entity)) + 1
    BY <1>1, MissingIsNext DEF IInv, TypeInv, RowsFounded, RowIn, KeysHeld
  <2>2. r.version = s.version
    BY <1>1, <2>1
  <2> QED
    BY <1>1, <2>2 DEF IInv, KeysHeld, SameKey
<1>2. IInv => OnePerEntityAndTx
  BY <1>1 DEF OnePerEntityAndTx
<1> QED
  BY <1>2, Invariance, PTL

\* The router and the subscriber are told before the transaction ends: what
\* they were told is committed when the transaction is, and only then.
THEOREM TransactionTold == Spec => []ToldUnlessRolledBack
<1>1. IInv => ToldUnlessRolledBack
  BY DEF IInv, Handed, Owned, ToldUnlessRolledBack, Actors, TypeInv, Stages
<1> QED
  BY <1>1, Invariance, PTL
=============================================================================
