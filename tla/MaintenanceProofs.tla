------------------------- MODULE MaintenanceProofs -------------------------
(***************************************************************************)
(* Proofs about Maintenance, for every number of versions, callers,        *)
(* passes, fields and contents, and every list limit, chain length and     *)
(* retention period.                                                       *)
(*                                                                         *)
(* Whatever happens, a row is as it was inserted, or has no hash, or holds *)
(* a redacted field under the hash of unredacted content (Genuine).  While *)
(* passes do not overlap (~overlap) a listed record whose row was not      *)
(* deleted since is the row as it is (Current), one whose row was deleted  *)
(* is in no history (Apart), and the part of the list that a pass has      *)
(* behind it is done.                                                      *)
(*                                                                         *)
(* While retention deletes nothing a call has numbered itself by           *)
(* (~overtaken) the rows are a range of versions in the order of their     *)
(* stamps, and a call under way either has lost its number to a row, or    *)
(* comes right behind the latest row, which has been the latest since the  *)
(* call was stamped (InTime).                                              *)
(***************************************************************************)
EXTENDS Maintenance, NaturalsInduction, WellFoundedInduction, FiniteSetTheorems, TLAPS

-----------------------------------------------------------------------------
(* The inductive invariant of the passes *)

Items(s) == {s[n] : n \in 1..Len(s)}

Columns == {"version", "strategy", "data", "prev", "hash", "born"}

\* A hash is of unredacted content.
Signed(v, hash) == hash = Null \/ \E x \in [Fields -> Vals] : \E q : hash = Hash(v, x, q)

RowOK(r) ==
    /\ DOMAIN r = Columns
    /\ r.version \in Nat
    /\ r.strategy \in {"full", "delta"}
    /\ r.data \in [Fields -> Vals \cup {Redacted}]
    /\ r.born \in Nat
    /\ Signed(r.version, r.hash)

\* What is left of the content x that a row was inserted with.
Genuine(r, x) == r.hash = Null \/ r.data = x \/ r.data \notin [Fields -> Vals]

Rows ==
    /\ DOMAIN store \subseteq 1..MaxVersion
    /\ \A v \in DOMAIN store : RowOK(store[v]) /\ store[v].version = v /\ Genuine(store[v], versioned[v])

Parts == {"pc", "version", "strategy", "data", "born", "prev", "hash"}

CallOK(k) ==
    /\ DOMAIN k = Parts
    /\ k.pc \in {"idle", "drawn", "decided", "stamped", "sealed"}
    /\ k.version \in Nat /\ k.born \in Nat /\ k.strategy \in {"full", "delta"}
    /\ k.pc # "idle" => k.version \in 1..MaxVersion
    /\ k.pc \in {"stamped", "sealed"} => k.data \in Contents
    /\ k.pc # "sealed" => k.hash = Null
    /\ k.hash = Null \/ k.hash = Hash(k.version, k.data, k.prev)

Calls == DOMAIN call = Callers /\ \A c \in Callers : CallOK(call[c])

\* A pass that has not begun or has returned has nothing left to do; one
\* under way has.
JobOK(j) ==
    /\ DOMAIN j = {"op", "field", "todo", "listed", "chain"}
    /\ j.op \in {"none", "redact", "compact", "done"}
    /\ j.chain \in Nat
    /\ j.todo \in Seq(Items(j.todo))
    /\ j.todo = <<>> <=> j.op \in {"none", "done"}

\* A list in ascending order; what was listed is behind or still to do.
ListOK(j) ==
    /\ \A i \in 1..Len(j.todo) : RowOK(j.todo[i])
    /\ \A i, k \in 1..Len(j.todo) : i < k => j.todo[i].version < j.todo[k].version
    /\ \A v \in j.listed : \/ j.todo # <<>> /\ v < j.todo[1].version
                           \/ \E i \in 1..Len(j.todo) : v = j.todo[i].version
    /\ j.listed \subseteq Nat

JobsOf(jb, D) ==
    /\ DOMAIN jb = Passes
    /\ \A p \in Passes : /\ JobOK(jb[p])
                         /\ jb[p].op = "redact" => p \in Redactors
                         /\ jb[p].op = "compact" => p \in Compactors
                         /\ ListOK(jb[p])
                         /\ jb[p].listed \subseteq D

Jobs == JobsOf(job, DOMAIN store)

Histories ==
    /\ DOMAIN store \subseteq DOMAIN versioned
    /\ DOMAIN latestAt = 1..now
    /\ \A r \in redactions : DOMAIN r = {"field", "versions"} /\ r.versions \subseteq DOMAIN store
    /\ \A S \in compacted : S \subseteq DOMAIN store

TypeInv ==
    /\ now \in Nat \ {0}
    /\ overlap \in BOOLEAN /\ overtaken \in BOOLEAN
    /\ Rows
    /\ Calls
    /\ Jobs
    /\ Histories

\* What a pass still has to do is listed as it is in the store.
Current(j, st) == \A i \in 1..Len(j.todo) : j.todo[i].version \in j.listed => j.todo[i] = st[j.todo[i].version]

\* A record whose row was deleted is in no history.
Apart(j, R, C) ==
    \A i \in 1..Len(j.todo) :
        \/ j.todo[i].version \in j.listed
        \/ /\ \A r \in R : j.todo[i].version \notin r.versions
           /\ \A S \in C : j.todo[i].version \notin S

\* What a redaction has behind it is redacted.
RedactedSoFar(j, st) ==
    j.op = "redact" /\ Redactable /\ j.field \in Fields =>
        \A v \in j.listed : v < j.todo[1].version => st[v].data[j.field] = Redacted

\* M consecutive versions from a on.
Window(a, M) == a..(a + M - 1)

Short(S, st) == \A a \in S : Window(a, MaxDeltaChain) \subseteq S =>
                    \E v \in Window(a, MaxDeltaChain) : st[v].strategy = "full"

\* No chain that ends before h is longer than c.
ChainUpTo(S, st, h, c) ==
    \A a \in S : (\A v \in a..(h - 1) : v \in S /\ st[v].strategy # "full") => h - a <= c

\* What a compaction has behind it has no long chain, and its counter is at
\* least the length of the chain that ends where it stands.
CompactedSoFar(j, st) ==
    j.op = "compact" =>
        LET h == j.todo[1].version
            behind == {v \in j.listed : v < h}
        IN Short(behind, st) /\ ChainUpTo(behind, st, h, j.chain)

OnTrack(j, st, R, C) ==
    Current(j, st) /\ Apart(j, R, C) /\ RedactedSoFar(j, st) /\ CompactedSoFar(j, st)

\* The redactions that returned nil are still there.
RedactedAll(R, st) ==
    Redactable => \A r \in R : \A v \in r.versions : r.field \in Fields => st[v].data[r.field] = Redacted

Alone ==
    ~overlap =>
        /\ \A p, q \in Active : p = q
        /\ \A p \in Passes : OnTrack(job[p], store, redactions, compacted)
        /\ RedactedAll(redactions, store)
        /\ \A S \in compacted : Short(S, store)

IInv == TypeInv /\ Alone

-----------------------------------------------------------------------------
(* Numbers and sets of numbers *)

\* A non-empty set of naturals has a least element.
LEMMA LeastNatural ==
    ASSUME NEW S \in SUBSET Nat, S # {}
    PROVE  \E x \in S : \A y \in S : x <= y
<1> DEFINE R == {p \in Nat \X Nat : p[1] < p[2]}
<1>1. IsWellFoundedOn(R, Nat)
  BY NatLessThanWellFounded DEF OpToRel
<1>2. \A x, y \in Nat : x < y => <<x, y>> \in R
  OBVIOUS
<1> HIDE DEF R
<1>3. PICK x \in S : \A y \in S : ~(<<y, x>> \in R)
  BY <1>1, WFMin
<1>4. \A y \in S : ~(y < x)
  BY <1>2, <1>3
<1> QED
  BY <1>4

\* Induction upwards from 0 to n.
LEMMA Upward ==
    ASSUME NEW n \in Nat, NEW P, 0 \in P, \A m \in 0..(n - 1) : m \in P => m + 1 \in P
    PROVE  \A m \in 0..n : m \in P
<1> DEFINE S == {m \in 0..n : m \notin P}
<1>1. SUFFICES ASSUME S # {} PROVE FALSE
  OBVIOUS
<1>2. S \in SUBSET Nat
  OBVIOUS
<1>3. PICK x \in S : \A y \in S : x <= y
  BY <1>1, <1>2, LeastNatural
<1>4. x # 0 /\ x - 1 \in 0..(n - 1)
  BY <1>3
<1>5. x - 1 \notin P
  <2>1. (x - 1) + 1 = x /\ x \notin P
    BY <1>3, <1>4
  <2> QED
    BY <1>4, <2>1
<1>6. x - 1 \in S
  BY <1>4, <1>5
<1> QED
  BY <1>3, <1>4, <1>6


\* A non-empty bounded set of numbers has a greatest element: Max.
LEMMA Greatest ==
    ASSUME NEW n \in Nat, NEW S, S \subseteq 1..n, S # {}
    PROVE  Max(S) \in S /\ \A w \in S : w <= Max(S)
<1> DEFINE T == {n - v : v \in S}
<1>1. T \in SUBSET Nat /\ T # {}
  <2>1. ASSUME NEW v \in S PROVE n - v \in Nat
    <3>1. v \in 1..n
      OBVIOUS
    <3> QED
      BY <3>1
  <2> QED
    BY <2>1
<1>2. PICK x \in T : \A y \in T : x <= y
  BY <1>1, LeastNatural
<1>3. PICK v \in S : x = n - v
  BY <1>2
<1>4. \A w \in S : n - v <= n - w /\ w \in 1..n
  BY <1>2, <1>3
<1>5. \A w \in S : w <= v
  BY <1>3, <1>4
<1> QED
  BY <1>3, <1>5 DEF Max

\* The number of elements below one.
Below(S, v) == {w \in S : w < v}
Rank(S, v) == Cardinality(Below(S, v))

\* Ranks are numbers.
LEMMA RankType ==
    ASSUME NEW n \in Nat, NEW S, S \subseteq 1..n
    PROVE  /\ IsFiniteSet(S) /\ Cardinality(S) \in Nat
           /\ \A v : IsFiniteSet(Below(S, v)) /\ Rank(S, v) \in Nat
<1>1. IsFiniteSet(1..n)
  BY FS_Interval
<1>2. IsFiniteSet(S)
  BY <1>1, FS_Subset
<1>3. ASSUME NEW v PROVE IsFiniteSet(Below(S, v))
  <2>1. Below(S, v) \in SUBSET S
    BY DEF Below
  <2> QED
    BY <1>2, <2>1, FS_Subset
<1> QED
  BY <1>2, <1>3, FS_CardinalityType DEF Rank

\* A greater element has a greater rank, and every rank is below the size.
LEMMA RankGrows ==
    ASSUME NEW n \in Nat, NEW S, S \subseteq 1..n, NEW u \in S
    PROVE  Rank(S, u) < Cardinality(S) /\ \A v \in S : u < v => Rank(S, u) < Rank(S, v)
<1>1. /\ IsFiniteSet(S) /\ Cardinality(S) \in Nat
      /\ \A v : IsFiniteSet(Below(S, v)) /\ Rank(S, v) \in Nat
  BY RankType
<1>2. ASSUME NEW T, IsFiniteSet(T), Cardinality(T) \in Nat, Below(S, u) \subseteq T, u \in T
      PROVE  Rank(S, u) < Cardinality(T)
  <2>1. u \notin Below(S, u)
    BY DEF Below
  <2>2. Cardinality(Below(S, u)) <= Cardinality(T) /\ Cardinality(T) # Cardinality(Below(S, u))
    BY <1>2, <2>1, FS_Subset
  <2> QED
    BY <1>1, <1>2, <2>2 DEF Rank
<1>3. Rank(S, u) < Cardinality(S)
  BY <1>1, <1>2 DEF Below
<1>4. ASSUME NEW v \in S, u < v PROVE Rank(S, u) < Rank(S, v)
  <2>1. u \in Below(S, v)
    BY <1>4 DEF Below
  <2>2. Below(S, u) \subseteq Below(S, v)
    <3>1. \A w \in S : w \in Nat
      OBVIOUS
    <3>2. \A w \in S : w < u => w < v
      BY <1>4, <3>1
    <3> QED
      BY <3>2 DEF Below
  <2>3. IsFiniteSet(Below(S, v)) /\ Cardinality(Below(S, v)) \in Nat
    BY <1>1 DEF Rank
  <2> QED
    BY <1>2, <2>1, <2>2, <2>3 DEF Rank
<1> QED
  BY <1>3, <1>4

\* The ranks are without a gap.
LEMMA RankReached ==
    ASSUME NEW n \in Nat, NEW S, S \subseteq 1..n, NEW i \in 1..Cardinality(S)
    PROVE  \E v \in S : Rank(S, v) = i - 1
<1>1. PICK c : c = Cardinality(S) /\ c \in Nat
  BY RankType
<1>2. IsFiniteSet(S) /\ \A v : IsFiniteSet(Below(S, v))
  BY RankType
<1> DEFINE Has(k) == \E v \in S : Rank(S, v) = k
           P == {m \in Nat : Has((c - 1) - m)}
<1>3. ASSUME NEW T, T \subseteq S, T # {}, IsFiniteSet(T), \A x \in S : \A y \in T : x <= y => x \in T
      PROVE  Has(Cardinality(T) - 1)
  <2>1. PICK u : u = Max(T) /\ u \in T /\ \A w \in T : w <= u
    <3>1. T \subseteq 1..n
      BY <1>3
    <3> QED
      BY <1>3, <3>1, Greatest
  <2>2. Below(S, u) = T \ {u}
    <3>1. \A w \in S : w \in 1..n
      OBVIOUS
    <3>2. u \in 1..n
      BY <1>3, <2>1
    <3>3. \A w \in S : w < u => w \in T /\ w # u
      BY <1>3, <2>1, <3>1, <3>2
    <3>4. \A w \in T : w # u => w < u /\ w \in S
      BY <1>3, <2>1, <3>1, <3>2
    <3> QED
      BY <3>3, <3>4 DEF Below
  <2>3. Cardinality(T \ {u}) = Cardinality(T) - 1
    BY <1>3, <2>1, FS_RemoveElement
  <2>4. u \in S
    BY <1>3, <2>1
  <2> QED
    BY <2>2, <2>3, <2>4 DEF Rank
<1>4. c # 0 /\ S # {}
  <2>1. c # 0
    BY <1>1
  <2> QED
    BY <1>1, <1>2, <2>1, FS_EmptySet
<1>5. 0 \in P
  <2>1. Has(Cardinality(S) - 1)
    BY <1>2, <1>3, <1>4
  <2>2. (c - 1) - 0 = Cardinality(S) - 1
    BY <1>1
  <2> HIDE DEF Has
  <2> QED
    BY <2>1, <2>2
<1>6. ASSUME NEW m \in 0..((c - 1) - 1), m \in P PROVE m + 1 \in P
  <2>1. PICK v \in S : Rank(S, v) = (c - 1) - m
    BY <1>6
  <2>2. PICK T : T = Below(S, v)
    OBVIOUS
  <2>3. Cardinality(T) = (c - 1) - m /\ (c - 1) - m # 0 /\ (c - 1) - (m + 1) = Cardinality(T) - 1 /\ m + 1 \in Nat
    BY <1>1, <2>1, <2>2 DEF Rank
  <2>4. T # {}
    BY <2>3, FS_EmptySet
  <2>5. T \subseteq S /\ IsFiniteSet(T)
    BY <1>2, <2>2 DEF Below
  <2>6. \A x \in S : \A y \in T : x <= y => x \in T
    <3>1. \A x \in S : x \in 1..n
      OBVIOUS
    <3> QED
      BY <2>2, <3>1 DEF Below
  <2>7. Has(Cardinality(T) - 1)
    BY <1>3, <2>4, <2>5, <2>6
  <2> HIDE DEF Has
  <2> QED
    BY <2>3, <2>7
<1>7. \A m \in 0..(c - 1) : m \in P
  <2> HIDE DEF P
  <2>1. c - 1 \in Nat
    BY <1>1, <1>4
  <2> QED
    BY <1>5, <1>6, <2>1, Upward
<1>8. c - i \in 0..(c - 1) /\ (c - 1) - (c - i) = i - 1
  BY <1>1
<1>9. Has((c - 1) - (c - i))
  <2> HIDE DEF Has
  <2> QED
    BY <1>7, <1>8
<1> QED
  BY <1>8, <1>9

\* Ascending lists the elements of a set, each once and in order.
Ranked(S, c, A) ==
    /\ c \in Nat /\ A = [i \in 1..c |-> A[i]]
    /\ \A i \in 1..c : A[i] \in S /\ Rank(S, A[i]) = i - 1
    /\ \A v \in S : Rank(S, v) + 1 \in 1..c /\ A[Rank(S, v) + 1] = v
    /\ \A i, k \in 1..c : i < k => A[i] < A[k]

\* Ascending(S) is that list.
LEMMA AscendingFacts ==
    ASSUME NEW n \in Nat, NEW S, S \subseteq 1..n, NEW c, c = Cardinality(S), NEW A, A = Ascending(S)
    PROVE  Ranked(S, c, A)
<1>1. c \in Nat /\ \A v : Rank(S, v) \in Nat
  BY RankType
<1> DEFINE At(i) == CHOOSE v \in S : Rank(S, v) = i - 1
<1>2. A = [i \in 1..c |-> At(i)]
  BY DEF Ascending, Rank, Below
<1>0. A = [i \in 1..c |-> A[i]]
  <2> HIDE DEF At
  <2> QED
    BY <1>2
<1>3. ASSUME NEW i \in 1..c PROVE A[i] \in S /\ Rank(S, A[i]) = i - 1
  <2>1. \E v \in S : Rank(S, v) = i - 1
    BY RankReached
  <2>2. A[i] = At(i)
    <3> HIDE DEF At
    <3> QED
      BY <1>2
  <2> QED
    BY <2>1, <2>2
<1>4. \A u, v \in S : u < v => Rank(S, u) < Rank(S, v)
  BY RankGrows
<1>5. \A u \in S : u \in 1..n
  OBVIOUS
<1>6. \A u, v \in S : Rank(S, u) = Rank(S, v) => u = v
  BY <1>1, <1>4, <1>5
<1>7. ASSUME NEW v \in S PROVE Rank(S, v) + 1 \in 1..c /\ A[Rank(S, v) + 1] = v
  <2>1. Rank(S, v) < c
    BY RankGrows
  <2>2. Rank(S, v) + 1 \in 1..c /\ (Rank(S, v) + 1) - 1 = Rank(S, v)
    BY <1>1, <2>1
  <2>3. A[Rank(S, v) + 1] \in S /\ Rank(S, A[Rank(S, v) + 1]) = Rank(S, v)
    BY <1>3, <2>2
  <2> QED
    BY <1>6, <2>2, <2>3
<1>8. ASSUME NEW i \in 1..c, NEW k \in 1..c, i < k PROVE A[i] < A[k]
  <2>1. A[i] \in S /\ A[k] \in S /\ Rank(S, A[i]) = i - 1 /\ Rank(S, A[k]) = k - 1
    BY <1>3
  <2>2. i - 1 < k - 1 /\ ~(k - 1 < i - 1) /\ i - 1 # k - 1
    BY <1>1, <1>8
  <2>3. ~(A[k] < A[i]) /\ A[i] # A[k]
    BY <1>4, <2>1, <2>2
  <2>4. A[i] \in 1..n /\ A[k] \in 1..n
    BY <1>5, <2>1
  <2> QED
    BY <2>3, <2>4
<1> QED
  BY <1>0, <1>1, <1>3, <1>7, <1>8 DEF Ranked

-----------------------------------------------------------------------------
(* Lists *)

\* A function on 1..k is a list of length k.
LEMMA IsList ==
    ASSUME NEW k \in Nat, NEW f, DOMAIN f = 1..k, f = [i \in 1..k |-> f[i]]
    PROVE  Len(f) = k /\ f \in Seq(Items(f))
<1>1. Len(f) = k
  OBVIOUS
<1>2. f \in [1..k -> Items(f)]
  BY <1>1 DEF Items
<1> QED
  BY <1>1, <1>2

\* ListVersions returns rows as they are, in ascending order, and with a row
\* all rows of lower versions.
Lists(L, st) ==
    /\ Len(L) \in Nat /\ L \in Seq(Items(L))
    /\ \A i \in 1..Len(L) : L[i].version \in DOMAIN st /\ L[i] = st[L[i].version]
    /\ \A i, k \in 1..Len(L) : i < k => L[i].version < L[k].version
    /\ \A i \in 1..Len(L) : \A w \in DOMAIN st : w < L[i].version => \E k \in 1..Len(L) : L[k].version = w

\* ListVersions is such a list of the rows.
LEMMA ListFacts ==
    ASSUME Rows
    PROVE  Lists(ListVersions, store)
<1>1. PICK S : S = DOMAIN store
  OBVIOUS
<1>2. S \subseteq 1..MaxVersion /\ MaxVersion \in Nat /\ ListLimit \in Nat /\ \A v \in S : store[v].version = v
  BY <1>1, MaintenanceAssumption DEF Rows
<1>3. PICK c : c = Cardinality(S)
  OBVIOUS
<1>4. PICK A : A = Ascending(S)
  OBVIOUS
<1>0. Ranked(S, c, A)
  BY <1>2, <1>3, <1>4, AscendingFacts, Zenon
<1>5. /\ c \in Nat /\ A = [i \in 1..c |-> A[i]]
      /\ \A i \in 1..c : A[i] \in S /\ Rank(S, A[i]) = i - 1
      /\ \A v \in S : Rank(S, v) + 1 \in 1..c /\ A[Rank(S, v) + 1] = v
      /\ \A i, k \in 1..c : i < k => A[i] < A[k]
  BY <1>0 DEF Ranked
<1>6. Len(A) = c
  <2>1. DOMAIN A = 1..c
    BY <1>5
  <2> QED
    BY <1>5, <2>1, IsList
<1>7. PICK k : k = (IF c < ListLimit THEN c ELSE ListLimit) /\ k \in Nat /\ k <= c
  <2>1. (IF c < ListLimit THEN c ELSE ListLimit) \in Nat /\ (IF c < ListLimit THEN c ELSE ListLimit) <= c
    BY <1>2, <1>5
  <2> QED
    BY <2>1
<1>8. PICK L : L = [i \in 1..k |-> store[A[i]]]
  OBVIOUS
<1>9. ListVersions = L
  BY <1>1, <1>4, <1>6, <1>7, <1>8 DEF ListVersions
<1>10. Len(L) = k /\ L \in Seq(Items(L))
  <2>1. DOMAIN L = 1..k /\ L = [i \in 1..k |-> L[i]]
    BY <1>8
  <2> QED
    BY <1>7, <2>1, IsList
<1>11. \A i \in 1..k : i \in 1..c
  BY <1>5, <1>7
<1>12. \A i \in 1..k : L[i] = store[A[i]] /\ A[i] \in S /\ L[i].version = A[i]
  BY <1>2, <1>5, <1>8, <1>11
<1>13. \A i, j \in 1..k : i < j => L[i].version < L[j].version
  BY <1>5, <1>11, <1>12
<1>14. ASSUME NEW v \in S, Rank(S, v) + 1 <= k PROVE \E j \in 1..k : L[j].version = v
  <2>1. Rank(S, v) + 1 \in 1..k
    BY <1>5, <1>7, <1>14
  <2> QED
    BY <1>5, <1>12, <2>1
<1>15. ASSUME NEW i \in 1..k, NEW w \in S, w < L[i].version PROVE \E j \in 1..k : L[j].version = w
  <2>1. Rank(S, w) < Rank(S, A[i]) /\ Rank(S, A[i]) = i - 1 /\ Rank(S, w) \in Nat
    BY <1>2, <1>5, <1>11, <1>12, <1>15, RankGrows, RankType
  <2>2. Rank(S, w) + 1 <= k
    BY <1>7, <2>1
  <2> QED
    BY <1>14, <2>2
<1> QED
  BY <1>1, <1>7, <1>9, <1>10, <1>12, <1>13, <1>15 DEF Lists

\* The first record of a list and the rest of it.
LEMMA TailFacts ==
    ASSUME NEW s, s \in Seq(Items(s)), s # <<>>
    PROVE  /\ Len(s) \in Nat /\ 1 \in 1..Len(s) /\ Head(s) = s[1]
           /\ Len(Tail(s)) = Len(s) - 1
           /\ \A i \in 1..Len(Tail(s)) : i + 1 \in 1..Len(s) /\ Tail(s)[i] = s[i + 1]
           /\ \A i \in 1..Len(s) : i = 1 \/ (i - 1 \in 1..Len(Tail(s)) /\ Tail(s)[i - 1] = s[i])
           /\ Tail(s) \in Seq(Items(Tail(s)))
<1>1. PICK S : S = Items(s)
  OBVIOUS
<1>2. s \in Seq(S)
  BY <1>1
<1>3. PICK t : t = Tail(s)
  OBVIOUS
<1>4. Len(s) \in Nat /\ Len(s) # 0 /\ Head(s) = s[1]
  BY <1>2
<1>5. t \in Seq(S) /\ Len(t) = Len(s) - 1 /\ \A i \in 1..(Len(s) - 1) : t[i] = s[i + 1]
  BY <1>2, <1>3, <1>4
<1>6. t \in Seq(Items(t))
  <2>1. DOMAIN t = 1..Len(t) /\ Len(t) \in Nat /\ t = [i \in 1..Len(t) |-> t[i]]
    BY <1>5
  <2> QED
    BY <2>1, IsList
<1>7. \A i \in 1..Len(t) : i + 1 \in 1..Len(s) /\ t[i] = s[i + 1]
  BY <1>4, <1>5
<1>8. ASSUME NEW i \in 1..Len(s), i # 1 PROVE i - 1 \in 1..Len(t) /\ t[i - 1] = s[i]
  <2>1. i - 1 \in 1..Len(t) /\ (i - 1) + 1 = i
    BY <1>4, <1>5, <1>8
  <2> QED
    BY <1>7, <2>1
<1> QED
  BY <1>3, <1>4, <1>5, <1>6, <1>7, <1>8

-----------------------------------------------------------------------------
-----------------------------------------------------------------------------
(* Rows, records and jobs *)

\* The row Update leaves.
Written(old, r) ==
    [old EXCEPT !.data = r.data, !.hash = r.hash, !.prev = r.prev, !.strategy = r.strategy]

\* An updated row is a row, with the version and the stamp it had.
LEMMA WrittenFacts ==
    ASSUME NEW old, NEW r, RowOK(old), RowOK(r), old.version = r.version, NEW x, x = Written(old, r)
    PROVE  /\ RowOK(x) /\ x.version = old.version /\ x.born = old.born
           /\ x.data = r.data /\ x.hash = r.hash /\ x.strategy = r.strategy
<1>1. DOMAIN x = Columns
  BY DEF Written, RowOK
<1>2. /\ x.version = old.version /\ x.data = r.data /\ x.hash = r.hash /\ x.strategy = r.strategy
      /\ x.born = old.born
  BY DEF Written, RowOK, Columns
<1> QED
  BY <1>1, <1>2 DEF RowOK

\* Writer.Update changes one row, and adds none.
LEMMA UpdateFacts ==
    ASSUME TypeInv, NEW r, RowOK(r), r.version \in DOMAIN store, Update(r)
    PROVE  /\ DOMAIN store' = DOMAIN store
           /\ \A w \in DOMAIN store : w # r.version => store'[w] = store[w]
           /\ RowOK(store'[r.version]) /\ store'[r.version].version = r.version
           /\ store'[r.version].born = store[r.version].born
           /\ store'[r.version].data = r.data /\ store'[r.version].hash = r.hash
           /\ store'[r.version].strategy = r.strategy
<1>1. RowOK(store[r.version]) /\ store[r.version].version = r.version
  BY DEF TypeInv, Rows
<1>2. PICK x : x = Written(store[r.version], r)
  OBVIOUS
<1>3. store' = Put(store, r.version, x)
  BY <1>2 DEF Update, Written
<1>4. /\ RowOK(x) /\ x.version = store[r.version].version /\ x.born = store[r.version].born
      /\ x.data = r.data /\ x.hash = r.hash /\ x.strategy = r.strategy
  BY <1>1, <1>2, WrittenFacts
<1>5. /\ DOMAIN store' = DOMAIN store \cup {r.version} /\ store'[r.version] = x
      /\ \A w \in DOMAIN store : w # r.version => store'[w] = store[w]
  <2>1. PICK su : su = store' /\ su = Put(store, r.version, x)
    BY <1>3
  <2>2. /\ DOMAIN su = DOMAIN store \cup {r.version} /\ su[r.version] = x
        /\ \A w \in DOMAIN store : w # r.version => su[w] = store[w]
    BY <2>1 DEF Put
  <2> QED
    BY <2>1, <2>2
<1> QED
  BY <1>1, <1>4, <1>5

\* A pass that goes on with the rest of its list.
Shifted(j, k, n) ==
    /\ DOMAIN k = {"op", "field", "todo", "listed", "chain"}
    /\ k.op = j.op /\ k.field = j.field /\ k.listed = j.listed
    /\ k.todo = Tail(j.todo) /\ k.chain = n
    /\ Len(j.todo) # 1

\* Going on to the next record keeps a list a list.
LEMMA ShiftedOK ==
    ASSUME NEW j, JobOK(j), ListOK(j), j.todo # <<>>, NEW n \in Nat, NEW k, Shifted(j, k, n)
    PROVE  JobOK(k) /\ ListOK(k)
<1>1. PICK s : s = j.todo
  OBVIOUS
<1>2. PICK t : t = k.todo
  OBVIOUS
<1>3. s \in Seq(Items(s)) /\ s # <<>> /\ t = Tail(s)
  BY <1>1, <1>2 DEF JobOK, Shifted
<1>4. /\ Len(s) \in Nat /\ 1 \in 1..Len(s)
      /\ Len(t) = Len(s) - 1
      /\ \A i \in 1..Len(t) : i + 1 \in 1..Len(s) /\ t[i] = s[i + 1]
      /\ \A i \in 1..Len(s) : i = 1 \/ (i - 1 \in 1..Len(t) /\ t[i - 1] = s[i])
      /\ t \in Seq(Items(t))
  BY <1>3, TailFacts
<1>5. 1 \in 1..Len(t) /\ t # <<>>
  <2>1. Len(t) # 0
    BY <1>1, <1>4 DEF Shifted
  <2> QED
    BY <1>4, <2>1
<1>6. JobOK(k)
  <2>1. DOMAIN k = {"op", "field", "todo", "listed", "chain"} /\ k.op = j.op /\ k.chain = n
    BY DEF Shifted
  <2>2. j.op \in {"redact", "compact"}
    BY DEF JobOK
  <2> QED
    BY <1>2, <1>4, <1>5, <2>1, <2>2 DEF JobOK
<1>7. k.listed = j.listed
  BY DEF Shifted
<1>8. /\ \A i \in 1..Len(s) : RowOK(s[i])
      /\ \A i, m \in 1..Len(s) : i < m => s[i].version < s[m].version
      /\ \A v \in j.listed : v < s[1].version \/ \E i \in 1..Len(s) : v = s[i].version
      /\ j.listed \subseteq Nat
  BY <1>1 DEF ListOK
<1>9. \A i \in 1..Len(t) : RowOK(t[i])
  BY <1>4, <1>7, <1>8
<1>10. ASSUME NEW i \in 1..Len(t), NEW m \in 1..Len(t), i < m PROVE t[i].version < t[m].version
  <2>1. i + 1 \in 1..Len(s) /\ m + 1 \in 1..Len(s) /\ i + 1 < m + 1
    BY <1>4, <1>10
  <2> QED
    BY <1>4, <1>8, <2>1
<1>11. ASSUME NEW v \in k.listed PROVE v < t[1].version \/ \E i \in 1..Len(t) : v = t[i].version
  <2>1. 2 \in 1..Len(s) /\ t[1] = s[2] /\ s[1].version < s[2].version
    <3>1. 1 + 1 \in 1..Len(s) /\ t[1] = s[1 + 1]
      BY <1>4, <1>5
    <3>2. 1 + 1 = 2 /\ 1 < 2
      OBVIOUS
    <3> QED
      BY <1>4, <1>8, <3>1, <3>2
  <2>2. s[1].version \in Nat /\ s[2].version \in Nat /\ v \in Nat
    BY <1>4, <1>7, <1>8, <2>1 DEF RowOK
  <2>3. CASE v < s[1].version
    BY <2>1, <2>2, <2>3
  <2>4. ASSUME NEW i \in 1..Len(s), v = s[i].version
        PROVE  v < t[1].version \/ \E m \in 1..Len(t) : v = t[m].version
    <3>1. CASE i = 1
      BY <2>1, <2>4, <3>1
    <3>2. CASE i # 1
      BY <1>4, <2>4, <3>2
    <3> QED
      BY <3>1, <3>2
  <2> QED
    BY <1>7, <1>8, <2>3, <2>4
<1>12. ListOK(k)
  BY <1>2, <1>5, <1>7, <1>8, <1>9, <1>10, <1>11 DEF ListOK
<1> QED
  BY <1>6, <1>12

\* A pass that has not begun or has returned.
Idle(j) ==
    /\ DOMAIN j = {"op", "field", "todo", "listed", "chain"}
    /\ j.op \in {"none", "done"} /\ j.todo = <<>> /\ j.listed = {} /\ j.chain = 0

\* A pass with nothing to do is well-formed.
LEMMA IdleOK ==
    ASSUME NEW j, Idle(j)
    PROVE  JobOK(j) /\ ListOK(j) /\ Len(j.todo) = 0
<1>1. Len(j.todo) = 0 /\ j.todo \in Seq(Items(j.todo))
  BY DEF Idle
<1>2. JobOK(j)
  BY <1>1 DEF Idle, JobOK
<1> QED
  BY <1>1, <1>2 DEF Idle, ListOK

\* A pass that has returned has nothing to do.
LEMMA ReturnedIdle == Idle(Returned)
BY DEF Idle, Returned

\* What a round does to the jobs.
LEMMA AdvanceFacts ==
    ASSUME Jobs, NEW p \in Passes, NEW n, Advance(p, n)
    PROVE  /\ DOMAIN job' = Passes /\ \A q \in Passes : q # p => job'[q] = job[q]
           /\ Len(job[p].todo) = 1 => Idle(job'[p])
           /\ Len(job[p].todo) # 1 => Shifted(job[p], job'[p], n)
<1>1. DOMAIN job = Passes /\ DOMAIN job[p] = {"op", "field", "todo", "listed", "chain"}
  BY DEF Jobs, JobsOf, JobOK
<1>2. job' = [job EXCEPT ![p] = IF Len(job[p].todo) = 1 THEN Returned
                                ELSE [job[p] EXCEPT !.todo = Tail(job[p].todo), !.chain = n]]
  BY DEF Advance
<1>3. PICK j : j = [job[p] EXCEPT !.todo = Tail(job[p].todo), !.chain = n]
  OBVIOUS
<1>4. Len(job[p].todo) # 1 => Shifted(job[p], j, n)
  BY <1>1, <1>3 DEF Shifted
<1>5. job'[p] = IF Len(job[p].todo) = 1 THEN Returned ELSE j
  BY <1>1, <1>2, <1>3
<1>6. DOMAIN job' = Passes /\ \A q \in Passes : q # p => job'[q] = job[q]
  BY <1>1, <1>2
<1> QED
  BY <1>4, <1>5, <1>6, ReturnedIdle

-----------------------------------------------------------------------------
-----------------------------------------------------------------------------
(* A round of a pass *)

\* The first listed record is done: redacted, or counted as a delta of the
\* chain, or the end of the chain.
Done(j, n, st) ==
    /\ j.op = "redact" /\ Redactable /\ j.field \in Fields /\ j.todo[1].version \in j.listed =>
           st[j.todo[1].version].data[j.field] = Redacted
    /\ j.op = "compact" => \/ n = j.chain + 1 /\ n < MaxDeltaChain
                           \/ n = 0 /\ (j.todo[1].version \in j.listed => st[j.todo[1].version].strategy = "full")

\* Nothing that was redacted or compacted is undone, save in a row that the
\* first record of j is not about.
Keeps(st, su, j) ==
    \A v \in DOMAIN st : v # j.todo[1].version \/ v \in j.listed =>
        /\ \A f \in Fields : st[v].data[f] = Redacted => su[v].data[f] = Redacted
        /\ st[v].strategy = "full" => su[v].strategy = "full"

\* What a round does, whether it saves the record or not.
Round(p, n) ==
    /\ p \in Passes /\ n \in Nat /\ job[p].todo # <<>>
    /\ Advance(p, n)
    /\ DOMAIN store' = DOMAIN store
    /\ \A v \in DOMAIN store : RowOK(store'[v]) /\ store'[v].version = v /\ Genuine(store'[v], versioned[v])
    /\ \A v \in DOMAIN store : v # job[p].todo[1].version => store'[v] = store[v]
    /\ \A v \in DOMAIN store : store'[v].born = store[v].born
    /\ ~overlap => Keeps(store, store', job[p]) /\ Done(job[p], n, store')

\* A round keeps the types.
LEMMA RoundTypes ==
    ASSUME IInv, NEW p, NEW n, Round(p, n)
    PROVE  TypeInv'
<1>1. p \in Passes /\ n \in Nat /\ job[p].todo # <<>> /\ Advance(p, n) /\ Jobs /\ Rows /\ Histories
  BY DEF Round, IInv, TypeInv
<1>2. UNCHANGED <<format, now, call, versioned, latestAt, overlap, overtaken>>
  BY <1>1 DEF Advance, untouched
<1>3. Rows'
  <2>1. /\ DOMAIN store' = DOMAIN store
        /\ \A v \in DOMAIN store : RowOK(store'[v]) /\ store'[v].version = v /\ Genuine(store'[v], versioned[v])
    BY DEF Round
  <2> QED
    BY <1>1, <1>2, <2>1 DEF Rows
<1>4. /\ DOMAIN job' = Passes /\ \A q \in Passes : q # p => job'[q] = job[q]
      /\ Len(job[p].todo) = 1 => Idle(job'[p])
      /\ Len(job[p].todo) # 1 => Shifted(job[p], job'[p], n)
  BY <1>1, AdvanceFacts
<1>5. /\ JobOK(job[p]) /\ ListOK(job[p]) /\ job[p].op \in {"redact", "compact"}
      /\ job[p].listed \subseteq DOMAIN store
  BY <1>1 DEF Jobs, JobsOf, JobOK
<1>6. JobOK(job'[p]) /\ ListOK(job'[p])
  <2>1. CASE Len(job[p].todo) = 1
    BY <1>4, <2>1, IdleOK
  <2>2. CASE Len(job[p].todo) # 1
    BY <1>1, <1>4, <1>5, <2>2, ShiftedOK
  <2> QED
    BY <2>1, <2>2
<1>7. /\ job'[p].op \in {"redact", "compact"} => job'[p].op = job[p].op
      /\ job'[p].listed \subseteq job[p].listed
  BY <1>4 DEF Idle, Shifted
<1>9. DOMAIN store' = DOMAIN store
  BY DEF Round
<1>8. Jobs'
  <2>1. ASSUME NEW q \in Passes
        PROVE  /\ JobOK(job'[q])
               /\ job'[q].op = "redact" => q \in Redactors
               /\ job'[q].op = "compact" => q \in Compactors
               /\ ListOK(job'[q])
               /\ job'[q].listed \subseteq DOMAIN store
    <3>1. /\ JobOK(job[q]) /\ ListOK(job[q])
          /\ job[q].op = "redact" => q \in Redactors
          /\ job[q].op = "compact" => q \in Compactors
          /\ job[q].listed \subseteq DOMAIN store
      BY <1>1 DEF Jobs, JobsOf
    <3>2. CASE q # p
      BY <1>4, <3>1, <3>2
    <3>3. CASE q = p
      BY <1>5, <1>6, <1>7, <3>1, <3>3
    <3> QED
      BY <3>2, <3>3
  <2>2. JobsOf(job', DOMAIN store)
    BY <1>4, <2>1 DEF JobsOf
  <2> QED
    BY <1>9, <2>2 DEF Jobs
<1>10. \A r \in redactions' : DOMAIN r = {"field", "versions"} /\ r.versions \subseteq DOMAIN store
  <2>1. \A r \in redactions : DOMAIN r = {"field", "versions"} /\ r.versions \subseteq DOMAIN store
    BY <1>1 DEF Histories
  <2>2. PICK x : x = [field |-> job[p].field, versions |-> job[p].listed]
    OBVIOUS
  <2>3. redactions' \subseteq redactions \cup {x}
    BY <1>1, <2>2 DEF Advance
  <2>4. DOMAIN x = {"field", "versions"} /\ x.versions \subseteq DOMAIN store
    BY <1>5, <2>2
  <2> QED
    BY <2>1, <2>3, <2>4
<1>11. \A S \in compacted' : S \subseteq DOMAIN store
  <2>1. compacted' \subseteq compacted \cup {job[p].listed}
    BY <1>1 DEF Advance
  <2> QED
    BY <1>1, <1>5, <2>1 DEF Histories
<1>12. Histories'
  BY <1>1, <1>2, <1>9, <1>10, <1>11 DEF Histories
<1>13. Calls'
  BY <1>2 DEF IInv, TypeInv, Calls
<1> QED
  BY <1>2, <1>3, <1>8, <1>12, <1>13 DEF IInv, TypeInv

\* After a round everything listed below the next record was below the first
\* one or is the first one; behind the last record that is everything.
LEMMA NextHead ==
    ASSUME NEW j, JobOK(j), ListOK(j), j.todo # <<>>, NEW n, NEW k, Shifted(j, k, n)
    PROVE  /\ j.todo[1].version \in Nat /\ k.todo[1].version \in Nat
           /\ j.todo[1].version < k.todo[1].version
           /\ \A v \in j.listed : v < k.todo[1].version => v < j.todo[1].version \/ v = j.todo[1].version
<1>1. PICK s : s = j.todo
  OBVIOUS
<1>2. s \in Seq(Items(s)) /\ s # <<>> /\ k.todo = Tail(s) /\ Len(s) # 1
  BY <1>1 DEF JobOK, Shifted
<1>3. /\ Len(s) \in Nat /\ 1 \in 1..Len(s)
      /\ Len(Tail(s)) = Len(s) - 1
      /\ \A i \in 1..Len(Tail(s)) : i + 1 \in 1..Len(s) /\ Tail(s)[i] = s[i + 1]
  BY <1>2, TailFacts
<1>4. 1 \in 1..Len(Tail(s)) /\ 2 \in 1..Len(s)
  BY <1>2, <1>3
<1>5. k.todo[1] = s[2]
  <2>1. Tail(s)[1] = s[1 + 1] /\ 1 + 1 = 2
    BY <1>3, <1>4
  <2> QED
    BY <1>2, <2>1
<1>6. /\ \A i \in 1..Len(s) : RowOK(s[i])
      /\ \A i, m \in 1..Len(s) : i < m => s[i].version < s[m].version
      /\ \A v \in j.listed : v < s[1].version \/ \E i \in 1..Len(s) : v = s[i].version
  BY <1>1 DEF ListOK
<1>7. \A i \in 1..Len(s) : s[i].version \in Nat
  BY <1>6 DEF RowOK
<1>8. s[1].version < s[2].version
  BY <1>3, <1>4, <1>6
<1>9. \A i \in 1..Len(s) : i = 1 \/ i = 2 \/ s[2].version < s[i].version
  <2>1. \A i \in 1..Len(s) : i = 1 \/ i = 2 \/ 2 < i
    BY <1>3
  <2> QED
    BY <1>4, <1>6, <2>1
<1>10. \A i \in 1..Len(s) : s[i].version < s[2].version => i = 1
  BY <1>4, <1>7, <1>9
<1> QED
  BY <1>1, <1>3, <1>4, <1>5, <1>6, <1>7, <1>8, <1>10

\* Behind the last record everything listed is done.
LEMMA LastHead ==
    ASSUME NEW j, JobOK(j), ListOK(j), j.todo # <<>>, Len(j.todo) = 1
    PROVE  /\ j.todo[1].version \in Nat
           /\ \A v \in j.listed : v < j.todo[1].version \/ v = j.todo[1].version
<1>1. /\ \A i \in 1..1 : RowOK(j.todo[i])
      /\ \A v \in j.listed : v < j.todo[1].version \/ \E i \in 1..1 : v = j.todo[i].version
  BY DEF ListOK
<1>2. \A i \in 1..1 : i = 1
  OBVIOUS
<1> QED
  BY <1>1, <1>2 DEF RowOK


\* The record at h is counted, or ends the chain.
Counted(S, st, h, c, n) ==
    \/ n = c + 1 /\ n < MaxDeltaChain
    \/ n = 0 /\ (h \in S => st[h].strategy = "full")

FullKept(S, st, su) == \A v \in S : st[v].strategy = "full" => su[v].strategy = "full"

\* How the part without long chains grows by the record at h, and the chain
\* that ends there.
LEMMA ShortGrows ==
    ASSUME NEW st, NEW su, NEW h \in Nat, NEW B, B \subseteq Nat, NEW C, NEW n \in Nat, NEW c \in Nat,
           \A v \in B : v < h,
           \A v \in C : v \in B \/ v = h,
           Short(B, st),
           ChainUpTo(B, st, h, c), FullKept(B, st, su), Counted(C, su, h, c, n)
    PROVE  Short(C, su) /\ \A m \in Nat : h < m => ChainUpTo(C, su, m, n)
<1> USE DEF ChainUpTo, FullKept, Counted
<1>1. PICK M : M = MaxDeltaChain /\ M \in Nat /\ M # 0
  BY MaintenanceAssumption
<1>2. ASSUME NEW v \in C PROVE v \in Nat /\ v <= h
  <2>1. v \in Nat /\ (v < h \/ v = h)
    OBVIOUS
  <2> QED
    BY <2>1
<1>3. ASSUME NEW a \in C, NEW b \in Nat, a < h, b = h - 1, \A v \in a..b : v \in C /\ su[v].strategy # "full"
      PROVE  h - a <= c
  <2>1. a \in B /\ a \in Nat
    BY <1>2, <1>3
  <2>2. ASSUME NEW v \in a..(h - 1) PROVE v \in B /\ st[v].strategy # "full"
    <3>1. v \in a..b /\ v # h
      BY <1>3, <2>1
    <3>2. v \in C /\ su[v].strategy # "full"
      BY <1>3, <3>1
    <3> QED
      BY <3>1, <3>2
  <2> QED
    BY <2>1, <2>2
<1>4. ASSUME NEW a \in C, \A v \in Window(a, M) : v \in C /\ su[v].strategy # "full" PROVE FALSE
  <2>1. a \in Nat /\ a <= h
    BY <1>2
  <2>2. a + M - 1 \in a..(a + M - 1) /\ a \in a..(a + M - 1) /\ a + M - 1 \in Nat
    BY <1>1, <2>1
  <2>3. a + M - 1 \in C /\ su[a + M - 1].strategy # "full"
    BY <1>4, <2>2 DEF Window
  <2>4. CASE a + M - 1 # h
    <3>1. a + M - 1 < h
      BY <1>1, <1>2, <2>1, <2>3, <2>4
    <3>2. ASSUME NEW v \in Window(a, M) PROVE v \in B
      <4>1. v # h
        BY <2>1, <2>2, <3>1 DEF Window
      <4> QED
        BY <1>4, <4>1
    <3>3. a \in Window(a, M)
      BY <2>2 DEF Window
    <3>4. PICK v \in Window(a, M) : st[v].strategy = "full"
      BY <1>1, <3>2, <3>3 DEF Short
    <3> QED
      BY <1>4, <3>2, <3>4
  <2>5. CASE a + M - 1 = h
    <3>1. n = c + 1 /\ n < M
      BY <1>1, <2>3, <2>5
    <3>2. a < h /\ h - 1 \in Nat
      BY <1>1, <2>1, <2>5, <3>1
    <3>3. \A v \in a..(h - 1) : v \in Window(a, M)
      BY <2>1, <2>5 DEF Window
    <3>4. h - a <= c
      BY <1>3, <1>4, <3>2, <3>3
    <3> QED
      BY <1>1, <2>1, <2>5, <3>1, <3>4
  <2> QED
    BY <2>4, <2>5
<1>5. Short(C, su)
  <2>1. ASSUME NEW a \in C, Window(a, MaxDeltaChain) \subseteq C
        PROVE  \E v \in Window(a, MaxDeltaChain) : su[v].strategy = "full"
    BY <1>1, <1>4, <2>1
  <2> QED
    BY <2>1 DEF Short
<1>6. ASSUME NEW m \in Nat, h < m, NEW a \in C,
             \A v \in a..(m - 1) : v \in C /\ su[v].strategy # "full"
      PROVE  m - a <= n
  <2>1. a \in Nat /\ a <= h
    BY <1>2
  <2>2. m - 1 \in a..(m - 1) /\ h \in a..(m - 1)
    BY <1>6, <2>1
  <2>3. m - 1 \in C /\ h \in C /\ su[h].strategy # "full"
    BY <1>6, <2>2
  <2>4. m = h + 1
    BY <1>2, <1>6, <2>3
  <2>5. n = c + 1
    BY <2>3
  <2>6. CASE a = h
    BY <2>4, <2>5, <2>6
  <2>7. CASE a # h
    <3>1. a < h /\ h - 1 \in Nat
      BY <2>1, <2>7
    <3>2. \A v \in a..(h - 1) : v \in a..(m - 1)
      BY <2>1, <2>4
    <3>3. h - a <= c
      BY <1>3, <1>6, <3>1, <3>2
    <3> QED
      BY <2>1, <2>4, <2>5, <3>3
  <2> QED
    BY <2>6, <2>7
<1> QED
  BY <1>5, <1>6

\* A set without long chains stays one.
LEMMA ShortStays ==
    ASSUME NEW st, NEW su, NEW S, NEW T, T \subseteq S, Short(S, st),
           \A v \in T : st[v].strategy = "full" => su[v].strategy = "full"
    PROVE  Short(T, su)
BY DEF Short

\* A pass with nothing to do is on track.
LEMMA IdleOnTrack ==
    ASSUME NEW j, j.todo = <<>>, j.op \notin {"redact", "compact"}, NEW st, NEW R, NEW C
    PROVE  OnTrack(j, st, R, C)
<1>1. Len(j.todo) = 0
  OBVIOUS
<1> QED
  BY <1>1 DEF OnTrack, Current, Apart, RedactedSoFar, CompactedSoFar

\* What the round leaves behind it is done.
LEMMA RoundAlone ==
    ASSUME IInv, NEW p, NEW n, Round(p, n)
    PROVE  Alone'
<1>1. p \in Passes /\ n \in Nat /\ job[p].todo # <<>> /\ Advance(p, n) /\ Jobs /\ Rows /\ Histories
  BY DEF Round, IInv, TypeInv
<1>2. overlap' = overlap /\ format' = format
  BY <1>1 DEF Advance, untouched
<1> SUFFICES ASSUME ~overlap
             PROVE  /\ \A q, r \in Active' : q = r
                    /\ \A q \in Passes : OnTrack(job'[q], store', redactions', compacted')
                    /\ RedactedAll(redactions', store')
                    /\ \A S \in compacted' : Short(S, store')
  BY <1>2 DEF Alone, OnTrack, RedactedAll, RedactedSoFar, Redactable
<1>3. /\ \A q, r \in Active : q = r
      /\ OnTrack(job[p], store, redactions, compacted)
      /\ RedactedAll(redactions, store)
      /\ \A S \in compacted : Short(S, store)
  BY <1>1 DEF IInv, Alone
<1>4. /\ DOMAIN store' = DOMAIN store
      /\ \A v \in DOMAIN store : v # job[p].todo[1].version => store'[v] = store[v]
      /\ Keeps(store, store', job[p]) /\ Done(job[p], n, store')
  BY DEF Round
<1>5. /\ \A q \in Passes : q # p => job'[q] = job[q]
      /\ Len(job[p].todo) = 1 => Idle(job'[p])
      /\ Len(job[p].todo) # 1 => Shifted(job[p], job'[p], n)
  BY <1>1, AdvanceFacts
<1>6. /\ JobOK(job[p]) /\ ListOK(job[p]) /\ job[p].op \in {"redact", "compact"}
      /\ job[p].op = "redact" => p \in Redactors
      /\ job[p].op = "compact" => p \in Compactors
      /\ job[p].listed \subseteq DOMAIN store
  BY <1>1 DEF Jobs, JobsOf, JobOK
<1>7. PICK h : h = job[p].todo[1].version
  OBVIOUS
<1>8. Active' \subseteq Active
  <2>1. \A q \in Passes : job'[q].op \in {"redact", "compact"} => job[q].op \in {"redact", "compact"}
    BY <1>5, <1>6 DEF Idle, Shifted
  <2> QED
    BY <2>1 DEF Active
<1>9. PICK K : K = job[p].listed
  OBVIOUS
<1>10. PICK f : f = job[p].field
  OBVIOUS
<1>11. \A v \in K : v < h /\ job[p].op = "redact" /\ Redactable /\ f \in Fields => store'[v].data[f] = Redacted
  <2>1. \A v \in K : v < h /\ job[p].op = "redact" /\ Redactable /\ f \in Fields => store[v].data[f] = Redacted
    BY <1>3, <1>7, <1>9, <1>10 DEF OnTrack, RedactedSoFar
  <2> QED
    BY <1>4, <1>6, <1>9, <2>1 DEF Keeps
<1>12. job[p].op = "redact" /\ Redactable /\ f \in Fields /\ h \in K => store'[h].data[f] = Redacted
  BY <1>4, <1>7, <1>9, <1>10 DEF Done
<1> DEFINE B == {v \in K : v < h}
<1>13. ASSUME job[p].op = "compact", h \in Nat, NEW C, \A v \in C : v \in B \/ (v = h /\ v \in K)
       PROVE  Short(C, store') /\ \A m \in Nat : h < m => ChainUpTo(C, store', m, n)
  <2>1. Short(B, store) /\ ChainUpTo(B, store, h, job[p].chain)
    BY <1>3, <1>7, <1>9, <1>13 DEF OnTrack, CompactedSoFar
  <2>2. FullKept(B, store, store')
    BY <1>4, <1>6, <1>9 DEF Keeps, FullKept
  <2>3. Counted(C, store', h, job[p].chain, n)
    <3>1. \/ n = job[p].chain + 1 /\ n < MaxDeltaChain
          \/ n = 0 /\ (h \in K => store'[h].strategy = "full")
      BY <1>4, <1>7, <1>9, <1>13 DEF Done
    <3>2. h \in C => h \in K
      BY <1>13
    <3> QED
      BY <3>1, <3>2 DEF Counted
  <2>4. B \subseteq Nat /\ (\A v \in B : v < h) /\ (\A v \in C : v \in B \/ v = h) /\ job[p].chain \in Nat
    BY <1>6, <1>9, <1>13 DEF ListOK, JobOK
  <2> HIDE DEF B
  <2> QED
    BY <1>1, <1>13, <2>1, <2>2, <2>3, <2>4, ShortGrows, Zenon
<1>14. ASSUME Shifted(job[p], job'[p], n)
       PROVE  OnTrack(job'[p], store', redactions', compacted')
  <2>1. PICK j : j = job'[p]
    OBVIOUS
  <2>2. /\ h \in Nat /\ j.todo[1].version \in Nat /\ h < j.todo[1].version
        /\ \A v \in K : v < j.todo[1].version => v < h \/ v = h
    BY <1>1, <1>6, <1>7, <1>9, <1>14, <2>1, NextHead
  <2>3. j.op = job[p].op /\ j.field = f /\ j.listed = K /\ j.chain = n /\ j.todo = Tail(job[p].todo)
    BY <1>9, <1>10, <1>14, <2>1 DEF Shifted
  <2>4. ASSUME NEW i \in 1..Len(j.todo)
        PROVE  i + 1 \in 1..Len(job[p].todo) /\ j.todo[i] = job[p].todo[i + 1] /\ j.todo[i].version # h
    <3>1. job[p].todo \in Seq(Items(job[p].todo))
      BY <1>6 DEF JobOK
    <3>2. i + 1 \in 1..Len(job[p].todo) /\ 1 \in 1..Len(job[p].todo) /\ j.todo[i] = job[p].todo[i + 1]
      BY <1>1, <2>3, <3>1, TailFacts
    <3>3. 1 < i + 1
      BY <3>2
    <3>4. h < j.todo[i].version
      BY <1>6, <1>7, <3>2, <3>3 DEF ListOK
    <3> QED
      BY <2>2, <3>2, <3>4
  <2>5. Current(j, store')
    <3>1. ASSUME NEW i \in 1..Len(j.todo), j.todo[i].version \in j.listed
          PROVE  j.todo[i] = store'[j.todo[i].version]
      <4>1. i + 1 \in 1..Len(job[p].todo) /\ j.todo[i] = job[p].todo[i + 1] /\ j.todo[i].version # h
        BY <2>4
      <4>2. j.todo[i] = store[j.todo[i].version]
        BY <1>3, <1>9, <2>3, <3>1, <4>1 DEF OnTrack, Current
      <4>3. j.todo[i].version \in DOMAIN store
        BY <1>6, <1>9, <2>3, <3>1
      <4> QED
        BY <1>4, <1>7, <4>1, <4>2, <4>3
    <3> QED
      BY <3>1 DEF Current
  <2>6. redactions' = redactions /\ compacted' = compacted
    BY <1>1, <1>14 DEF Advance, Shifted
  <2>7. Apart(j, redactions', compacted')
    <3>1. ASSUME NEW i \in 1..Len(j.todo)
          PROVE  \/ j.todo[i].version \in j.listed
                 \/ /\ \A r \in redactions : j.todo[i].version \notin r.versions
                    /\ \A S \in compacted : j.todo[i].version \notin S
      BY <1>3, <1>9, <2>3, <2>4 DEF OnTrack, Apart
    <3> QED
      BY <2>6, <3>1 DEF Apart
  <2>8. RedactedSoFar(j, store')
    BY <1>11, <1>12, <2>2, <2>3 DEF RedactedSoFar
  <2>9. CompactedSoFar(j, store')
    <3>1. SUFFICES ASSUME job[p].op = "compact"
                   PROVE  CompactedSoFar(j, store')
      BY <2>3 DEF CompactedSoFar
    <3>2. PICK m : m = j.todo[1].version
      OBVIOUS
    <3>3. PICK C : C = {v \in j.listed : v < m}
      OBVIOUS
    <3>4. \A v \in C : v \in B \/ (v = h /\ v \in K)
      BY <2>2, <2>3, <3>2, <3>3
    <3>5. Short(C, store') /\ ChainUpTo(C, store', m, n)
      <4> HIDE DEF B
      <4> QED
        BY <1>13, <2>2, <3>1, <3>2, <3>4
    <3> QED
      BY <2>3, <3>2, <3>3, <3>5 DEF CompactedSoFar
  <2> QED
    BY <2>1, <2>5, <2>7, <2>8, <2>9 DEF OnTrack
<1>15. ASSUME NEW q \in Passes
       PROVE  OnTrack(job'[q], store', redactions', compacted')
  <2>1. CASE q # p
    <3>1. job[q].op \notin {"redact", "compact"}
      BY <1>1, <1>3, <1>6, <2>1 DEF Active
    <3>2. job'[q] = job[q] /\ job[q].todo = <<>>
      BY <1>1, <1>5, <2>1, <3>1 DEF Jobs, JobsOf, JobOK
    <3> QED
      BY <3>1, <3>2, IdleOnTrack
  <2>2. CASE q = p /\ Idle(job'[p])
    <3>1. job'[p].todo = <<>> /\ job'[p].op \notin {"redact", "compact"}
      BY <2>2 DEF Idle
    <3> QED
      BY <2>2, <3>1, IdleOnTrack
  <2>3. CASE q = p /\ Shifted(job[p], job'[p], n)
    BY <1>14, <2>3
  <2> QED
    BY <1>5, <2>1, <2>2, <2>3
<1>16. \A r \in redactions : \A v \in r.versions : v \in DOMAIN store /\ (v # h \/ v \in K)
  <2>1. 1 \in 1..Len(job[p].todo)
    BY <1>1, <1>6, TailFacts DEF JobOK
  <2>2. h \in K \/ \A r \in redactions : h \notin r.versions
    BY <1>3, <1>7, <1>9, <2>1 DEF OnTrack, Apart
  <2> QED
    BY <1>1, <2>2 DEF Histories
<1>17. \A S \in compacted : \A v \in S : v \in DOMAIN store /\ (v # h \/ v \in K)
  <2>1. 1 \in 1..Len(job[p].todo)
    BY <1>1, <1>6, TailFacts DEF JobOK
  <2>2. h \in K \/ \A S \in compacted : h \notin S
    BY <1>3, <1>7, <1>9, <2>1 DEF OnTrack, Apart
  <2> QED
    BY <1>1, <2>2 DEF Histories
<1>18. ASSUME Redactable, NEW r \in redactions', NEW v \in r.versions, r.field \in Fields
       PROVE  store'[v].data[r.field] = Redacted
  <2>1. CASE r \in redactions
    <3>1. store[v].data[r.field] = Redacted
      BY <1>3, <1>18, <2>1 DEF RedactedAll
    <3>2. v \in DOMAIN store /\ (v # h \/ v \in K)
      BY <1>16, <2>1
    <3> QED
      BY <1>4, <1>7, <1>9, <1>18, <3>1, <3>2 DEF Keeps
  <2>2. CASE r \notin redactions
    <3>1. Len(job[p].todo) = 1 /\ p \in Redactors /\ r = [field |-> job[p].field, versions |-> job[p].listed]
      BY <1>1, <2>2 DEF Advance
    <3>2. job[p].op = "redact" /\ r.field = f /\ v \in K
      BY <1>6, <1>9, <1>10, <3>1, MaintenanceAssumption
    <3>3. v < h \/ v = h
      BY <1>1, <1>6, <1>7, <1>9, <3>1, <3>2, LastHead
    <3> QED
      BY <1>11, <1>12, <1>18, <3>2, <3>3
  <2> QED
    BY <2>1, <2>2
<1>19. RedactedAll(redactions', store')
  BY <1>18 DEF RedactedAll
<1>20. ASSUME NEW S \in compacted' PROVE Short(S, store')
  <2>1. CASE S \in compacted
    <3>1. Short(S, store)
      BY <1>3, <2>1
    <3>2. \A v \in S : store[v].strategy = "full" => store'[v].strategy = "full"
      BY <1>4, <1>7, <1>9, <1>17, <2>1 DEF Keeps
    <3> QED
      BY <3>1, <3>2, ShortStays
  <2>2. CASE S \notin compacted
    <3>1. Len(job[p].todo) = 1 /\ p \in Compactors /\ S = K
      BY <1>1, <1>9, <2>2 DEF Advance
    <3>2. job[p].op = "compact"
      BY <1>6, <3>1, MaintenanceAssumption
    <3>3. h \in Nat /\ \A v \in K : v < h \/ v = h
      BY <1>1, <1>6, <1>7, <1>9, <3>1, LastHead
    <3>4. \A v \in S : v \in B \/ (v = h /\ v \in K)
      BY <3>1, <3>3
    <3> QED
      BY <1>13, <3>2, <3>3, <3>4
  <2> QED
    BY <2>1, <2>2
<1> QED
  BY <1>3, <1>8, <1>15, <1>19, <1>20

\* A round of either pass keeps the invariant.
LEMMA RoundInv ==
    ASSUME IInv, NEW p, NEW n, Round(p, n)
    PROVE  IInv'
BY RoundTypes, RoundAlone DEF IInv

\* A round that does not save.
LEMMA PlainRound ==
    ASSUME IInv, NEW p \in Passes, NEW n \in Nat, job[p].todo # <<>>, Advance(p, n), store' = store,
           ~overlap => Done(job[p], n, store)
    PROVE  Round(p, n)
<1>1. \A v \in DOMAIN store : RowOK(store[v]) /\ store[v].version = v /\ Genuine(store[v], versioned[v])
  BY DEF IInv, TypeInv, Rows
<1>2. Keeps(store, store, job[p])
  BY DEF Keeps
<1>3. DOMAIN store' = DOMAIN store /\ \A v \in DOMAIN store : store'[v] = store[v]
  OBVIOUS
<1>4. ~overlap => Keeps(store, store', job[p]) /\ Done(job[p], n, store')
  BY <1>2
<1> QED
  BY <1>1, <1>3, <1>4 DEF Round

\* A round that saves a changed copy of the first record.
LEMMA SavingRound ==
    ASSUME IInv, NEW p \in Passes, NEW n \in Nat, job[p].todo # <<>>, Advance(p, n),
           NEW h, h = job[p].todo[1], NEW r, RowOK(r), r.version = h.version,
           h.version \in DOMAIN store, Update(r),
           r.hash = Null \/ r.data \notin [Fields -> Vals],
           \A f \in Fields : h.data[f] = Redacted => r.data[f] = Redacted,
           h.strategy = "full" => r.strategy = "full",
           job[p].op = "redact" /\ job[p].field \in Fields => r.data[job[p].field] = Redacted,
           job[p].op = "compact" => n = 0 /\ r.strategy = "full"
    PROVE  Round(p, n)
<1>1. PICK v : v = h.version
  OBVIOUS
<1>2. TypeInv /\ v \in DOMAIN store
  BY <1>1 DEF IInv
<1>3. /\ DOMAIN store' = DOMAIN store
      /\ \A w \in DOMAIN store : w # v => store'[w] = store[w]
      /\ RowOK(store'[v]) /\ store'[v].version = v
      /\ store'[v].born = store[v].born
      /\ store'[v].data = r.data /\ store'[v].hash = r.hash
      /\ store'[v].strategy = r.strategy
  BY <1>1, <1>2, UpdateFacts
<1>4. \A w \in DOMAIN store : RowOK(store[w]) /\ store[w].version = w /\ Genuine(store[w], versioned[w])
  BY <1>2 DEF TypeInv, Rows
<1>5. Genuine(store'[v], versioned[v])
  BY <1>3 DEF Genuine
<1>6. \A w \in DOMAIN store : RowOK(store'[w]) /\ store'[w].version = w /\ Genuine(store'[w], versioned[w])
  BY <1>3, <1>4, <1>5
<1>7. \A w \in DOMAIN store : store'[w].born = store[w].born
  BY <1>3
<1>8. 1 \in 1..Len(job[p].todo)
  BY <1>2, TailFacts DEF TypeInv, Jobs, JobsOf, JobOK
<1>9. ASSUME ~overlap PROVE Keeps(store, store', job[p]) /\ Done(job[p], n, store')
  <2>1. v \in job[p].listed => h = store[v]
    BY <1>1, <1>8, <1>9 DEF IInv, Alone, OnTrack, Current
  <2>2. Keeps(store, store', job[p])
    BY <1>1, <1>3, <2>1 DEF Keeps
  <2>3. Done(job[p], n, store')
    BY <1>1, <1>3 DEF Done
  <2> QED
    BY <2>2, <2>3
<1>10. \A w \in DOMAIN store : w # job[p].todo[1].version => store'[w] = store[w]
  BY <1>1, <1>3
<1> QED
  BY <1>3, <1>6, <1>7, <1>9, <1>10 DEF Round

\* What is known of the first record of a pass.
LEMMA FirstRecord ==
    ASSUME IInv, NEW p \in Passes, job[p].todo # <<>>, NEW h, h = Head(job[p].todo)
    PROVE  /\ h = job[p].todo[1] /\ RowOK(h)
           /\ ~overlap /\ h.version \in job[p].listed => h = store[h.version]
<1>1. ListOK(job[p]) /\ job[p].todo \in Seq(Items(job[p].todo))
  BY DEF IInv, TypeInv, Jobs, JobsOf, JobOK
<1>2. 1 \in 1..Len(job[p].todo) /\ h = job[p].todo[1]
  BY <1>1, TailFacts
<1>3. RowOK(h)
  BY <1>1, <1>2 DEF ListOK
<1>4. ~overlap /\ h.version \in job[p].listed => h = store[h.version]
  BY <1>2 DEF IInv, Alone, OnTrack, Current
<1> QED
  BY <1>2, <1>3, <1>4

\* A round of RedactField is such a round.
LEMMA RedactRound ==
    ASSUME IInv, NEW p \in Redactors, RedactStep(p)
    PROVE  Round(p, 0)
<1>1. p \in Passes /\ job[p].op = "redact" /\ job[p].todo # <<>> /\ Advance(p, 0)
  BY DEF RedactStep, Passes
<1>2. PICK f : f = job[p].field
  OBVIOUS
<1>3. PICK h : h = Head(job[p].todo)
  OBVIOUS
<1>4. /\ h = job[p].todo[1] /\ RowOK(h)
      /\ ~overlap /\ h.version \in job[p].listed => h = store[h.version]
  BY <1>1, <1>3, FirstRecord
<1>5. PICK r : r = RedactedRecord(h, f)
  OBVIOUS
<1>6. PICK d : d = RedactField(h.data, f)
  OBVIOUS
<1>7. /\ d \in [Fields -> Vals \cup {Redacted}] /\ (f \in Fields => d[f] = Redacted)
      /\ \A g \in Fields : d[g] = h.data[g] \/ d[g] = Redacted
  BY <1>4, <1>6 DEF RowOK, RedactField
<1>8. r = [h EXCEPT !.data = d]
  BY <1>5, <1>6 DEF RedactedRecord
<1>9. /\ DOMAIN r = Columns /\ r.data = d /\ r.version = h.version /\ r.strategy = h.strategy
      /\ r.hash = h.hash /\ r.born = h.born
  BY <1>4, <1>8 DEF RowOK, Columns
<1>10. RowOK(r)
  BY <1>4, <1>7, <1>9 DEF RowOK
<1>11. CASE ~Redactable /\ store' = store
  <2>1. Done(job[p], 0, store)
    BY <1>1, <1>11 DEF Done
  <2> QED
    BY <1>1, <1>11, <2>1, PlainRound
<1>12. CASE r.data = h.data /\ store' = store
  <2>1. f \in Fields => h.data[f] = Redacted
    BY <1>7, <1>9, <1>12
  <2>2. ~overlap => Done(job[p], 0, store)
    BY <1>1, <1>2, <1>4, <2>1 DEF Done
  <2> QED
    BY <1>1, <1>12, <2>2, PlainRound
<1>13. CASE r.data # h.data /\ r.version \in DOMAIN store /\ Update(r)
  <2>1. \A g \in Fields : h.data[g] = Redacted => r.data[g] = Redacted
    BY <1>7, <1>9
  <2>2. r.data \notin [Fields -> Vals]
    <3>1. PICK g \in Fields : d[g] # h.data[g]
      BY <1>4, <1>7, <1>9, <1>13 DEF RowOK
    <3>2. d[g] = Redacted
      BY <1>7, <3>1
    <3> QED
      BY <1>9, <3>2, MaintenanceAssumption
  <2>3. h.version \in DOMAIN store /\ Update(r)
    BY <1>9, <1>13
  <2>4. job[p].field \in Fields => r.data[job[p].field] = Redacted
    BY <1>2, <1>7, <1>9
  <2> QED
    BY <1>1, <1>4, <1>9, <1>10, <2>1, <2>2, <2>3, <2>4, SavingRound
<1> QED
  BY <1>2, <1>3, <1>5, <1>11, <1>12, <1>13 DEF RedactStep

\* A round of Compact is such a round.
LEMMA CompactRound ==
    ASSUME IInv, NEW p \in Compactors, CompactStep(p)
    PROVE  \E n \in Nat : Round(p, n)
<1>1. p \in Passes /\ job[p].op = "compact" /\ job[p].todo # <<>>
  BY DEF CompactStep, Passes
<1>2. PICK h : h = Head(job[p].todo)
  OBVIOUS
<1>3. /\ h = job[p].todo[1] /\ RowOK(h)
      /\ ~overlap /\ h.version \in job[p].listed => h = store[h.version]
  BY <1>1, <1>2, FirstRecord
<1>4. PICK n : n = job[p].chain + 1 /\ n \in Nat
  <2>1. job[p].chain + 1 \in Nat
    BY <1>1 DEF IInv, TypeInv, Jobs, JobsOf, JobOK
  <2> QED
    BY <2>1
<1>5. CASE h.strategy = "full" /\ Advance(p, 0) /\ store' = store
  <2>1. ~overlap => Done(job[p], 0, store)
    BY <1>1, <1>3, <1>5 DEF Done
  <2>2. Round(p, 0)
    BY <1>1, <1>5, <2>1, PlainRound
  <2> QED
    BY <2>2
<1>6. CASE ~TooLong(n) /\ Advance(p, n) /\ store' = store
  <2>1. n < MaxDeltaChain
    BY <1>4, <1>6, MaintenanceAssumption DEF TooLong
  <2>2. Done(job[p], n, store)
    BY <1>1, <1>4, <2>1 DEF Done
  <2>3. Round(p, n)
    BY <1>1, <1>4, <1>6, <2>2, PlainRound
  <2> QED
    BY <1>4, <2>3
<1>7. CASE h.version \in DOMAIN store /\ Update(CompactionRecord(h)) /\ Advance(p, 0)
  <2>1. PICK r : r = CompactionRecord(h)
    OBVIOUS
  <2>2. /\ DOMAIN r = Columns /\ r.data = h.data /\ r.version = h.version /\ r.strategy = "full"
        /\ r.hash = Null /\ r.born = h.born
    BY <1>3, <2>1 DEF CompactionRecord, RowOK, Columns
  <2>3. RowOK(r)
    BY <1>3, <2>2 DEF RowOK, Signed
  <2>4. Round(p, 0)
    BY <1>1, <1>3, <1>7, <2>1, <2>2, <2>3, SavingRound
  <2> QED
    BY <2>4
<1> QED
  BY <1>2, <1>4, <1>5, <1>6, <1>7 DEF CompactStep

-----------------------------------------------------------------------------
(* The beginning and the failure of a pass *)

\* A pass that returns an error leaves the rest of its list as it is.
LEMMA FailInv ==
    ASSUME IInv, NEW p \in Passes, UpdateFails(p)
    PROVE  IInv'
<1>1. /\ job' = [job EXCEPT ![p] = Returned]
      /\ UNCHANGED <<format, now, call, versioned, latestAt, overlap, overtaken, store, redactions, compacted>>
  BY DEF UpdateFails, untouched
<1>2. Jobs
  BY DEF IInv, TypeInv
<1>3. DOMAIN job' = Passes /\ job'[p] = Returned /\ \A q \in Passes : q # p => job'[q] = job[q]
  BY <1>1, <1>2 DEF Jobs, JobsOf
<1>4. PICK j : /\ j = Returned /\ Idle(j) /\ JobOK(j) /\ ListOK(j)
               /\ j.todo = <<>> /\ j.op \notin {"redact", "compact"} /\ j.listed = {}
  <2>1. Idle(Returned)
    BY ReturnedIdle
  <2>2. JobOK(Returned) /\ ListOK(Returned)
    BY <2>1, IdleOK
  <2>3. Returned.todo = <<>> /\ Returned.op \notin {"redact", "compact"} /\ Returned.listed = {}
    BY <2>1 DEF Idle
  <2> QED
    BY <2>1, <2>2, <2>3
<1>5. \A q \in Passes : job'[q] = job[q] \/ job'[q] = j
  BY <1>3, <1>4
<1>6. Jobs'
  <2>1. JobsOf(job', DOMAIN store)
    BY <1>2, <1>3, <1>4, <1>5 DEF Jobs, JobsOf
  <2> QED
    BY <1>1, <2>1 DEF Jobs
<1>7. TypeInv'
  BY <1>1, <1>6 DEF IInv, TypeInv, Rows, Calls, Histories
<1>8. Alone'
  <2> SUFFICES ASSUME ~overlap
               PROVE  /\ \A q, r \in Active' : q = r
                      /\ \A q \in Passes : OnTrack(job'[q], store, redactions, compacted)
                      /\ RedactedAll(redactions, store)
                      /\ \A S \in compacted : Short(S, store)
    BY <1>1 DEF Alone, OnTrack, RedactedAll, RedactedSoFar, Redactable
  <2>1. /\ \A q, r \in Active : q = r
        /\ \A q \in Passes : OnTrack(job[q], store, redactions, compacted)
        /\ RedactedAll(redactions, store)
        /\ \A S \in compacted : Short(S, store)
    BY DEF IInv, Alone
  <2>2. Active' \subseteq Active
    BY <1>4, <1>5 DEF Active
  <2>3. OnTrack(j, store, redactions, compacted)
    BY <1>4, IdleOnTrack
  <2> QED
    BY <1>5, <2>1, <2>2, <2>3
<1> QED
  BY <1>7, <1>8 DEF IInv

\* A pass begins with rows as they are.
LEMMA BeginInv ==
    ASSUME IInv, NEW p \in Passes, NEW j, Begin(p, j),
           DOMAIN j = {"op", "field", "todo", "listed", "chain"},
           \/ j.op = "redact" /\ p \in Redactors
           \/ j.op = "compact" /\ p \in Compactors,
           j.todo = ListVersions, j.listed = Listed, j.chain = 0
    PROVE  IInv'
<1>1. /\ j.todo # <<>> /\ job' = [job EXCEPT ![p] = j] /\ overlap' = (overlap \/ Active # {})
      /\ UNCHANGED <<format, store, now, call, versioned, latestAt, redactions, compacted, overtaken>>
  BY DEF Begin
<1>2. Jobs /\ Rows /\ Histories
  BY DEF IInv, TypeInv
<1>3. DOMAIN job' = Passes /\ job'[p] = j /\ \A q \in Passes : q # p => job'[q] = job[q]
  BY <1>1, <1>2 DEF Jobs, JobsOf
<1>4. PICK L : L = ListVersions
  OBVIOUS
<1>5. /\ Len(L) \in Nat /\ L \in Seq(Items(L))
      /\ \A i \in 1..Len(L) : L[i].version \in DOMAIN store /\ L[i] = store[L[i].version]
      /\ \A i, k \in 1..Len(L) : i < k => L[i].version < L[k].version
  BY <1>2, <1>4, ListFacts DEF Lists
<1>6. j.todo = L /\ j.listed = {L[i].version : i \in 1..Len(L)} /\ L # <<>>
  BY <1>1, <1>4 DEF Listed
<1>7. JobOK(j)
  BY <1>5, <1>6 DEF JobOK
<1>8. ListOK(j) /\ j.listed \subseteq DOMAIN store
  <2>1. \A i \in 1..Len(L) : RowOK(L[i]) /\ L[i].version \in Nat /\ L[i].version \in j.listed
    BY <1>2, <1>5, <1>6 DEF Rows, RowOK
  <2>2. \A v \in j.listed : v \in Nat /\ \E i \in 1..Len(L) : v = L[i].version
    BY <1>6, <2>1
  <2>3. ListOK(j)
    BY <1>5, <1>6, <2>1, <2>2 DEF ListOK
  <2> QED
    BY <1>5, <1>6, <2>3
<1>9. Jobs'
  <2>1. ASSUME NEW q \in Passes
        PROVE  /\ JobOK(job'[q])
               /\ job'[q].op = "redact" => q \in Redactors
               /\ job'[q].op = "compact" => q \in Compactors
               /\ ListOK(job'[q])
               /\ job'[q].listed \subseteq DOMAIN store
    <3>1. CASE q # p
      BY <1>2, <1>3, <3>1 DEF Jobs, JobsOf
    <3>2. CASE q = p
      BY <1>3, <1>7, <1>8, <3>2
    <3> QED
      BY <3>1, <3>2
  <2>2. JobsOf(job', DOMAIN store)
    BY <1>3, <2>1 DEF JobsOf
  <2> QED
    BY <1>1, <2>2 DEF Jobs
<1>10. TypeInv'
  <2>1. overlap' \in BOOLEAN
    BY <1>1
  <2> QED
    BY <1>1, <1>9, <2>1 DEF IInv, TypeInv, Rows, Calls, Histories
<1>11. Alone'
  <2> SUFFICES ASSUME ~overlap'
               PROVE  /\ \A q, r \in Active' : q = r
                      /\ \A q \in Passes : OnTrack(job'[q], store, redactions, compacted)
                      /\ RedactedAll(redactions, store)
                      /\ \A S \in compacted : Short(S, store)
    BY <1>1 DEF Alone, OnTrack, RedactedAll, RedactedSoFar, Redactable
  <2>1. ~overlap /\ Active = {}
    BY <1>1
  <2>2. /\ \A q \in Passes : OnTrack(job[q], store, redactions, compacted)
        /\ RedactedAll(redactions, store)
        /\ \A S \in compacted : Short(S, store)
    BY <2>1 DEF IInv, Alone
  <2>3. Active' \subseteq {p}
    BY <1>3, <2>1 DEF Active
  <2>4. \A v \in j.listed : ~(v < j.todo[1].version)
    <3>1. 1 \in 1..Len(L)
      BY <1>5, <1>6
    <3>2. \A i \in 1..Len(L) : L[i].version \in Nat
      BY <1>2, <1>5 DEF Rows, RowOK
    <3>3. \A i \in 1..Len(L) : i = 1 \/ 1 < i
      BY <1>5
    <3>4. \A i \in 1..Len(L) : ~(L[i].version < L[1].version)
      BY <1>5, <3>1, <3>2, <3>3
    <3> QED
      BY <1>6, <3>4
  <2>5. Current(j, store) /\ Apart(j, redactions, compacted) /\ RedactedSoFar(j, store)
    BY <1>5, <1>6, <2>4 DEF Current, Apart, RedactedSoFar
  <2>6. CompactedSoFar(j, store)
    <3>1. {v \in j.listed : v < j.todo[1].version} = {}
      BY <2>4
    <3> QED
      BY <3>1 DEF CompactedSoFar, Short, ChainUpTo
  <2>7. OnTrack(j, store, redactions, compacted)
    BY <2>5, <2>6 DEF OnTrack
  <2> QED
    BY <1>3, <2>2, <2>3, <2>7
<1> QED
  BY <1>10, <1>11 DEF IInv

\* RedactField and Compact begin with nothing behind them.
LEMMA BeginsInv ==
    ASSUME IInv,
           \/ \E p \in Redactors, f \in Paths : BeginRedact(p, f)
           \/ \E p \in Compactors : BeginCompact(p)
    PROVE  IInv'
<1>1. ASSUME NEW p \in Redactors, NEW f \in Paths, BeginRedact(p, f) PROVE IInv'
  <2>1. PICK j : j = [op |-> "redact", field |-> f, todo |-> ListVersions, listed |-> Listed, chain |-> 0]
    OBVIOUS
  <2>2. /\ DOMAIN j = {"op", "field", "todo", "listed", "chain"}
        /\ j.op = "redact" /\ j.field = f /\ j.todo = ListVersions /\ j.listed = Listed /\ j.chain = 0
    BY <2>1
  <2>3. Begin(p, j) /\ p \in Passes
    BY <1>1, <2>1 DEF BeginRedact, Passes
  <2> QED
    BY <2>2, <2>3, BeginInv
<1>2. ASSUME NEW p \in Compactors, BeginCompact(p) PROVE IInv'
  <2>1. PICK j : j = [op |-> "compact", field |-> Null, todo |-> ListVersions, listed |-> Listed, chain |-> 0]
    OBVIOUS
  <2>2. /\ DOMAIN j = {"op", "field", "todo", "listed", "chain"}
        /\ j.op = "compact" /\ j.todo = ListVersions /\ j.listed = Listed /\ j.chain = 0
    BY <2>1
  <2>3. Begin(p, j) /\ p \in Passes
    BY <1>2, <2>1 DEF BeginCompact, Passes
  <2> QED
    BY <2>2, <2>3, BeginInv
<1> QED
  BY <1>1, <1>2

-----------------------------------------------------------------------------
(* The calls, the retention and the clock *)

\* Latest is the greatest version of rows there are, or 0.
LEMMA LatestFacts ==
    ASSUME NEW st, NEW n \in Nat, DOMAIN st \subseteq 1..n
    PROVE  /\ Latest(st) \in 0..n
           /\ DOMAIN st = {} => Latest(st) = 0
           /\ DOMAIN st # {} => Latest(st) \in DOMAIN st /\ \A w \in DOMAIN st : w <= Latest(st)
<1>1. CASE DOMAIN st = {}
  BY <1>1 DEF Latest, NoVersion
<1>2. CASE DOMAIN st # {}
  <2>1. PICK S : S = DOMAIN st
    OBVIOUS
  <2>2. Max(S) \in S /\ \A w \in S : w <= Max(S)
    BY <1>2, <2>1, Greatest
  <2>3. Latest(st) = Max(S)
    BY <1>2, <2>1 DEF Latest
  <2> QED
    BY <1>2, <2>1, <2>2, <2>3
<1> QED
  BY <1>1, <1>2

\* A step that changes nothing but its call keeps the invariant.
LEMMA StepInv ==
    ASSUME IInv, NEW c \in Callers, NEW from, NEW k, Step(c, from, k), CallOK(k)
    PROVE  IInv'
<1>1. /\ call' = [call EXCEPT ![c] = k]
      /\ UNCHANGED <<format, store, now, job, versioned, latestAt, redactions, compacted, overlap, overtaken>>
  BY DEF Step
<1>2. Calls
  BY DEF IInv, TypeInv
<1>3. Calls'
  <2>1. DOMAIN call' = Callers /\ \A d \in Callers : call'[d] = IF d = c THEN k ELSE call[d]
    BY <1>1, <1>2 DEF Calls
  <2> QED
    BY <1>2, <2>1 DEF Calls
<1>4. TypeInv'
  BY <1>1, <1>3 DEF IInv, TypeInv, Rows, Jobs, Histories
<1>5. Alone'
  BY <1>1 DEF IInv, Alone, Active, OnTrack, RedactedAll, RedactedSoFar, Redactable
<1> QED
  BY <1>4, <1>5 DEF IInv

\* The next step of a call leaves a well-formed call.
LEMMA WriteSteps ==
    ASSUME IInv, NEW c \in Callers,
           \/ Draw(c)
           \/ \E s \in {"full", "delta"} : Decide(c, s)
           \/ \E x \in Contents : Stamp(c, x)
           \/ Seal(c)
           \/ SealFails(c)
           \/ Abandon(c)
    PROVE  \E from, k : Step(c, from, k) /\ CallOK(k)
<1>1. PICK k : k = call[c]
  OBVIOUS
<1>2. CallOK(k)
  BY <1>1 DEF IInv, TypeInv, Calls
<1>3. DOMAIN k = Parts
  BY <1>2 DEF CallOK
<1>4. CASE Draw(c)
  <2>1. PICK v : v = Latest(store) + 1
    OBVIOUS
  <2>2. v \in 1..MaxVersion
    <3>1. DOMAIN store \subseteq 1..MaxVersion /\ MaxVersion \in Nat
      BY MaintenanceAssumption DEF IInv, TypeInv, Rows
    <3>2. Latest(store) \in 0..MaxVersion /\ Latest(store) < MaxVersion
      BY <1>4, <3>1, LatestFacts DEF Draw
    <3> QED
      BY <2>1, <3>1, <3>2
  <2>3. PICK n : n = [k EXCEPT !.pc = "drawn", !.version = v]
    OBVIOUS
  <2>4. Step(c, "idle", n) /\ k.pc = "idle"
    BY <1>1, <1>4, <2>1, <2>3 DEF Draw, Step
  <2>5. /\ DOMAIN n = Parts /\ n.pc = "drawn" /\ n.version = v
        /\ n.strategy = k.strategy /\ n.data = k.data /\ n.born = k.born /\ n.hash = k.hash
    BY <1>3, <2>3 DEF Parts
  <2>6. CallOK(n)
    BY <1>2, <2>2, <2>4, <2>5 DEF CallOK
  <2> QED
    BY <2>4, <2>6
<1>5. ASSUME NEW s \in {"full", "delta"}, Decide(c, s) PROVE \E from, n : Step(c, from, n) /\ CallOK(n)
  <2>1. PICK n : n = [k EXCEPT !.pc = "decided", !.strategy = s]
    OBVIOUS
  <2>2. Step(c, "drawn", n) /\ k.pc = "drawn"
    BY <1>1, <1>5, <2>1 DEF Decide, Step
  <2>3. /\ DOMAIN n = Parts /\ n.pc = "decided" /\ n.version = k.version
        /\ n.strategy = s /\ n.data = k.data /\ n.born = k.born /\ n.hash = k.hash
    BY <1>3, <2>1 DEF Parts
  <2>4. CallOK(n)
    BY <1>2, <2>2, <2>3 DEF CallOK
  <2> QED
    BY <2>2, <2>4
<1>6. ASSUME NEW x \in Contents, Stamp(c, x) PROVE \E from, n : Step(c, from, n) /\ CallOK(n)
  <2>1. PICK n : n = [k EXCEPT !.pc = "stamped", !.data = x, !.born = now]
    OBVIOUS
  <2>2. Step(c, "decided", n) /\ k.pc = "decided" /\ now \in Nat
    BY <1>1, <1>6, <2>1 DEF Stamp, Step, IInv, TypeInv
  <2>3. /\ DOMAIN n = Parts /\ n.pc = "stamped" /\ n.version = k.version
        /\ n.strategy = k.strategy /\ n.data = x /\ n.born = now /\ n.hash = k.hash
    BY <1>3, <2>1 DEF Parts
  <2>4. CallOK(n)
    BY <1>2, <2>2, <2>3 DEF CallOK
  <2> QED
    BY <2>2, <2>4
<1>7. CASE Seal(c)
  <2>1. PICK q : q = IF k.version = 1 THEN Null ELSE store[k.version - 1].hash
    OBVIOUS
  <2>2. PICK n : n = [k EXCEPT !.pc = "sealed", !.prev = q, !.hash = Hash(k.version, k.data, q)]
    OBVIOUS
  <2>3. Step(c, "stamped", n) /\ k.pc = "stamped"
    BY <1>1, <1>7, <2>1, <2>2 DEF Seal, Step
  <2>4. /\ DOMAIN n = Parts /\ n.pc = "sealed" /\ n.version = k.version /\ n.prev = q
        /\ n.strategy = k.strategy /\ n.data = k.data /\ n.born = k.born /\ n.hash = Hash(k.version, k.data, q)
    BY <1>3, <2>2 DEF Parts
  <2>5. CallOK(n)
    BY <1>2, <2>3, <2>4 DEF CallOK
  <2> QED
    BY <2>3, <2>5
<1>8. CASE SealFails(c)
  <2>1. PICK n : n = [k EXCEPT !.pc = "sealed"]
    OBVIOUS
  <2>2. Step(c, "stamped", n) /\ k.pc = "stamped"
    BY <1>1, <1>8, <2>1 DEF SealFails, Step
  <2>3. /\ DOMAIN n = Parts /\ n.pc = "sealed" /\ n.version = k.version
        /\ n.strategy = k.strategy /\ n.data = k.data /\ n.born = k.born /\ n.hash = k.hash
    BY <1>3, <2>1 DEF Parts
  <2>4. CallOK(n)
    BY <1>2, <2>2, <2>3 DEF CallOK
  <2> QED
    BY <2>2, <2>4
<1>9. CASE Abandon(c)
  <2>1. CallOK(NoCall)
    BY DEF CallOK, NoCall, NoVersion, Parts
  <2> QED
    BY <1>9, <2>1 DEF Abandon
<1> QED
  BY <1>4, <1>5, <1>6, <1>7, <1>8, <1>9

\* A pass stays on track as long as the rows it has listed stay, less those
\* that are deleted.
LEMMA OnTrackStays ==
    ASSUME NEW j, NEW k, NEW st, NEW su, NEW R, NEW C, NEW Q, NEW D,
           k.op = j.op, k.field = j.field, k.todo = j.todo, k.chain = j.chain, k.listed \subseteq j.listed,
           \A v \in k.listed : su[v] = st[v],
           OnTrack(j, st, R, C), Apart(k, Q, D)
    PROVE  OnTrack(k, su, Q, D)
<1>1. Current(j, st) /\ RedactedSoFar(j, st) /\ CompactedSoFar(j, st)
  BY DEF OnTrack
<1>2. Current(k, su)
  BY <1>1 DEF Current
<1>3. RedactedSoFar(k, su)
  BY <1>1 DEF RedactedSoFar
<1>4. CompactedSoFar(k, su)
  <2> SUFFICES ASSUME j.op = "compact" PROVE CompactedSoFar(k, su)
    BY DEF CompactedSoFar
  <2>1. PICK h : h = j.todo[1].version
    OBVIOUS
  <2>2. PICK B : B = {v \in j.listed : v < h}
    OBVIOUS
  <2>3. PICK E : E = {v \in k.listed : v < h}
    OBVIOUS
  <2>4. E \subseteq B /\ (\A v \in E : su[v] = st[v]) /\ Short(B, st) /\ ChainUpTo(B, st, h, j.chain)
    BY <1>1, <2>1, <2>2, <2>3 DEF CompactedSoFar
  <2>5. Short(E, su)
    BY <2>4, ShortStays
  <2>6. ChainUpTo(E, su, h, j.chain)
    BY <2>4 DEF ChainUpTo
  <2> QED
    BY <2>1, <2>3, <2>5, <2>6 DEF CompactedSoFar
<1> QED
  BY <1>2, <1>3, <1>4 DEF OnTrack

\* The row a call inserts.
LEMMA RowFacts ==
    ASSUME IInv, NEW c \in Callers, call[c].pc = "sealed", NEW r, r = Row(c)
    PROVE  /\ RowOK(r) /\ r.version = call[c].version /\ r.data = call[c].data /\ r.born = call[c].born
           /\ call[c].version \in 1..MaxVersion /\ Genuine(r, call[c].data)
<1>1. PICK k : k = call[c]
  OBVIOUS
<1>2. CallOK(k) /\ k.pc = "sealed"
  BY <1>1 DEF IInv, TypeInv, Calls
<1>3. /\ DOMAIN r = Columns /\ r.version = k.version /\ r.strategy = k.strategy /\ r.data = k.data
      /\ r.hash = k.hash /\ r.born = k.born
  BY <1>1 DEF Row, Columns
<1>4. /\ k.version \in Nat /\ k.version \in 1..MaxVersion /\ k.strategy \in {"full", "delta"} /\ k.born \in Nat
      /\ k.data \in Contents /\ (k.hash = Null \/ k.hash = Hash(k.version, k.data, k.prev))
  BY <1>2, MaintenanceAssumption DEF CallOK
<1>5. k.data \in [Fields -> Vals] /\ k.data \in [Fields -> Vals \cup {Redacted}]
  BY <1>4, MaintenanceAssumption
<1>6. Signed(r.version, r.hash)
  BY <1>3, <1>4, <1>5 DEF Signed
<1>7. RowOK(r)
  BY <1>3, <1>4, <1>5, <1>6 DEF RowOK
<1> QED
  BY <1>1, <1>3, <1>4, <1>7 DEF Genuine

\* A new row is in no list and no history.
LEMMA InsertInv ==
    ASSUME IInv, NEW c \in Callers, Insert(c)
    PROVE  IInv'
<1>1. PICK v : v = call[c].version
  OBVIOUS
<1>2. /\ call[c].pc = "sealed" /\ v \notin DOMAIN store
      /\ store' = Put(store, v, Row(c))
      /\ versioned' = Put(versioned, v, call[c].data)
      /\ latestAt' = Put(latestAt, now, Latest(store'))
      /\ call' = [call EXCEPT ![c] = NoCall]
      /\ UNCHANGED <<format, now, job, redactions, compacted, overlap, overtaken>>
  BY <1>1 DEF Insert
<1>3. PICK r : r = Row(c)
  OBVIOUS
<1>4. RowOK(r) /\ r.version = v /\ v \in 1..MaxVersion /\ Genuine(r, call[c].data)
  BY <1>1, <1>2, <1>3, RowFacts
<1>5. PICK st : st = store' /\ st = Put(store, v, r)
  BY <1>2, <1>3
<1>6. /\ DOMAIN st = DOMAIN store \cup {v} /\ st[v] = r
      /\ \A w \in DOMAIN store : st[w] = store[w]
  BY <1>2, <1>5 DEF Put
<1>7. PICK vd : vd = versioned' /\ vd = Put(versioned, v, call[c].data)
  BY <1>2
<1>8. /\ DOMAIN vd = DOMAIN versioned \cup {v} /\ vd[v] = call[c].data
      /\ \A w \in DOMAIN versioned : w # v => vd[w] = versioned[w]
  BY <1>7 DEF Put
<1>9. PICK la : la = latestAt' /\ la = Put(latestAt, now, Latest(store'))
  BY <1>2
<1>10. DOMAIN la = DOMAIN latestAt \cup {now}
  BY <1>9 DEF Put
<1>11. Rows /\ Jobs /\ Histories /\ Calls /\ now \in Nat \ {0}
  BY DEF IInv, TypeInv
<1>12. Rows'
  <2>1. ASSUME NEW w \in DOMAIN st
        PROVE  w \in 1..MaxVersion /\ RowOK(st[w]) /\ st[w].version = w /\ Genuine(st[w], vd[w])
    <3>1. CASE w = v
      BY <1>4, <1>6, <1>8, <3>1
    <3>2. CASE w # v
      <4>1. w \in DOMAIN store /\ st[w] = store[w] /\ w \in DOMAIN versioned /\ vd[w] = versioned[w]
        BY <1>6, <1>8, <1>11, <3>2 DEF Histories
      <4> QED
        BY <1>11, <4>1 DEF Rows
    <3> QED
      BY <3>1, <3>2
  <2> QED
    BY <1>5, <1>7, <2>1 DEF Rows
<1>13. Jobs'
  <2>1. JobsOf(job, DOMAIN st)
    BY <1>6, <1>11 DEF Jobs, JobsOf
  <2> QED
    BY <1>2, <1>5, <2>1 DEF Jobs
<1>14. Histories'
  <2>1. DOMAIN st \subseteq DOMAIN vd
    BY <1>6, <1>8, <1>11 DEF Histories
  <2>2. DOMAIN la = 1..now
    BY <1>10, <1>11 DEF Histories
  <2>3. /\ \A x \in redactions : DOMAIN x = {"field", "versions"} /\ x.versions \subseteq DOMAIN st
        /\ \A S \in compacted : S \subseteq DOMAIN st
    BY <1>6, <1>11 DEF Histories
  <2> QED
    BY <1>2, <1>5, <1>7, <1>9, <2>1, <2>2, <2>3 DEF Histories
<1>15. Calls'
  <2>1. DOMAIN call' = Callers /\ \A d \in Callers : call'[d] = IF d = c THEN NoCall ELSE call[d]
    BY <1>2, <1>11 DEF Calls
  <2>2. CallOK(NoCall)
    BY DEF CallOK, NoCall, NoVersion, Parts
  <2> QED
    BY <1>11, <2>1, <2>2 DEF Calls
<1>16. TypeInv'
  BY <1>2, <1>12, <1>13, <1>14, <1>15 DEF IInv, TypeInv
<1>17. Alone'
  <2> SUFFICES ASSUME ~overlap
               PROVE  /\ \A p, q \in Active : p = q
                      /\ \A p \in Passes : OnTrack(job[p], st, redactions, compacted)
                      /\ RedactedAll(redactions, st)
                      /\ \A S \in compacted : Short(S, st)
    BY <1>2, <1>5 DEF Alone, Active, OnTrack, RedactedAll, RedactedSoFar, Redactable
  <2>1. /\ \A p, q \in Active : p = q
        /\ \A p \in Passes : OnTrack(job[p], store, redactions, compacted)
        /\ RedactedAll(redactions, store)
        /\ \A S \in compacted : Short(S, store)
    BY DEF IInv, Alone
  <2>2. ASSUME NEW p \in Passes PROVE OnTrack(job[p], st, redactions, compacted)
    <3>1. OnTrack(job[p], store, redactions, compacted) /\ Apart(job[p], redactions, compacted)
      BY <2>1 DEF OnTrack
    <3>2. \A w \in job[p].listed : st[w] = store[w]
      BY <1>6, <1>11 DEF Jobs, JobsOf
    <3> QED
      BY <3>1, <3>2, OnTrackStays
  <2>3. RedactedAll(redactions, st)
    <3>1. \A x \in redactions : \A w \in x.versions : st[w] = store[w]
      BY <1>6, <1>11 DEF Histories
    <3> QED
      BY <2>1, <3>1 DEF RedactedAll
  <2>4. ASSUME NEW S \in compacted PROVE Short(S, st)
    <3>1. Short(S, store) /\ \A w \in S : st[w] = store[w]
      BY <1>6, <1>11, <2>1 DEF Histories
    <3> QED
      BY <3>1, ShortStays
  <2> QED
    BY <2>1, <2>2, <2>3, <2>4
<1> QED
  BY <1>16, <1>17 DEF IInv

\* The passage of time concerns neither rows nor passes.
LEMMA TickInv ==
    ASSUME IInv, Tick
    PROVE  IInv'
<1>1. /\ now' = now + 1 /\ latestAt' = Put(latestAt, now + 1, Latest(store))
      /\ UNCHANGED <<format, store, call, job, versioned, redactions, compacted, overlap, overtaken>>
  BY DEF Tick
<1>2. now \in Nat \ {0} /\ Histories /\ DOMAIN latestAt = 1..now
  BY DEF IInv, TypeInv, Histories
<1>3. PICK la : la = latestAt' /\ la = Put(latestAt, now + 1, Latest(store))
  BY <1>1
<1>4. DOMAIN la = 1..(now + 1)
  <2>1. DOMAIN la = DOMAIN latestAt \cup {now + 1}
    BY <1>3 DEF Put
  <2> QED
    BY <1>2, <2>1
<1>5. TypeInv'
  <2>1. Histories'
    BY <1>1, <1>2, <1>3, <1>4 DEF Histories
  <2>2. now' \in Nat \ {0}
    BY <1>1, <1>2
  <2> QED
    BY <1>1, <2>1, <2>2 DEF IInv, TypeInv, Rows, Calls, Jobs
<1>6. Alone'
  BY <1>1 DEF IInv, Alone, Active, OnTrack, RedactedAll, RedactedSoFar, Redactable
<1> QED
  BY <1>5, <1>6 DEF IInv

\* What retention deletes leaves the rows, the lists and the histories.
LEMMA DeleteInv ==
    ASSUME IInv, DeleteBefore
    PROVE  IInv'
<1>1. PICK X : X = {v \in DOMAIN store : store[v].born + Retention < now}
  OBVIOUS
<1>2. /\ store' = Keep(store, DOMAIN store \ X)
      /\ versioned' = Keep(versioned, DOMAIN store \ X)
      /\ latestAt' = Put(latestAt, now, Latest(store'))
      /\ job' = [p \in Passes |-> [job[p] EXCEPT !.listed = job[p].listed \ X]]
      /\ redactions' = {[r EXCEPT !.versions = r.versions \ X] : r \in redactions}
      /\ compacted' = {S \ X : S \in compacted}
      /\ overtaken' \in BOOLEAN
      /\ UNCHANGED <<format, now, call, overlap>>
  BY <1>1 DEF DeleteBefore
<1>3. PICK st : st = Keep(store, DOMAIN store \ X) /\ st = store'
  BY <1>2
<1>4. DOMAIN st = DOMAIN store \ X /\ \A v \in DOMAIN st : v \in DOMAIN store /\ st[v] = store[v]
  <2>1. DOMAIN st = DOMAIN store \cap (DOMAIN store \ X) /\ \A v \in DOMAIN st : st[v] = store[v]
    BY <1>3 DEF Keep
  <2> QED
    BY <2>1
<1>5. Rows /\ Jobs /\ Histories /\ Calls /\ now \in Nat \ {0}
  BY DEF IInv, TypeInv
<1>6. PICK vd : vd = Keep(versioned, DOMAIN store \ X) /\ vd = versioned'
  BY <1>2
<1>7. DOMAIN st \subseteq DOMAIN vd /\ \A v \in DOMAIN st : vd[v] = versioned[v]
  <2>1. DOMAIN vd = DOMAIN versioned \cap (DOMAIN store \ X) /\ \A v \in DOMAIN vd : vd[v] = versioned[v]
    BY <1>6 DEF Keep
  <2> QED
    BY <1>4, <1>5, <2>1 DEF Histories
<1>8. PICK la : la = latestAt' /\ la = Put(latestAt, now, Latest(store'))
  BY <1>2
<1>9. DOMAIN la = 1..now
  <2>1. DOMAIN la = DOMAIN latestAt \cup {now}
    BY <1>8 DEF Put
  <2> QED
    BY <1>5, <2>1 DEF Histories
<1>10. ASSUME NEW x \in redactions'
       PROVE  \E r \in redactions : /\ DOMAIN x = {"field", "versions"} /\ x.field = r.field
                                    /\ x.versions = r.versions \ X /\ r.versions \subseteq DOMAIN store
  <2>1. PICK r \in redactions : x = [r EXCEPT !.versions = r.versions \ X]
    BY <1>2
  <2>2. DOMAIN r = {"field", "versions"} /\ r.versions \subseteq DOMAIN store
    BY <1>5 DEF Histories
  <2>3. DOMAIN x = {"field", "versions"} /\ x.field = r.field /\ x.versions = r.versions \ X
    BY <2>1, <2>2
  <2> QED
    BY <2>2, <2>3
<1>11. \A T \in compacted' : \E S \in compacted : T = S \ X /\ S \subseteq DOMAIN store
  BY <1>2, <1>5 DEF Histories
<1>12. ASSUME NEW p \in Passes
       PROVE  /\ DOMAIN job'[p] = {"op", "field", "todo", "listed", "chain"}
              /\ job'[p].op = job[p].op /\ job'[p].field = job[p].field /\ job'[p].todo = job[p].todo
              /\ job'[p].chain = job[p].chain /\ job'[p].listed = job[p].listed \ X
  <2>1. job'[p] = [job[p] EXCEPT !.listed = job[p].listed \ X]
    BY <1>2
  <2>2. DOMAIN job[p] = {"op", "field", "todo", "listed", "chain"}
    BY <1>5 DEF Jobs, JobsOf, JobOK
  <2> QED
    BY <2>1, <2>2
<1>13. Rows'
  <2>1. \A v \in DOMAIN st : v \in 1..MaxVersion /\ RowOK(st[v]) /\ st[v].version = v /\ Genuine(st[v], vd[v])
    BY <1>4, <1>5, <1>7 DEF Rows
  <2> QED
    BY <1>3, <1>6, <2>1 DEF Rows
<1>14. Histories'
  <2>1. \A x \in redactions' : DOMAIN x = {"field", "versions"} /\ x.versions \subseteq DOMAIN st
    BY <1>4, <1>10
  <2>2. \A T \in compacted' : T \subseteq DOMAIN st
    BY <1>4, <1>11
  <2> QED
    BY <1>2, <1>3, <1>6, <1>7, <1>8, <1>9, <2>1, <2>2 DEF Histories
<1>15. Jobs'
  <2>1. DOMAIN job' = Passes
    BY <1>2
  <2>2. ASSUME NEW p \in Passes
        PROVE  /\ JobOK(job'[p])
               /\ job'[p].op = "redact" => p \in Redactors
               /\ job'[p].op = "compact" => p \in Compactors
               /\ ListOK(job'[p])
               /\ job'[p].listed \subseteq DOMAIN st
    <3>1. PICK j : j = job'[p]
      OBVIOUS
    <3>2. /\ JobOK(job[p]) /\ ListOK(job[p])
          /\ job[p].op = "redact" => p \in Redactors
          /\ job[p].op = "compact" => p \in Compactors
          /\ job[p].listed \subseteq DOMAIN store
      BY <1>5 DEF Jobs, JobsOf
    <3>3. /\ DOMAIN j = {"op", "field", "todo", "listed", "chain"}
          /\ j.op = job[p].op /\ j.field = job[p].field /\ j.todo = job[p].todo
          /\ j.chain = job[p].chain /\ j.listed = job[p].listed \ X
      BY <1>12, <3>1
    <3>4. JobOK(j)
      BY <3>2, <3>3 DEF JobOK
    <3>5. ListOK(j)
      BY <3>2, <3>3 DEF ListOK
    <3>6. j.listed \subseteq DOMAIN st
      BY <1>4, <3>2, <3>3
    <3> QED
      BY <3>1, <3>2, <3>3, <3>4, <3>5, <3>6
  <2>3. JobsOf(job', DOMAIN st)
    BY <2>1, <2>2 DEF JobsOf
  <2> QED
    BY <1>3, <2>3 DEF Jobs
<1>16. TypeInv'
  <2>1. Calls'
    BY <1>2, <1>5 DEF Calls
  <2> QED
    BY <1>2, <1>13, <1>14, <1>15, <2>1 DEF IInv, TypeInv
<1>17. Alone'
  <2>0. overlap' = overlap /\ format' = format /\ store' = st
    BY <1>2, <1>3
  <2> SUFFICES ASSUME ~overlap
               PROVE  /\ \A p, q \in Active' : p = q
                      /\ \A p \in Passes : OnTrack(job'[p], st, redactions', compacted')
                      /\ RedactedAll(redactions', st)
                      /\ \A S \in compacted' : Short(S, st)
    BY <2>0 DEF Alone, OnTrack, RedactedAll, RedactedSoFar, Redactable
  <2>1. /\ \A p, q \in Active : p = q
        /\ \A p \in Passes : OnTrack(job[p], store, redactions, compacted)
        /\ RedactedAll(redactions, store)
        /\ \A S \in compacted : Short(S, store)
    BY DEF IInv, Alone
  <2>2. Active' = Active
    BY <1>12 DEF Active
  <2>3. ASSUME NEW p \in Passes PROVE OnTrack(job'[p], st, redactions', compacted')
    <3>1. PICK j : j = job'[p]
      OBVIOUS
    <3>2. /\ j.op = job[p].op /\ j.field = job[p].field /\ j.todo = job[p].todo
          /\ j.chain = job[p].chain /\ j.listed = job[p].listed \ X
      BY <1>12, <3>1
    <3>3. OnTrack(job[p], store, redactions, compacted) /\ Apart(job[p], redactions, compacted)
      BY <2>1 DEF OnTrack
    <3>4. ASSUME NEW i \in 1..Len(j.todo), j.todo[i].version \notin j.listed
          PROVE  /\ \A x \in redactions' : j.todo[i].version \notin x.versions
                 /\ \A T \in compacted' : j.todo[i].version \notin T
      <4>1. PICK v : v = j.todo[i].version
        OBVIOUS
      <4>2. CASE v \in X
        BY <1>10, <1>11, <4>1, <4>2
      <4>3. CASE v \notin X
        <5>1. v \notin job[p].listed
          BY <3>2, <3>4, <4>1, <4>3
        <5>2. (\A r \in redactions : v \notin r.versions) /\ (\A S \in compacted : v \notin S)
          BY <3>2, <3>3, <4>1, <5>1 DEF Apart
        <5> QED
          BY <1>10, <1>11, <4>1, <5>2
      <4> QED
        BY <4>2, <4>3
    <3>5. Apart(j, redactions', compacted')
      BY <3>4 DEF Apart
    <3>6. \A v \in j.listed : st[v] = store[v]
      BY <1>4, <1>5, <3>2 DEF Jobs, JobsOf
    <3>7. j.listed \subseteq job[p].listed
      BY <3>2
    <3> QED
      BY <3>1, <3>2, <3>3, <3>5, <3>6, <3>7, OnTrackStays
  <2>4. RedactedAll(redactions', st)
    <3> SUFFICES ASSUME Redactable, NEW x \in redactions', NEW v \in x.versions, x.field \in Fields
                 PROVE  st[v].data[x.field] = Redacted
      BY DEF RedactedAll
    <3>1. PICK r \in redactions : x.field = r.field /\ x.versions = r.versions \ X /\ r.versions \subseteq DOMAIN store
      BY <1>10
    <3>2. store[v].data[x.field] = Redacted
      BY <2>1, <3>1 DEF RedactedAll
    <3> QED
      BY <1>4, <3>1, <3>2
  <2>5. ASSUME NEW T \in compacted' PROVE Short(T, st)
    <3>1. PICK S \in compacted : T = S \ X /\ S \subseteq DOMAIN store
      BY <1>11
    <3>2. T \subseteq S /\ Short(S, store) /\ \A v \in T : st[v] = store[v]
      BY <1>4, <2>1, <3>1
    <3> QED
      BY <3>2, ShortStays
  <2> QED
    BY <2>1, <2>2, <2>3, <2>4, <2>5
<1> QED
  BY <1>16, <1>17 DEF IInv

-----------------------------------------------------------------------------
(* The invariant of the passes *)

\* An entity with no rows, no call and no pass satisfies it.
LEMMA InitInv == Init => IInv
<1> SUFFICES ASSUME Init PROVE IInv
  OBVIOUS
<1>1. /\ now = 1 /\ overlap = FALSE /\ overtaken = FALSE
      /\ DOMAIN store = {} /\ DOMAIN versioned = {} /\ DOMAIN latestAt = 1..now
      /\ redactions = {} /\ compacted = {}
  BY DEF Init
<1>2. PICK j : j = [Returned EXCEPT !.op = "none"]
  OBVIOUS
<1>3. Idle(j) /\ j.op = "none" /\ j.listed = {}
  BY <1>2 DEF Idle, Returned
<1>4. DOMAIN job = Passes /\ \A p \in Passes : job[p] = j
  BY <1>2 DEF Init
<1>5. JobOK(j) /\ ListOK(j) /\ j.todo = <<>>
  BY <1>3, IdleOK DEF Idle
<1>6. Jobs
  BY <1>3, <1>4, <1>5 DEF Jobs, JobsOf
<1>7. Calls
  <2>1. CallOK(NoCall)
    BY DEF CallOK, NoCall, NoVersion, Parts
  <2>2. DOMAIN call = Callers /\ \A c \in Callers : call[c] = NoCall
    BY DEF Init
  <2> QED
    BY <2>1, <2>2 DEF Calls
<1>8. TypeInv
  <2>1. Rows
    BY <1>1 DEF Rows
  <2>2. Histories
    BY <1>1 DEF Histories
  <2>3. overlap \in BOOLEAN /\ overtaken \in BOOLEAN
    BY DEF Init
  <2>4. now \in Nat \ {0}
    BY <1>1
  <2> QED
    BY <1>6, <1>7, <2>1, <2>2, <2>3, <2>4 DEF TypeInv
<1>9. Alone
  <2>1. Active = {}
    BY <1>3, <1>4 DEF Active
  <2>2. OnTrack(j, store, redactions, compacted)
    BY <1>3, <1>5, IdleOnTrack
  <2> QED
    BY <1>1, <1>4, <2>1, <2>2 DEF Alone, RedactedAll
<1> QED
  BY <1>8, <1>9 DEF IInv

\* A step of a call keeps it.
LEMMA WriteInv ==
    ASSUME IInv, NEW c \in Callers, Write(c)
    PROVE  IInv'
<1>1. CASE Insert(c)
  BY <1>1, InsertInv
<1>2. CASE ~Insert(c)
  <2>1. PICK from, k : Step(c, from, k) /\ CallOK(k)
    BY <1>2, WriteSteps DEF Write
  <2> QED
    BY <2>1, StepInv
<1> QED
  BY <1>1, <1>2

\* Every step keeps it.
LEMMA NextInv == IInv /\ [Next]_vars => IInv'
<1> SUFFICES ASSUME IInv, [Next]_vars PROVE IInv'
  OBVIOUS
<1>1. CASE \E c \in Callers : Write(c)
  BY <1>1, WriteInv
<1>2. CASE DeleteBefore
  BY <1>2, DeleteInv
<1>3. CASE Tick
  BY <1>3, TickInv
<1>4. CASE \E p \in Redactors : (\E f \in Paths : BeginRedact(p, f)) \/ RedactStep(p)
  BY <1>4, BeginsInv, RedactRound, RoundInv
<1>5. CASE \E p \in Compactors : BeginCompact(p) \/ CompactStep(p)
  BY <1>5, BeginsInv, CompactRound, RoundInv
<1>6. CASE \E p \in Passes : UpdateFails(p)
  BY <1>6, FailInv
<1>7. CASE UNCHANGED vars
  BY <1>7 DEF vars, IInv, TypeInv, Rows, Calls, Jobs, Histories, Alone, Active, OnTrack, RedactedAll,
              RedactedSoFar, Redactable
<1> QED
  BY <1>1, <1>2, <1>3, <1>4, <1>5, <1>6, <1>7 DEF Next

\* The invariant holds throughout.
LEMMA Invariance == Spec => []IInv
BY InitInv, NextInv, PTL DEF Spec

-----------------------------------------------------------------------------
(* The inductive invariant of numbers and time *)

\* The rows are a range of versions, younger with every version.
InOrder(st, t) ==
    /\ \A a, b \in DOMAIN st : a..b \subseteq DOMAIN st
    /\ \A a, b \in DOMAIN st : a <= b => st[a].born <= st[b].born
    /\ \A a \in DOMAIN st : st[a].born <= t

\* A row stamped by time t is at most one ahead of what was the latest at t,
\* and if it is behind, the latest is still there and was stamped by t too.
Recorded(st, la) ==
    \A t \in DOMAIN la : \A v \in DOMAIN st :
        st[v].born <= t => /\ v <= la[t] + 1
                           /\ v < la[t] => la[t] \in DOMAIN st /\ st[la[t]].born <= t

\* From when on a call relies on what was the latest.
Since(k, t) == IF k.pc \in {"stamped", "sealed"} THEN k.born ELSE t

\* A call comes right behind the latest row, which has been the latest since
\* the call was stamped.
Behind(k, st, la, t) ==
    /\ Latest(st) + 1 = k.version
    /\ Since(k, t) \in 1..t
    /\ \A u \in Since(k, t)..t : la[u] + 1 = k.version
    /\ k.pc \in {"stamped", "sealed"} => \A v \in DOMAIN st : st[v].born <= k.born

\* A call under way has lost its number to a row or comes right behind.
Placed(k, st, la, t) == k.pc # "idle" => k.version \in DOMAIN st \/ Behind(k, st, la, t)

InTime ==
    /\ \A t \in DOMAIN latestAt : latestAt[t] \in Nat
    /\ latestAt[now] = Latest(store)
    /\ ~overtaken => /\ InOrder(store, now)
                     /\ Recorded(store, latestAt)
                     /\ \A c \in Callers : Placed(call[c], store, latestAt, now)

TInv == IInv /\ InTime

\* What the invariant says of the rows and the latest of them.
LEMMA TimeFacts ==
    ASSUME TInv
    PROVE  /\ now \in Nat \ {0} /\ MaxVersion \in Nat /\ DOMAIN latestAt = 1..now
           /\ \A t \in 1..now : latestAt[t] \in Nat
           /\ latestAt[now] = Latest(store) /\ Latest(store) \in Nat
           /\ DOMAIN store \subseteq 1..MaxVersion
           /\ \A v \in DOMAIN store : v \in Nat /\ v # 0 /\ store[v].born \in Nat
           /\ DOMAIN store = {} => Latest(store) = 0
           /\ DOMAIN store # {} => Latest(store) \in DOMAIN store
           /\ \A w \in DOMAIN store : w <= Latest(store)
           /\ \A c \in Callers : CallOK(call[c])
<1>1. /\ now \in Nat \ {0} /\ MaxVersion \in Nat /\ DOMAIN latestAt = 1..now
      /\ DOMAIN store \subseteq 1..MaxVersion
  BY MaintenanceAssumption DEF TInv, IInv, TypeInv, Rows, Histories
<1>2. (\A t \in 1..now : latestAt[t] \in Nat) /\ latestAt[now] = Latest(store)
  BY <1>1 DEF TInv, InTime
<1>3. \A v \in DOMAIN store : store[v].born \in Nat
  BY DEF TInv, IInv, TypeInv, Rows, RowOK
<1>4. \A v \in DOMAIN store : v \in Nat /\ v # 0
  BY <1>1
<1>5. /\ Latest(store) \in 0..MaxVersion
      /\ DOMAIN store = {} => Latest(store) = 0
      /\ DOMAIN store # {} => Latest(store) \in DOMAIN store /\ \A w \in DOMAIN store : w <= Latest(store)
  BY <1>1, LatestFacts
<1>6. \A c \in Callers : CallOK(call[c])
  BY DEF TInv, IInv, TypeInv, Calls
<1>7. Latest(store) \in Nat
  BY <1>1, <1>5
<1> QED
  BY <1>1, <1>2, <1>3, <1>4, <1>5, <1>6, <1>7

\* Nothing but the versions and the stamps of the rows matters.
LEMMA SameAges ==
    ASSUME NEW st, NEW su, DOMAIN su = DOMAIN st, \A v \in DOMAIN st : su[v].born = st[v].born, NEW t, NEW la
    PROVE  /\ Latest(su) = Latest(st)
           /\ InOrder(st, t) => InOrder(su, t)
           /\ Recorded(st, la) => Recorded(su, la)
           /\ \A k : Placed(k, st, la, t) => Placed(k, su, la, t)
<1>1. Latest(su) = Latest(st)
  BY DEF Latest
<1>2. InOrder(st, t) => InOrder(su, t)
  BY DEF InOrder
<1>3. Recorded(st, la) => Recorded(su, la)
  BY DEF Recorded
<1>4. \A k : Placed(k, st, la, t) => Placed(k, su, la, t)
  BY <1>1 DEF Placed, Behind
<1> QED
  BY <1>1, <1>2, <1>3, <1>4

\* A round of a pass changes neither.
LEMMA RoundTime ==
    ASSUME TInv, NEW p, NEW n, Round(p, n)
    PROVE  InTime'
<1>1. UNCHANGED <<now, call, latestAt, overtaken>>
  BY DEF Round, Advance, untouched
<1>2. PICK su : su = store'
  OBVIOUS
<1>3. DOMAIN su = DOMAIN store /\ \A v \in DOMAIN store : su[v].born = store[v].born
  BY <1>2 DEF Round
<1>4. /\ Latest(su) = Latest(store)
      /\ InOrder(store, now) => InOrder(su, now)
      /\ Recorded(store, latestAt) => Recorded(su, latestAt)
      /\ \A k : Placed(k, store, latestAt, now) => Placed(k, su, latestAt, now)
  BY <1>3, SameAges
<1> QED
  BY <1>1, <1>2, <1>4 DEF TInv, InTime

\* A call that takes a step stays in its place.
LEMMA StepTime ==
    ASSUME TInv, NEW c \in Callers, NEW from, NEW k, Step(c, from, k),
           ~overtaken => Placed(k, store, latestAt, now)
    PROVE  InTime'
<1>1. call' = [call EXCEPT ![c] = k] /\ UNCHANGED <<store, now, latestAt, overtaken>>
  BY DEF Step
<1>2. DOMAIN call = Callers
  BY DEF TInv, IInv, TypeInv, Calls
<1>3. \A d \in Callers : call'[d] = IF d = c THEN k ELSE call[d]
  BY <1>1, <1>2
<1>4. ~overtaken => \A d \in Callers : Placed(call'[d], store, latestAt, now)
  BY <1>3 DEF TInv, InTime
<1> QED
  BY <1>1, <1>4 DEF TInv, InTime

\* A number is drawn behind the latest row, and a call is stamped behind it.
LEMMA WriteTime ==
    ASSUME TInv, NEW c \in Callers, Write(c), ~Insert(c)
    PROVE  InTime'
<1>1. PICK k : k = call[c]
  OBVIOUS
<1>2. /\ now \in Nat \ {0} /\ latestAt[now] = Latest(store) /\ Latest(store) \in Nat
      /\ CallOK(k) /\ DOMAIN k = Parts /\ \A v \in DOMAIN store : store[v].born \in Nat
  BY <1>1, TimeFacts DEF CallOK
<1>3. now \in 1..now /\ \A u \in now..now : u = now
  BY <1>2
<1>4. ~overtaken => Placed(k, store, latestAt, now) /\ InOrder(store, now)
  BY <1>1 DEF TInv, InTime
<1>5. CASE Draw(c)
  <2>1. PICK n : n = [k EXCEPT !.pc = "drawn", !.version = Latest(store) + 1]
    OBVIOUS
  <2>2. n.pc = "drawn" /\ n.version = Latest(store) + 1
    BY <1>2, <2>1 DEF Parts
  <2>3. Since(n, now) = now
    BY <2>2 DEF Since
  <2>4. Behind(n, store, latestAt, now)
    BY <1>2, <1>3, <2>2, <2>3 DEF Behind
  <2>5. Step(c, "idle", n)
    BY <1>1, <1>5, <2>1 DEF Draw
  <2> QED
    BY <2>4, <2>5, StepTime DEF Placed
<1>6. ASSUME NEW n, n.version = k.version,
             \/ k.pc = "drawn" /\ n.pc = "decided"
             \/ k.pc = "stamped" /\ n.pc = "sealed" /\ n.born = k.born,
             ~overtaken
      PROVE  Placed(n, store, latestAt, now)
  <2>1. k.version \in DOMAIN store \/ Behind(k, store, latestAt, now)
    BY <1>4, <1>6 DEF Placed
  <2>2. Since(n, now) = Since(k, now)
    BY <1>6 DEF Since
  <2>3. n.pc \in {"stamped", "sealed"} <=> k.pc \in {"stamped", "sealed"}
    BY <1>6
  <2>4. Behind(k, store, latestAt, now) => Behind(n, store, latestAt, now)
    BY <1>6, <2>2, <2>3 DEF Behind
  <2> QED
    BY <1>6, <2>1, <2>4 DEF Placed
<1>7. ASSUME NEW s \in {"full", "delta"}, Decide(c, s) PROVE InTime'
  <2>1. PICK n : n = [k EXCEPT !.pc = "decided", !.strategy = s]
    OBVIOUS
  <2>2. n.pc = "decided" /\ n.version = k.version
    BY <1>2, <2>1 DEF Parts
  <2>3. Step(c, "drawn", n) /\ k.pc = "drawn"
    BY <1>1, <1>7, <2>1 DEF Decide, Step
  <2> QED
    BY <1>6, <2>2, <2>3, StepTime
<1>8. ASSUME NEW x \in Contents, Stamp(c, x) PROVE InTime'
  <2>1. PICK n : n = [k EXCEPT !.pc = "stamped", !.data = x, !.born = now]
    OBVIOUS
  <2>2. n.pc = "stamped" /\ n.version = k.version /\ n.born = now
    BY <1>2, <2>1 DEF Parts
  <2>3. Step(c, "decided", n) /\ k.pc = "decided"
    BY <1>1, <1>8, <2>1 DEF Stamp, Step
  <2>4. Since(n, now) = now /\ Since(k, now) = now
    BY <2>2, <2>3 DEF Since
  <2>5. ASSUME ~overtaken PROVE Placed(n, store, latestAt, now)
    <3>1. k.version \in DOMAIN store \/ Behind(k, store, latestAt, now)
      BY <1>4, <2>3, <2>5 DEF Placed
    <3>2. \A v \in DOMAIN store : store[v].born <= n.born
      BY <1>4, <2>2, <2>5 DEF InOrder
    <3>3. Behind(k, store, latestAt, now) => Behind(n, store, latestAt, now)
      BY <2>2, <2>4, <3>2 DEF Behind
    <3> QED
      BY <2>2, <3>1, <3>3 DEF Placed
  <2> QED
    BY <2>3, <2>5, StepTime
<1>9. CASE Seal(c)
  <2>1. PICK q : q = IF k.version = 1 THEN Null ELSE store[k.version - 1].hash
    OBVIOUS
  <2>2. PICK n : n = [k EXCEPT !.pc = "sealed", !.prev = q, !.hash = Hash(k.version, k.data, q)]
    OBVIOUS
  <2>3. n.pc = "sealed" /\ n.version = k.version /\ n.born = k.born
    BY <1>2, <2>2 DEF Parts
  <2>4. Step(c, "stamped", n) /\ k.pc = "stamped"
    BY <1>1, <1>9, <2>1, <2>2 DEF Seal, Step
  <2> QED
    BY <1>6, <2>3, <2>4, StepTime
<1>10. CASE SealFails(c)
  <2>1. PICK n : n = [k EXCEPT !.pc = "sealed"]
    OBVIOUS
  <2>2. n.pc = "sealed" /\ n.version = k.version /\ n.born = k.born
    BY <1>2, <2>1 DEF Parts
  <2>3. Step(c, "stamped", n) /\ k.pc = "stamped"
    BY <1>1, <1>10, <2>1 DEF SealFails, Step
  <2> QED
    BY <1>6, <2>2, <2>3, StepTime
<1>11. CASE Abandon(c)
  <2>1. PICK n : n = NoCall
    OBVIOUS
  <2>2. Placed(n, store, latestAt, now)
    BY <2>1 DEF Placed, NoCall
  <2>3. Step(c, call[c].pc, n)
    BY <1>11, <2>1 DEF Abandon
  <2> QED
    BY <2>2, <2>3, StepTime
<1> QED
  BY <1>5, <1>7, <1>8, <1>9, <1>10, <1>11 DEF Write

\* A row appears behind the latest one and is the latest from then on.
LEMMA InsertTime ==
    ASSUME TInv, NEW c \in Callers, Insert(c)
    PROVE  InTime'
<1>1. PICK n : n = call[c].version
  OBVIOUS
<1>2. /\ call[c].pc = "sealed" /\ n \notin DOMAIN store
      /\ store' = Put(store, n, Row(c))
      /\ latestAt' = Put(latestAt, now, Latest(store'))
      /\ call' = [call EXCEPT ![c] = NoCall]
      /\ UNCHANGED <<now, overtaken>>
  BY <1>1 DEF Insert
<1>3. PICK b : b = call[c].born
  OBVIOUS
<1>4. PICK r : r = Row(c)
  OBVIOUS
<1>5. n \in 1..MaxVersion /\ r.born = b /\ b \in Nat
  BY <1>1, <1>2, <1>3, <1>4, RowFacts DEF TInv, RowOK
<1>6. PICK st : st = store' /\ st = Put(store, n, r)
  BY <1>2, <1>4
<1>7. /\ DOMAIN st = DOMAIN store \cup {n} /\ st[n] = r
      /\ \A w \in DOMAIN store : st[w] = store[w]
  BY <1>2, <1>6 DEF Put
<1>8. PICK la : la = latestAt' /\ la = Put(latestAt, now, Latest(st))
  BY <1>2, <1>6
<1>9. /\ now \in Nat \ {0} /\ MaxVersion \in Nat /\ DOMAIN latestAt = 1..now
      /\ \A t \in 1..now : latestAt[t] \in Nat
      /\ latestAt[now] = Latest(store) /\ Latest(store) \in Nat
      /\ DOMAIN store \subseteq 1..MaxVersion
      /\ \A v \in DOMAIN store : v \in Nat /\ v # 0 /\ store[v].born \in Nat
      /\ DOMAIN store = {} => Latest(store) = 0
      /\ DOMAIN store # {} => Latest(store) \in DOMAIN store
      /\ \A w \in DOMAIN store : w <= Latest(store)
  BY TimeFacts
<1>10. /\ Latest(st) \in Nat /\ Latest(st) \in DOMAIN st /\ \A w \in DOMAIN st : w <= Latest(st)
  <2>1. DOMAIN st \subseteq 1..MaxVersion /\ DOMAIN st # {}
    BY <1>5, <1>7, <1>9
  <2>2. Latest(st) \in 0..MaxVersion /\ Latest(st) \in DOMAIN st /\ \A w \in DOMAIN st : w <= Latest(st)
    BY <1>9, <2>1, LatestFacts
  <2> QED
    BY <1>9, <2>2
<1>11. /\ DOMAIN la = 1..now /\ la[now] = Latest(st)
       /\ \A t \in 1..now : t # now => la[t] = latestAt[t]
  <2>1. DOMAIN la = DOMAIN latestAt \cup {now} /\ la[now] = Latest(st)
    BY <1>8 DEF Put
  <2>2. \A t \in DOMAIN latestAt : t # now => la[t] = latestAt[t]
    BY <1>8 DEF Put
  <2> QED
    BY <1>9, <2>1, <2>2
<1>12. \A t \in DOMAIN la : la[t] \in Nat
  BY <1>9, <1>10, <1>11
<1>13. ASSUME ~overtaken
       PROVE  /\ InOrder(st, now) /\ Recorded(st, la)
              /\ \A d \in Callers : Placed(call'[d], st, la, now)
  <2>1. InOrder(store, now) /\ Recorded(store, latestAt) /\ \A d \in Callers : Placed(call[d], store, latestAt, now)
    BY <1>13 DEF TInv, InTime
  <2>2. Behind(call[c], store, latestAt, now)
    BY <1>1, <1>2, <2>1 DEF Placed
  <2>3. Since(call[c], now) = b
    BY <1>2, <1>3 DEF Since
  <2>4. /\ Latest(store) + 1 = n /\ b \in 1..now
        /\ \A u \in b..now : latestAt[u] + 1 = n
        /\ \A v \in DOMAIN store : store[v].born <= b
    BY <1>1, <1>2, <1>3, <2>2, <2>3 DEF Behind
  <2>5. \A v \in DOMAIN store : v < n
    BY <1>9, <2>4
  <2>6. Latest(st) = n
    BY <1>5, <1>7, <1>9, <1>10, <2>5
  <2>7. b <= now /\ b \in Nat /\ n \in Nat
    BY <1>5, <1>9, <2>4
  <2>8. InOrder(st, now)
    <3>1. ASSUME NEW a \in DOMAIN st, NEW e \in DOMAIN st PROVE a..e \subseteq DOMAIN st
      <4>1. CASE e # n
        <5>1. e \in DOMAIN store /\ e < n
          BY <1>7, <2>5, <4>1
        <5>2. CASE a # n
          BY <1>7, <2>1, <5>1, <5>2 DEF InOrder
        <5>3. CASE a = n
          BY <1>9, <2>7, <5>1, <5>3
        <5> QED
          BY <5>2, <5>3
      <4>2. CASE e = n
        <5>1. CASE a = n
          BY <1>7, <2>7, <4>2, <5>1
        <5>2. CASE a # n
          <6>1. a \in DOMAIN store /\ a \in Nat
            BY <1>7, <1>9, <5>2
          <6>2. Latest(store) \in DOMAIN store
            BY <1>9, <6>1
          <6>3. a..Latest(store) \subseteq DOMAIN store
            BY <2>1, <6>1, <6>2 DEF InOrder
          <6>4. PICK l \in Nat : l = Latest(store) /\ l + 1 = n
            BY <1>9, <2>4
          <6>5. \A x \in a..n : x \in a..l \/ x = n
            BY <6>1, <6>4
          <6> QED
            BY <1>7, <4>2, <6>3, <6>4, <6>5
        <5> QED
          BY <5>1, <5>2
      <4> QED
        BY <4>1, <4>2
    <3>2. ASSUME NEW a \in DOMAIN st, NEW e \in DOMAIN st, a <= e PROVE st[a].born <= st[e].born
      <4>1. CASE e = n
        <5>1. CASE a = n
          BY <1>5, <1>7, <4>1, <5>1
        <5>2. CASE a # n
          BY <1>5, <1>7, <2>4, <4>1, <5>2
        <5> QED
          BY <5>1, <5>2
      <4>2. CASE e # n
        <5>1. e \in DOMAIN store /\ e < n
          BY <1>7, <2>5, <4>2
        <5>2. a # n
          BY <1>9, <2>7, <3>2, <5>1
        <5> QED
          BY <1>7, <2>1, <3>2, <5>1, <5>2 DEF InOrder
      <4> QED
        BY <4>1, <4>2
    <3>3. \A a \in DOMAIN st : st[a].born <= now
      BY <1>5, <1>7, <2>1, <2>7 DEF InOrder
    <3> QED
      BY <3>1, <3>2, <3>3 DEF InOrder
  <2>9. Recorded(st, la)
    <3> SUFFICES ASSUME NEW t \in 1..now, NEW v \in DOMAIN st, st[v].born <= t
                 PROVE  v <= la[t] + 1 /\ (v < la[t] => la[t] \in DOMAIN st /\ st[la[t]].born <= t)
      BY <1>11 DEF Recorded
    <3>1. CASE t = now
      <4>1. la[t] = n
        BY <1>11, <2>6, <3>1
      <4>2. v <= n /\ v \in Nat
        BY <1>7, <1>9, <2>5, <2>7
      <4>3. n \in DOMAIN st /\ st[n].born <= t
        BY <1>5, <1>7, <2>7, <3>1
      <4> QED
        BY <2>7, <4>1, <4>2, <4>3
    <3>2. CASE t # now
      <4>1. la[t] = latestAt[t] /\ t \in DOMAIN latestAt /\ latestAt[t] \in Nat
        BY <1>9, <1>11, <3>2
      <4>2. CASE v = n
        <5>1. b <= t /\ t \in b..now
          BY <1>5, <1>7, <2>7, <4>2
        <5>2. la[t] + 1 = n
          BY <2>4, <4>1, <5>1
        <5> QED
          BY <2>7, <4>1, <4>2, <5>2
      <4>3. CASE v # n
        <5>1. v \in DOMAIN store /\ store[v].born <= t
          BY <1>7, <4>3
        <5>2. v <= latestAt[t] + 1 /\ (v < latestAt[t] => latestAt[t] \in DOMAIN store /\ store[latestAt[t]].born <= t)
          BY <2>1, <4>1, <5>1 DEF Recorded
        <5> QED
          BY <1>7, <4>1, <5>2
      <4> QED
        BY <4>2, <4>3
    <3> QED
      BY <3>1, <3>2
  <2>10. ASSUME NEW d \in Callers PROVE Placed(call'[d], st, la, now)
    <3>1. DOMAIN call = Callers
      BY DEF TInv, IInv, TypeInv, Calls
    <3>2. CASE d = c
      <4>1. call'[d].pc = "idle"
        BY <1>2, <3>1, <3>2 DEF NoCall
      <4> QED
        BY <4>1 DEF Placed
    <3>3. CASE d # c
      <4>1. call'[d] = call[d]
        BY <1>2, <3>1, <3>3
      <4>2. call[d].pc # "idle" => call[d].version \in DOMAIN store \/ call[d].version = n
        BY <2>1, <2>4 DEF Placed, Behind
      <4>3. call[d].pc # "idle" => call[d].version \in DOMAIN st
        BY <1>7, <4>2
      <4> QED
        BY <4>1, <4>3 DEF Placed
    <3> QED
      BY <3>2, <3>3
  <2> QED
    BY <2>8, <2>9, <2>10
<1> QED
  BY <1>2, <1>6, <1>8, <1>11, <1>12, <1>13 DEF InTime

\* What is latest stays latest into the new tick.
LEMMA TickTime ==
    ASSUME TInv, Tick
    PROVE  InTime'
<1>1. /\ now' = now + 1 /\ latestAt' = Put(latestAt, now + 1, Latest(store))
      /\ UNCHANGED <<store, call, overtaken>>
  BY DEF Tick
<1>2. /\ now \in Nat \ {0} /\ DOMAIN latestAt = 1..now
      /\ \A t \in 1..now : latestAt[t] \in Nat
      /\ latestAt[now] = Latest(store) /\ Latest(store) \in Nat
      /\ \A v \in DOMAIN store : v \in Nat /\ store[v].born \in Nat
      /\ DOMAIN store # {} => Latest(store) \in DOMAIN store
      /\ \A w \in DOMAIN store : w <= Latest(store)
      /\ \A c \in Callers : CallOK(call[c])
  BY TimeFacts
<1>3. PICK la : la = latestAt' /\ la = Put(latestAt, now + 1, Latest(store))
  BY <1>1
<1>4. PICK m : m = now + 1 /\ m \in Nat
  BY <1>2
<1>5. DOMAIN la = 1..m /\ la[m] = Latest(store) /\ \A t \in 1..now : la[t] = latestAt[t]
  <2>1. DOMAIN la = DOMAIN latestAt \cup {m} /\ la[m] = Latest(store)
    BY <1>3, <1>4 DEF Put
  <2>2. \A t \in DOMAIN latestAt : t # m => la[t] = latestAt[t]
    BY <1>3, <1>4 DEF Put
  <2>3. \A t \in 1..now : t # m
    BY <1>2, <1>4
  <2>4. DOMAIN la = 1..m
    BY <1>2, <1>4, <2>1
  <2> QED
    BY <1>2, <2>1, <2>2, <2>3, <2>4
<1>6. \A t \in 1..m : t \in 1..now \/ t = m
  BY <1>2, <1>4
<1>7. \A t \in DOMAIN la : la[t] \in Nat
  BY <1>2, <1>5, <1>6
<1>8. ASSUME ~overtaken
      PROVE  InOrder(store, m) /\ Recorded(store, la) /\ \A c \in Callers : Placed(call[c], store, la, m)
  <2>1. InOrder(store, now) /\ Recorded(store, latestAt) /\ \A c \in Callers : Placed(call[c], store, latestAt, now)
    BY <1>8 DEF TInv, InTime
  <2>2. \A v \in DOMAIN store : store[v].born <= now /\ store[v].born <= m
    BY <1>2, <1>4, <2>1 DEF InOrder
  <2>3. InOrder(store, m)
    BY <2>1, <2>2 DEF InOrder
  <2>4. Recorded(store, la)
    <3> SUFFICES ASSUME NEW t \in 1..m, NEW v \in DOMAIN store, store[v].born <= t
                 PROVE  v <= la[t] + 1 /\ (v < la[t] => la[t] \in DOMAIN store /\ store[la[t]].born <= t)
      BY <1>5 DEF Recorded
    <3>1. CASE t = m
      <4>1. v <= Latest(store) /\ v \in Nat /\ Latest(store) \in DOMAIN store /\ store[Latest(store)].born <= m
        BY <1>2, <2>2
      <4> QED
        BY <1>2, <1>5, <3>1, <4>1
    <3>2. CASE t \in 1..now
      BY <1>2, <1>5, <2>1, <3>2 DEF Recorded
    <3> QED
      BY <1>6, <3>1, <3>2
  <2>5. ASSUME NEW c \in Callers PROVE Placed(call[c], store, la, m)
    <3>1. PICK k : k = call[c]
      OBVIOUS
    <3>2. SUFFICES ASSUME k.pc # "idle", Behind(k, store, latestAt, now)
                   PROVE  Behind(k, store, la, m)
      BY <2>1, <3>1 DEF Placed
    <3>3. /\ Latest(store) + 1 = k.version /\ Since(k, now) \in 1..now
          /\ \A u \in Since(k, now)..now : latestAt[u] + 1 = k.version
          /\ k.pc \in {"stamped", "sealed"} => \A v \in DOMAIN store : store[v].born <= k.born
      BY <3>2 DEF Behind
    <3>4. la[m] + 1 = k.version
      BY <1>5, <3>3
    <3>5. CASE k.pc \in {"stamped", "sealed"}
      <4>1. Since(k, now) = k.born /\ Since(k, m) = k.born
        BY <3>5 DEF Since
      <4>2. k.born \in 1..now /\ k.born \in 1..m
        BY <1>2, <1>4, <3>3, <4>1
      <4>3. \A u \in k.born..m : u = m \/ u \in k.born..now
        BY <1>2, <1>4, <4>2
      <4>4. \A u \in k.born..now : u \in 1..now
        BY <1>2, <4>2
      <4>5. \A u \in k.born..m : la[u] + 1 = k.version
        BY <1>5, <3>3, <3>4, <4>1, <4>3, <4>4
      <4> QED
        BY <3>3, <4>1, <4>2, <4>5 DEF Behind
    <3>6. CASE k.pc \notin {"stamped", "sealed"}
      <4>1. Since(k, m) = m
        BY <3>6 DEF Since
      <4>2. m \in 1..m /\ \A u \in m..m : u = m
        BY <1>2, <1>4
      <4> QED
        BY <3>3, <3>4, <3>6, <4>1, <4>2 DEF Behind
    <3> QED
      BY <3>5, <3>6
  <2> QED
    BY <2>3, <2>4, <2>5
<1>9. la[m] = Latest(store)
  BY <1>5
<1> QED
  BY <1>1, <1>3, <1>4, <1>7, <1>8, <1>9 DEF InTime

\* Deletion by age takes the lowest versions; unless it takes all of them, and
\* with them the number of every call under way, the latest row stays.
LEMMA DeleteTime ==
    ASSUME TInv, DeleteBefore
    PROVE  InTime'
<1>1. PICK X : X = {v \in DOMAIN store : store[v].born + Retention < now}
  OBVIOUS
<1>2. /\ store' = Keep(store, DOMAIN store \ X) /\ X # {}
      /\ latestAt' = Put(latestAt, now, Latest(store'))
      /\ overtaken' = (overtaken \/ \E c \in Callers, v \in X : call[c].pc # "idle" /\ call[c].version <= v + 1)
      /\ UNCHANGED <<now, call>>
  BY <1>1 DEF DeleteBefore
<1>3. PICK st : st = store' /\ st = Keep(store, DOMAIN store \ X)
  BY <1>2
<1>4. DOMAIN st = DOMAIN store \ X /\ \A v \in DOMAIN st : v \in DOMAIN store /\ st[v] = store[v]
  <2>1. DOMAIN st = DOMAIN store \cap (DOMAIN store \ X) /\ \A v \in DOMAIN st : st[v] = store[v]
    BY <1>3 DEF Keep
  <2> QED
    BY <2>1
<1>5. PICK la : la = latestAt' /\ la = Put(latestAt, now, Latest(st))
  BY <1>2, <1>3
<1>6. /\ now \in Nat \ {0} /\ MaxVersion \in Nat /\ DOMAIN latestAt = 1..now
      /\ \A t \in 1..now : latestAt[t] \in Nat
      /\ latestAt[now] = Latest(store) /\ Latest(store) \in Nat
      /\ DOMAIN store \subseteq 1..MaxVersion
      /\ \A v \in DOMAIN store : v \in Nat /\ v # 0 /\ store[v].born \in Nat
      /\ DOMAIN store # {} => Latest(store) \in DOMAIN store
      /\ \A w \in DOMAIN store : w <= Latest(store)
      /\ \A c \in Callers : CallOK(call[c])
  BY TimeFacts
<1>7. /\ Latest(st) \in Nat
      /\ DOMAIN st # {} => Latest(st) \in DOMAIN st /\ \A w \in DOMAIN st : w <= Latest(st)
  <2>1. DOMAIN st \subseteq 1..MaxVersion
    BY <1>4, <1>6
  <2>2. /\ Latest(st) \in 0..MaxVersion
        /\ DOMAIN st # {} => Latest(st) \in DOMAIN st /\ \A w \in DOMAIN st : w <= Latest(st)
    BY <1>6, <2>1, LatestFacts
  <2> QED
    BY <1>6, <2>2
<1>8. /\ DOMAIN la = 1..now /\ la[now] = Latest(st)
      /\ \A t \in 1..now : t # now => la[t] = latestAt[t]
  <2>1. DOMAIN la = DOMAIN latestAt \cup {now} /\ la[now] = Latest(st)
    BY <1>5 DEF Put
  <2>2. \A t \in DOMAIN latestAt : t # now => la[t] = latestAt[t]
    BY <1>5 DEF Put
  <2> QED
    BY <1>6, <2>1, <2>2
<1>9. \A t \in DOMAIN la : la[t] \in Nat
  BY <1>6, <1>7, <1>8
<1>10. ASSUME ~overtaken'
       PROVE  InOrder(st, now) /\ Recorded(st, la) /\ \A c \in Callers : Placed(call[c], st, la, now)
  <2>1. ~overtaken /\ \A c \in Callers, v \in X : call[c].pc # "idle" => ~(call[c].version <= v + 1)
    BY <1>2, <1>10
  <2>2. InOrder(store, now) /\ Recorded(store, latestAt) /\ \A c \in Callers : Placed(call[c], store, latestAt, now)
    BY <2>1 DEF TInv, InTime
  <2>3. ASSUME NEW a \in DOMAIN st, NEW e \in DOMAIN store, a <= e PROVE e \in DOMAIN st
    <3>1. store[a].born <= store[e].born /\ store[a].born \in Nat /\ store[e].born \in Nat /\ a \in DOMAIN store /\ a \notin X
      BY <1>4, <1>6, <2>2, <2>3 DEF InOrder
    <3>2. ~(store[a].born + Retention < now)
      BY <1>1, <3>1
    <3>3. ~(store[e].born + Retention < now)
      BY <1>6, <3>1, <3>2, MaintenanceAssumption
    <3> QED
      BY <1>1, <1>4, <3>3
  <2>4. InOrder(st, now)
    <3>1. ASSUME NEW a \in DOMAIN st, NEW e \in DOMAIN st, NEW x \in a..e PROVE x \in DOMAIN st
      <4>1. x \in DOMAIN store
        BY <1>4, <2>2 DEF InOrder
      <4>2. a <= x
        BY <1>4, <1>6
      <4> QED
        BY <2>3, <4>1, <4>2
    <3> QED
      BY <1>4, <2>2, <3>1 DEF InOrder
  <2>5. DOMAIN st # {} => Latest(st) = Latest(store)
    <3> SUFFICES ASSUME NEW a \in DOMAIN st PROVE Latest(st) = Latest(store)
      OBVIOUS
    <3>1. Latest(store) \in DOMAIN store /\ a <= Latest(store)
      BY <1>4, <1>6
    <3>2. Latest(store) \in DOMAIN st
      BY <2>3, <3>1
    <3>3. Latest(store) <= Latest(st) /\ Latest(st) <= Latest(store)
      BY <1>4, <1>6, <1>7, <3>2
    <3> QED
      BY <1>6, <1>7, <3>3
  <2>6. DOMAIN st # {} => \A t \in 1..now : la[t] = latestAt[t]
    BY <1>6, <1>8, <2>5
  <2>7. Recorded(st, la)
    <3> SUFFICES ASSUME NEW t \in 1..now, NEW v \in DOMAIN st, st[v].born <= t
                 PROVE  v <= la[t] + 1 /\ (v < la[t] => la[t] \in DOMAIN st /\ st[la[t]].born <= t)
      BY <1>8 DEF Recorded
    <3>1. la[t] = latestAt[t] /\ latestAt[t] \in Nat /\ v \in DOMAIN store /\ v \in Nat /\ store[v].born <= t
      BY <1>4, <1>6, <2>6
    <3>2. v <= latestAt[t] + 1 /\ (v < latestAt[t] => latestAt[t] \in DOMAIN store /\ store[latestAt[t]].born <= t)
      BY <1>6, <2>2, <3>1 DEF Recorded
    <3>3. ASSUME v < latestAt[t] PROVE latestAt[t] \in DOMAIN st /\ st[latestAt[t]].born <= t
      <4>1. v <= latestAt[t]
        BY <3>1, <3>3
      <4>2. latestAt[t] \in DOMAIN st
        BY <2>3, <3>2, <3>3, <4>1
      <4> QED
        BY <1>4, <3>2, <3>3, <4>2
    <3> QED
      BY <3>1, <3>2, <3>3
  <2>8. ASSUME NEW c \in Callers PROVE Placed(call[c], st, la, now)
    <3>1. PICK k : k = call[c]
      OBVIOUS
    <3>2. SUFFICES ASSUME k.pc # "idle" PROVE k.version \in DOMAIN st \/ Behind(k, st, la, now)
      BY <3>1 DEF Placed
    <3>3. k.version \in Nat /\ (k.version \in DOMAIN store \/ Behind(k, store, latestAt, now))
      BY <1>6, <2>2, <3>1, <3>2 DEF Placed, CallOK
    <3>4. \A v \in X : v \in Nat /\ ~(k.version <= v + 1)
      BY <1>1, <1>6, <2>1, <3>1, <3>2
    <3>5. CASE k.version \in DOMAIN store
      <4>1. k.version \notin X
        BY <3>3, <3>4
      <4> QED
        BY <1>4, <3>5, <4>1
    <3>6. CASE Behind(k, store, latestAt, now)
      <4>1. /\ Latest(store) + 1 = k.version /\ Since(k, now) \in 1..now
            /\ \A u \in Since(k, now)..now : latestAt[u] + 1 = k.version
            /\ k.pc \in {"stamped", "sealed"} => \A v \in DOMAIN store : store[v].born <= k.born
        BY <3>6 DEF Behind
      <4>2. Latest(store) \in DOMAIN store
        BY <1>1, <1>2, <1>6
      <4>3. Latest(store) \notin X
        BY <1>6, <3>4, <4>1
      <4>4. Latest(st) = Latest(store) /\ \A t \in 1..now : la[t] = latestAt[t]
        BY <1>4, <2>5, <2>6, <4>2, <4>3
      <4>5. \A u \in Since(k, now)..now : u \in 1..now
        BY <1>6, <4>1
      <4>6. \A u \in Since(k, now)..now : la[u] + 1 = k.version
        BY <4>1, <4>4, <4>5
      <4>7. k.pc \in {"stamped", "sealed"} => \A v \in DOMAIN st : st[v].born <= k.born
        BY <1>4, <4>1
      <4> QED
        BY <4>1, <4>4, <4>6, <4>7 DEF Behind
    <3> QED
      BY <3>3, <3>5, <3>6
  <2> QED
    BY <2>4, <2>7, <2>8
<1> QED
  BY <1>2, <1>3, <1>5, <1>8, <1>9, <1>10 DEF InTime

\* An entity with no rows is in time.
LEMMA InitTime == Init => InTime
<1> SUFFICES ASSUME Init PROVE InTime
  OBVIOUS
<1>1. /\ now = 1 /\ DOMAIN store = {} /\ latestAt = [t \in {1} |-> 0]
      /\ \A c \in Callers : call[c] = NoCall
  BY DEF Init, NoVersion
<1>2. Latest(store) = 0
  BY <1>1 DEF Latest, NoVersion
<1>3. DOMAIN latestAt = {1} /\ latestAt[1] = 0
  BY <1>1
<1>4. InOrder(store, now) /\ Recorded(store, latestAt)
  BY <1>1 DEF InOrder, Recorded
<1>5. \A c \in Callers : Placed(call[c], store, latestAt, now)
  BY <1>1 DEF Placed, NoCall
<1> QED
  BY <1>1, <1>2, <1>3, <1>4, <1>5 DEF InTime

\* Every step keeps the time.
LEMMA NextTime == TInv /\ [Next]_vars => TInv'
<1> SUFFICES ASSUME TInv, [Next]_vars PROVE TInv'
  OBVIOUS
<1>0. IInv /\ IInv'
  BY NextInv DEF TInv
<1>1. CASE \E c \in Callers : Write(c)
  BY <1>0, <1>1, InsertTime, WriteTime DEF TInv
<1>2. CASE DeleteBefore
  BY <1>0, <1>2, DeleteTime DEF TInv
<1>3. CASE Tick
  BY <1>0, <1>3, TickTime DEF TInv
<1>4. ASSUME UNCHANGED <<store, now, call, latestAt, overtaken>> PROVE TInv'
  BY <1>0, <1>4 DEF TInv, InTime
<1>5. CASE \E p \in Redactors : RedactStep(p)
  BY <1>0, <1>5, RedactRound, RoundTime DEF TInv
<1>6. CASE \E p \in Compactors : CompactStep(p)
  BY <1>0, <1>6, CompactRound, RoundTime DEF TInv
<1>7. CASE \E p \in Redactors, f \in Paths : BeginRedact(p, f)
  BY <1>4, <1>7 DEF BeginRedact, Begin
<1>8. CASE \E p \in Compactors : BeginCompact(p)
  BY <1>4, <1>8 DEF BeginCompact, Begin
<1>9. CASE \E p \in Passes : UpdateFails(p)
  BY <1>4, <1>9 DEF UpdateFails, untouched
<1>10. CASE UNCHANGED vars
  BY <1>4, <1>10 DEF vars
<1> QED
  BY <1>1, <1>2, <1>3, <1>5, <1>6, <1>7, <1>8, <1>9, <1>10 DEF Next

\* Numbers and time are in order throughout.
LEMMA InvarianceInTime == Spec => []TInv
<1>1. Init => TInv
  BY InitInv, InitTime DEF TInv
<1> QED
  BY <1>1, NextTime, PTL DEF Spec

-----------------------------------------------------------------------------
(* What the invariants are for *)

\* A redaction of JSON data that returned nil is lasting (RedactField in
\* audit.go): while passes do not overlap, no version, compaction, further
\* redaction or deletion, and no row that takes a freed number, brings a
\* redacted value back.
THEOREM MaintenanceRedactionSticks == Spec => []RedactionSticks
<1>1. IInv => RedactionSticks
  BY DEF IInv, Alone, RedactedAll, RedactionSticks
<1> QED
  BY <1>1, Invariance, PTL

\* After a compaction that returned nil (Compactor.Compact) no MaxDeltaChain
\* consecutive versions of those it listed are deltas, for every length of a
\* chain, whatever is versioned, redacted or deleted later.
THEOREM MaintenanceChainsStayShort == Spec => []ChainsStayShort
<1>1. IInv => ChainsStayShort
  <2> SUFFICES ASSUME IInv, ~overlap, NEW S \in compacted, NEW a \in S,
                      a..(a + MaxDeltaChain - 1) \subseteq S
               PROVE  \E v \in a..(a + MaxDeltaChain - 1) : store[v].strategy = "full"
    BY DEF ChainsStayShort
  <2>1. Short(S, store)
    BY DEF IInv, Alone
  <2> QED
    BY <2>1 DEF Short, Window
<1> QED
  BY <1>1, Invariance, PTL

\* When VerifyIntegrity succeeds every version it listed holds what was
\* versioned under its number last: neither a redaction nor a pass that writes
\* back what it listed too early, over whatever row has that number by then,
\* goes unnoticed, however passes overlap.  "No hash" (Null) is no hash of
\* anything.
THEOREM MaintenanceVerified ==
    ASSUME \A v, data, prev : Hash(v, data, prev) # Null
    PROVE  Spec => []VerifiedMeansVersioned
<1>1. IInv => VerifiedMeansVersioned
  <2> SUFFICES ASSUME IInv, VerifyIntegrity, NEW v \in Listed
               PROVE  store[v].data = versioned[v]
    BY DEF VerifiedMeansVersioned
  <2>1. PICK L : L = ListVersions
    OBVIOUS
  <2>2. Lists(L, store)
    BY <2>1, ListFacts DEF IInv, TypeInv
  <2>3. PICK i \in 1..Len(L) : L[i].version = v
    BY <2>1 DEF Listed
  <2>4. v \in DOMAIN store /\ L[i] = store[v]
    BY <2>2, <2>3 DEF Lists
  <2>5. L[i].hash = Hash(L[i].version, L[i].data, L[i].prev)
    BY <2>1, <2>3 DEF VerifyIntegrity
  <2>6. store[v].hash = Hash(v, store[v].data, store[v].prev)
    BY <2>3, <2>4, <2>5
  <2>7. Genuine(store[v], versioned[v]) /\ Signed(v, store[v].hash)
    BY <2>4 DEF IInv, TypeInv, Rows, RowOK
  <2>8. PICK x \in [Fields -> Vals] : \E q : store[v].hash = Hash(v, x, q)
    BY <2>6, <2>7 DEF Signed
  <2>9. store[v].data = x
    BY <2>6, <2>8 DEF Hash
  <2> QED
    BY <2>6, <2>7, <2>8, <2>9 DEF Genuine
<1> QED
  BY <1>1, Invariance, PTL

\* GetAtTime (SQL: the greatest created_at, then version) returns the version
\* that was the latest at that time or the next one, for every number of
\* callers, versions and ticks: numbers and stamps are in the same order, a
\* call is stamped while the version before its own is the latest, and what
\* retention deletes is never younger than what stays.
THEOREM MaintenanceAtTimeWithinOne == Spec => []AtTimeWithinOne
<1>1. TInv => AtTimeWithinOne
  <2> SUFFICES ASSUME TInv, ~overtaken, NEW t \in DOMAIN latestAt, NEW v, v = GetAtTime(t), v # NoVersion
               PROVE  v \in {latestAt[t], latestAt[t] + 1}
    BY DEF AtTimeWithinOne
  <2>1. PICK S : S = AtTime(t)
    OBVIOUS
  <2>2. PICK N : N = {u \in S : \A w \in S : store[w].born <= store[u].born}
    OBVIOUS
  <2>3. S # {} /\ v = Max(N)
    BY <2>1, <2>2 DEF GetAtTime
  <2>4. /\ now \in Nat /\ MaxVersion \in Nat /\ DOMAIN latestAt = 1..now /\ latestAt[t] \in Nat
        /\ DOMAIN store \subseteq 1..MaxVersion
        /\ \A w \in DOMAIN store : w \in Nat /\ store[w].born \in Nat
    BY TimeFacts
  <2>5. InOrder(store, now) /\ Recorded(store, latestAt)
    BY DEF TInv, InTime
  <2>6. S \subseteq DOMAIN store /\ \A w \in DOMAIN store : w \in S <=> store[w].born <= t
    BY <2>1 DEF AtTime
  <2>7. PICK m : m = Max(S) /\ m \in S /\ \A w \in S : w <= m
    <3>1. S \subseteq 1..MaxVersion
      BY <2>4, <2>6
    <3> QED
      BY <2>3, <2>4, <3>1, Greatest
  <2>8. m \in N
    BY <2>2, <2>5, <2>6, <2>7 DEF InOrder
  <2>9. v = m
    <3>1. N \subseteq S /\ N # {}
      BY <2>2, <2>8
    <3>2. N \subseteq 1..MaxVersion
      BY <2>4, <2>6, <3>1
    <3>3. Max(N) \in N /\ \A w \in N : w <= Max(N)
      BY <2>4, <3>1, <3>2, Greatest
    <3>4. Max(N) <= m /\ m <= Max(N)
      BY <2>7, <2>8, <3>1, <3>3
    <3>5. Max(N) \in Nat /\ m \in Nat
      BY <2>4, <2>6, <2>7, <3>1, <3>3
    <3> QED
      BY <2>3, <3>4, <3>5
  <2>10. m \in DOMAIN store /\ store[m].born <= t /\ m \in Nat
    BY <2>4, <2>6, <2>7
  <2>11. m <= latestAt[t] + 1 /\ (m < latestAt[t] => latestAt[t] \in S)
    BY <2>5, <2>6, <2>10 DEF Recorded
  <2>12. ~(m < latestAt[t])
    BY <2>4, <2>7, <2>10, <2>11
  <2> QED
    BY <2>4, <2>9, <2>10, <2>11, <2>12
<1> QED
  BY <1>1, InvarianceInTime, PTL
=============================================================================
