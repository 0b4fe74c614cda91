---------------------------- MODULE FileWALProofs ---------------------------
(***************************************************************************)
(* Proofs about FileWAL, for every number of entries, crashes and torn     *)
(* fragments.                                                              *)
(*                                                                         *)
(* readEntries and the filter of Replay are recursive functions over the   *)
(* file.  That their equations hold, and what they return, is proved by    *)
(* induction on the position in the file, as the least-number principle    *)
(* for the set of positions where the claim holds.                         *)
(*                                                                         *)
(* The argument about the log: an entry has one fragment in the file, with *)
(* the ID the entry was given (Owned, Once), a whole one when Append       *)
(* returned nil (LoggedWhole), and a terminated line when Ack returned nil *)
(* (CleanAcked).                                                           *)
(***************************************************************************)
EXTENDS FileWAL, NaturalsInduction, WellFoundedInduction, TLAPS

-----------------------------------------------------------------------------
(* Induction *)

\* A non-empty set of naturals has a least element.
LEMMA LeastNatural ==
    ASSUME NEW S \in SUBSET Nat, S # {}
    PROVE  \E x \in S : \A y \in S : x <= y
<1> DEFINE R == {p \in Nat \X Nat : p[1] < p[2]}
<1>1. IsWellFoundedOn(R, Nat)
  BY NatLessThanWellFounded DEF OpToRel
<1>2. \A x, y \in Nat : x < y => <<x, y>> \in R
  OBVIOUS
<1> HIDE DEF R
<1>3. PICK x \in S : \A y \in S : ~(<<y, x>> \in R)
  BY <1>1, WFMin
<1>4. \A y \in S : ~(y < x)
  BY <1>2, <1>3
<1> QED
  BY <1>4

\* Induction upwards from 0 to n ...
LEMMA Upward ==
    ASSUME NEW n \in Nat, NEW P, 0 \in P, \A m \in 0..(n - 1) : m \in P => m + 1 \in P
    PROVE  \A m \in 0..n : m \in P
<1> DEFINE S == {m \in 0..n : m \notin P}
<1>1. SUFFICES ASSUME S # {} PROVE FALSE
  OBVIOUS
<1>2. S \in SUBSET Nat
  OBVIOUS
<1>3. PICK x \in S : \A y \in S : x <= y
  BY <1>1, <1>2, LeastNatural
<1>4. x # 0 /\ x - 1 \in 0..(n - 1)
  BY <1>3
<1>5. x - 1 \notin P
  <2>1. (x - 1) + 1 = x /\ x \notin P
    BY <1>3, <1>4
  <2> QED
    BY <1>4, <2>1
<1>6. x - 1 \in S
  BY <1>4, <1>5
<1> QED
  BY <1>3, <1>4, <1>6

\* ... and downwards from n to 1, from all positions behind to one before them.
LEMMA Downward ==
    ASSUME NEW n \in Nat, NEW P, \A i \in 1..n : (\A j \in (i + 1)..n : j \in P) => i \in P
    PROVE  \A i \in 1..n : i \in P
<1> DEFINE S == {m \in 0..n : n - m \in 1..n /\ n - m \notin P}
<1>1. SUFFICES ASSUME NEW i \in 1..n, i \notin P PROVE FALSE
  OBVIOUS
<1>2. n - i \in 0..n /\ n - (n - i) = i
  OBVIOUS
<1>3. n - i \in S
  BY <1>1, <1>2
<1>4. S \in SUBSET Nat /\ S # {}
  BY <1>3
<1>5. PICK x \in S : \A y \in S : x <= y
  BY <1>4, LeastNatural
<1>6. ASSUME NEW j \in ((n - x) + 1)..n PROVE j \in P
  <2>1. j \in 1..n /\ n - j \in 0..n /\ n - (n - j) = j /\ n - j < x
    BY <1>5
  <2>2. SUFFICES ASSUME j \notin P PROVE FALSE
    OBVIOUS
  <2>3. n - j \in S
    BY <2>1, <2>2
  <2> QED
    BY <1>5, <2>1, <2>3
<1> QED
  BY <1>5, <1>6

-----------------------------------------------------------------------------
(* The filter of Replay *)

Fragments == [entry : Entries, id : Nat, whole : BOOLEAN]
Pairs == [entry : Entries, id : Nat]

\* The elements of a sequence.
Items(s) == {s[n] : n \in 1..Len(s)}

\* What a sequence holds after an element was put behind or before it.
LEMMA ItemsOfAppend ==
    ASSUME NEW S, NEW s \in Seq(S), NEW x \in S
    PROVE  Append(s, x) \in Seq(S) /\ Items(Append(s, x)) = Items(s) \cup {x}
<1>1. Len(s) \in Nat /\ Len(Append(s, x)) = Len(s) + 1 /\ Append(s, x)[Len(s) + 1] = x
  OBVIOUS
<1>2. \A i \in 1..Len(s) : Append(s, x)[i] = s[i]
  OBVIOUS
<1>3. 1..(Len(s) + 1) = 1..Len(s) \cup {Len(s) + 1}
  BY <1>1
<1>4. Items(Append(s, x)) = {Append(s, x)[i] : i \in 1..Len(s) \cup {Len(s) + 1}}
  BY <1>1, <1>3 DEF Items
<1>5. Items(Append(s, x)) = {s[i] : i \in 1..Len(s)} \cup {x}
  BY <1>1, <1>2, <1>4
<1> QED
  BY <1>5 DEF Items

\* The entry in front of a list is one of its items.
LEMMA ItemsOfCons ==
    ASSUME NEW S, NEW s \in Seq(S), NEW x \in S
    PROVE  <<x>> \o s \in Seq(S) /\ Items(<<x>> \o s) = Items(s) \cup {x}
<1>1. PICK t : t = <<x>> \o s
  OBVIOUS
<1>2. /\ t \in Seq(S) /\ Len(s) \in Nat /\ Len(t) = Len(s) + 1 /\ t[1] = x
  BY <1>1
<1>3. \A i \in 1..Len(s) : t[i + 1] = s[i]
  BY <1>1
<1>4. Items(t) \subseteq Items(s) \cup {x}
  <2>1. ASSUME NEW i \in 1..Len(t) PROVE t[i] \in Items(s) \cup {x}
    <3>1. CASE i = 1
      BY <1>2, <3>1
    <3>2. CASE i # 1
      <4>1. i - 1 \in 1..Len(s) /\ (i - 1) + 1 = i
        BY <1>2, <3>2
      <4>2. t[i] = s[i - 1]
        BY <1>3, <4>1
      <4> QED
        BY <4>1, <4>2 DEF Items
    <3> QED
      BY <3>1, <3>2
  <2> QED
    BY <2>1 DEF Items
<1>5. x \in Items(t)
  BY <1>2 DEF Items
<1>6. \A i \in 1..Len(s) : i + 1 \in 1..Len(t)
  BY <1>2
<1>7. Items(s) \subseteq Items(t)
  BY <1>3, <1>6 DEF Items
<1> QED
  BY <1>1, <1>2, <1>4, <1>5, <1>7

\* One round of the loop of Replay.
Round(s, acked, u, n) ==
    IF n = 0 THEN <<>>
    ELSE IF s[n].id \in acked THEN u[n - 1] ELSE Append(u[n - 1], s[n])

\* The loop is defined for every list of entries.
LEMMA UnackedUnfolds ==
    ASSUME NEW s \in Seq(Pairs), NEW acked
    PROVE  \E u : u = [n \in 0..Len(s) |-> Round(s, acked, u, n)] /\ Unacked(s, acked) = u[Len(s)]
<1> DEFINE Fits(u, m) == u = [n \in 0..m |-> Round(s, acked, u, n)]
           P == {m \in Nat : \E u : Fits(u, m)}
<1>1. Len(s) \in Nat
  OBVIOUS
<1>2. 0 \in P
  <2>1. PICK u : u = [n \in 0..0 |-> <<>>]
    OBVIOUS
  <2>2. \A n \in 0..0 : n = 0 /\ Round(s, acked, u, n) = <<>>
    BY DEF Round
  <2>3. u = [n \in 0..0 |-> Round(s, acked, u, n)]
    BY <2>1, <2>2
  <2> QED
    BY <2>3
<1>3. ASSUME NEW m \in 0..(Len(s) - 1), m \in P PROVE m + 1 \in P
  <2>1. PICK u : u = [n \in 0..m |-> Round(s, acked, u, n)]
    BY <1>3
  <2>2. PICK w : w = [n \in 0..(m + 1) |-> IF n = m + 1 THEN Round(s, acked, u, n) ELSE u[n]]
    OBVIOUS
  <2>3. \A n \in 0..m : n \in 0..(m + 1) /\ n # m + 1 /\ w[n] = u[n]
    BY <1>1, <2>2
  <2>4. \A n \in 0..(m + 1) : n # 0 => n - 1 \in 0..m
    BY <1>1
  <2>5. \A n \in 0..(m + 1) : Round(s, acked, w, n) = Round(s, acked, u, n)
    BY <2>3, <2>4 DEF Round
  <2>6. \A n \in 0..(m + 1) : w[n] = Round(s, acked, w, n)
    <3>1. ASSUME NEW n \in 0..(m + 1) PROVE w[n] = Round(s, acked, u, n)
      <4>1. CASE n = m + 1
        BY <2>2, <4>1
      <4>2. CASE n # m + 1
        <5>1. n \in 0..m
          BY <1>1, <4>2
        <5> QED
          BY <2>1, <2>3, <5>1
      <4> QED
        BY <4>1, <4>2
    <3> QED
      BY <2>5, <3>1
  <2>7. w = [n \in 0..(m + 1) |-> w[n]]
    BY <2>2
  <2>8. w = [n \in 0..(m + 1) |-> Round(s, acked, w, n)]
    BY <2>6, <2>7
  <2> QED
    BY <1>1, <2>8
<1>4. Len(s) \in P
  <2>1. \A m \in 0..Len(s) : m \in P
    <3> HIDE DEF P
    <3> QED
      BY <1>1, <1>2, <1>3, Upward
  <2> QED
    BY <1>1, <2>1
<1>5. PICK u : u = [n \in 0..Len(s) |-> Round(s, acked, u, n)]
  BY <1>4
<1> DEFINE C == CHOOSE f : f = [n \in 0..Len(s) |-> Round(s, acked, f, n)]
<1>6. C = [n \in 0..Len(s) |-> Round(s, acked, C, n)]
  BY <1>5
<1>7. Unacked(s, acked) = C[Len(s)]
  BY DEF Unacked, Round
<1> QED
  BY <1>6, <1>7

\* Replay returns exactly the entries read whose ID is not acknowledged.
LEMMA UnackedItems ==
    ASSUME NEW s \in Seq(Pairs), NEW acked
    PROVE  Items(Unacked(s, acked)) = {x \in Items(s) : x.id \notin acked}
<1>1. PICK u : u = [n \in 0..Len(s) |-> Round(s, acked, u, n)] /\ Unacked(s, acked) = u[Len(s)]
  BY UnackedUnfolds
<1>2. Len(s) \in Nat
  OBVIOUS
<1> DEFINE Kept(m) == {s[n] : n \in {k \in 1..m : s[k].id \notin acked}}
           P == {m \in 0..Len(s) : u[m] \in Seq(Pairs) /\ Items(u[m]) = Kept(m)}
<1>3. 0 \in P
  <2>1. u[0] = <<>> /\ 0 \in 0..Len(s)
    BY <1>1, <1>2 DEF Round
  <2>2. Items(<<>>) = {} /\ Kept(0) = {}
    BY DEF Items
  <2>3. u[0] \in Seq(Pairs)
    BY <2>1
  <2>4. Items(u[0]) = Kept(0)
    BY <2>1, <2>2
  <2> HIDE DEF Kept
  <2> QED
    BY <2>1, <2>3, <2>4
<1>4. ASSUME NEW m \in 0..(Len(s) - 1), m \in P PROVE m + 1 \in P
  <2>1. m + 1 \in 0..Len(s) /\ m + 1 \in 1..Len(s) /\ (m + 1) - 1 = m /\ m + 1 # 0 /\ m \in Nat
    BY <1>2
  <2>2. u[m + 1] = IF s[m + 1].id \in acked THEN u[m] ELSE Append(u[m], s[m + 1])
    BY <1>1, <2>1 DEF Round
  <2>3. s[m + 1] \in Pairs /\ u[m] \in Seq(Pairs) /\ Items(u[m]) = Kept(m)
    BY <1>4, <2>1
  <2>4. 1..(m + 1) = 1..m \cup {m + 1}
    BY <2>1
  <2>5. CASE s[m + 1].id \in acked
    <3>1. Kept(m + 1) = Kept(m)
      BY <2>4, <2>5
    <3> QED
      BY <2>1, <2>2, <2>3, <2>5, <3>1
  <2>6. CASE s[m + 1].id \notin acked
    <3>1. Kept(m + 1) = Kept(m) \cup {s[m + 1]}
      BY <2>4, <2>6
    <3>2. Append(u[m], s[m + 1]) \in Seq(Pairs) /\ Items(Append(u[m], s[m + 1])) = Items(u[m]) \cup {s[m + 1]}
      BY <2>3, ItemsOfAppend
    <3> QED
      BY <2>1, <2>2, <2>3, <2>6, <3>1, <3>2
  <2> QED
    BY <2>5, <2>6
<1>5. Len(s) \in P
  <2>1. \A m \in 0..Len(s) : m \in P
    <3> HIDE DEF P
    <3> QED
      BY <1>2, <1>3, <1>4, Upward
  <2>2. Len(s) \in 0..Len(s)
    BY <1>2
  <2> HIDE DEF P
  <2> QED
    BY <2>1, <2>2
<1>6. Kept(Len(s)) = {x \in Items(s) : x.id \notin acked}
  BY DEF Items
<1> QED
  BY <1>1, <1>5, <1>6

-----------------------------------------------------------------------------
(* The loop of readEntries *)

Pair(f) == [entry |-> f.entry, id |-> f.id]
Cons(x, s) == <<x>> \o s

\* One fragment of readEntries, given its results on the ones behind.
Step(file, r, i) ==
    IF i > Len(file) THEN {<<>>}
    ELSE IF file[i].whole
         THEN {Cons(Pair(file[i]), s) : s \in r[i + 1]}
         ELSE {<<>>} \cup UNION {r[j] : j \in (i + 2)..(Len(file) + 1)}

\* A step uses only the results behind its position.
LEMMA StepLocal ==
    ASSUME NEW file \in Seq(Fragments), NEW r, NEW w, NEW i \in 1..(Len(file) + 1),
           \A j \in (i + 1)..(Len(file) + 1) : w[j] = r[j]
    PROVE  Step(file, w, i) = Step(file, r, i)
<1>1. Len(file) \in Nat
  OBVIOUS
<1>2. \A j \in (i + 2)..(Len(file) + 1) : w[j] = r[j]
  BY <1>1
<1>3. UNION {w[j] : j \in (i + 2)..(Len(file) + 1)} = UNION {r[j] : j \in (i + 2)..(Len(file) + 1)}
  BY <1>2
<1>4. CASE i > Len(file)
  BY <1>4 DEF Step
<1>5. CASE ~(i > Len(file))
  <2>1. w[i + 1] = r[i + 1]
    BY <1>1, <1>5
  <2> QED
    BY <1>3, <1>5, <2>1 DEF Step
<1> QED
  BY <1>4, <1>5

\* The loop is defined for every file.
LEMMA ReadUnfolds ==
    ASSUME NEW file \in Seq(Fragments)
    PROVE  ReadFrom(file) = [i \in 1..(Len(file) + 1) |-> Step(file, ReadFrom(file), i)]
<1>1. PICK L : L = Len(file) /\ L \in Nat
  OBVIOUS
<1> DEFINE P == {m \in Nat : \E r : r = [i \in ((L + 1) - m)..(L + 1) |-> Step(file, r, i)]}
<1>2. 0 \in P
  <2>1. PICK r : r = [i \in ((L + 1) - 0)..(L + 1) |-> {<<>>}]
    OBVIOUS
  <2>2. \A i \in ((L + 1) - 0)..(L + 1) : Step(file, r, i) = {<<>>}
    BY <1>1 DEF Step
  <2>3. r = [i \in ((L + 1) - 0)..(L + 1) |-> Step(file, r, i)]
    BY <2>1, <2>2
  <2> QED
    BY <2>3
<1>3. ASSUME NEW m \in 0..(L - 1), m \in P PROVE m + 1 \in P
  <2>1. PICK r : r = [i \in ((L + 1) - m)..(L + 1) |-> Step(file, r, i)]
    BY <1>3
  <2>2. PICK a : a = L - m /\ a \in 1..(L + 1) /\ (L + 1) - m = a + 1 /\ (L + 1) - (m + 1) = a
    BY <1>1
  <2>3. PICK w : w = [i \in a..(L + 1) |-> IF i = a THEN Step(file, r, i) ELSE r[i]]
    OBVIOUS
  <2>4. \A i \in (a + 1)..(L + 1) : i \in a..(L + 1) /\ i # a /\ w[i] = r[i]
    BY <1>1, <2>2, <2>3
  <2>5. ASSUME NEW i \in a..(L + 1) PROVE Step(file, w, i) = Step(file, r, i)
    <3>1. i \in 1..(Len(file) + 1)
      BY <1>1, <2>2
    <3>2. \A j \in (i + 1)..(Len(file) + 1) : w[j] = r[j]
      BY <1>1, <2>2, <2>4
    <3> QED
      BY <3>1, <3>2, StepLocal
  <2>6. ASSUME NEW i \in a..(L + 1) PROVE w[i] = Step(file, w, i)
    <3>1. w[i] = Step(file, r, i)
      <4>1. CASE i = a
        BY <2>3, <4>1
      <4>2. CASE i # a
        <5>1. i \in (a + 1)..(L + 1)
          BY <1>1, <2>2, <4>2
        <5> QED
          BY <2>1, <2>2, <2>4, <5>1
      <4> QED
        BY <4>1, <4>2
    <3> QED
      BY <2>5, <3>1
  <2>7. w = [i \in a..(L + 1) |-> w[i]]
    BY <2>3
  <2>8. w = [i \in a..(L + 1) |-> Step(file, w, i)]
    BY <2>6, <2>7
  <2>9. m + 1 \in Nat
    BY <1>1
  <2>10. w = [i \in ((L + 1) - (m + 1))..(L + 1) |-> Step(file, w, i)]
    BY <2>2, <2>8
  <2> QED
    BY <2>9, <2>10
<1>4. L \in P
  <2>1. \A m \in 0..L : m \in P
    <3> HIDE DEF P
    <3> QED
      BY <1>1, <1>2, <1>3, Upward
  <2>2. L \in 0..L
    BY <1>1
  <2> HIDE DEF P
  <2> QED
    BY <2>1, <2>2
<1>5. (L + 1) - L = 1
  BY <1>1
<1>6. PICK r : r = [i \in 1..(Len(file) + 1) |-> Step(file, r, i)]
  BY <1>1, <1>4, <1>5
<1> DEFINE C == CHOOSE f : f = [i \in 1..(Len(file) + 1) |-> Step(file, f, i)]
<1>7. C = [i \in 1..(Len(file) + 1) |-> Step(file, C, i)]
  BY <1>6
<1>8. ReadFrom(file) = C
  BY DEF ReadFrom, Step, Cons, Pair
<1> QED
  BY <1>7, <1>8

\* readEntries at the end of the file, at a whole fragment and at a torn one.
Reads(file, L, r) ==
    /\ r[L + 1] = {<<>>}
    /\ \A i \in 1..L : file[i].whole => r[i] = {Cons(Pair(file[i]), s) : s \in r[i + 1]}
    /\ \A i \in 1..L : ~file[i].whole => r[i] = {<<>>} \cup UNION {r[j] : j \in (i + 2)..(L + 1)}

\* Every way to read a file is reading its first line and then the rest.
LEMMA ReadCases ==
    ASSUME NEW file \in Seq(Fragments), NEW L, L = Len(file), NEW r, r = ReadFrom(file)
    PROVE  Reads(file, L, r)
<1>1. L \in Nat
  OBVIOUS
<1>2. \A i \in 1..(L + 1) : r[i] = Step(file, r, i)
  BY ReadUnfolds
<1>3. r[L + 1] = {<<>>}
  <2>1. L + 1 \in 1..(L + 1) /\ L + 1 > Len(file)
    BY <1>1
  <2>2. Step(file, r, L + 1) = {<<>>}
    BY <2>1 DEF Step
  <2> QED
    BY <1>2, <2>1, <2>2
<1>4. \A i \in 1..L : i \in 1..(L + 1) /\ ~(i > Len(file))
  BY <1>1
<1>5. \A i \in 1..L : file[i].whole => r[i] = {Cons(Pair(file[i]), s) : s \in r[i + 1]}
  BY <1>2, <1>4 DEF Step
<1>6. \A i \in 1..L : ~file[i].whole => r[i] = {<<>>} \cup UNION {r[j] : j \in (i + 2)..(L + 1)}
  BY <1>2, <1>4 DEF Step
<1> QED
  BY <1>3, <1>5, <1>6 DEF Reads

\* The pairs of the whole fragments of a file.
WholePairs(file) == {Pair(file[k]) : k \in {n \in 1..Len(file) : file[n].whole}}

\* A line that was written completely names an entry.
LEMMA WholePair ==
    ASSUME NEW file \in Seq(Fragments), NEW k \in 1..Len(file), file[k].whole
    PROVE  Pair(file[k]) \in WholePairs(file) /\ Pair(file[k]) \in Pairs
<1>1. file[k] \in Fragments
  OBVIOUS
<1> QED
  BY <1>1 DEF WholePairs, Pair, Pairs, Fragments

\* readEntries returns nothing that is not the entry of a whole fragment, and
\* always returns something.
LEMMA ReadSound ==
    ASSUME NEW file \in Seq(Fragments), NEW r, r = ReadFrom(file)
    PROVE  \A i \in 1..(Len(file) + 1) :
              r[i] # {} /\ \A s \in r[i] : s \in Seq(Pairs) /\ Items(s) \subseteq WholePairs(file)
<1>1. PICK L : L = Len(file) /\ L \in Nat
  OBVIOUS
<1> DEFINE Ok(i) == r[i] # {} /\ \A s \in r[i] : s \in Seq(Pairs) /\ Items(s) \subseteq WholePairs(file)
           P == {i \in 1..(L + 1) : Ok(i)}
<1>2. Reads(file, L, r)
  BY <1>1, ReadCases
<1>3. <<>> \in Seq(Pairs) /\ Items(<<>>) = {}
  BY DEF Items
<1>4. ASSUME NEW i \in 1..(L + 1), \A j \in (i + 1)..(L + 1) : j \in P PROVE Ok(i)
  <2>1. CASE i = L + 1
    BY <1>2, <1>3, <2>1 DEF Reads
  <2>2. CASE i # L + 1 /\ file[i].whole
    <3>1. i \in 1..L /\ i + 1 \in (i + 1)..(L + 1)
      BY <1>1, <2>2
    <3>2. Ok(i + 1)
      BY <1>4, <3>1
    <3>3. r[i] = {Cons(Pair(file[i]), s) : s \in r[i + 1]}
      BY <1>2, <2>2, <3>1 DEF Reads
    <3>4. Pair(file[i]) \in WholePairs(file) /\ Pair(file[i]) \in Pairs
      BY <1>1, <2>2, <3>1, WholePair
    <3>5. ASSUME NEW s \in r[i + 1]
          PROVE  Cons(Pair(file[i]), s) \in Seq(Pairs) /\ Items(Cons(Pair(file[i]), s)) \subseteq WholePairs(file)
      <4>1. s \in Seq(Pairs) /\ Items(s) \subseteq WholePairs(file)
        BY <3>2
      <4>2. /\ Cons(Pair(file[i]), s) \in Seq(Pairs)
            /\ Items(Cons(Pair(file[i]), s)) = Items(s) \cup {Pair(file[i])}
        BY <3>4, <4>1, ItemsOfCons DEF Cons
      <4> QED
        BY <3>4, <4>1, <4>2
    <3> QED
      BY <3>2, <3>3, <3>5
  <2>3. CASE i # L + 1 /\ ~file[i].whole
    <3>1. i \in 1..L /\ \A j \in (i + 2)..(L + 1) : j \in (i + 1)..(L + 1)
      BY <1>1, <2>3
    <3>2. \A j \in (i + 2)..(L + 1) : Ok(j)
      BY <1>4, <3>1
    <3>3. r[i] = {<<>>} \cup UNION {r[j] : j \in (i + 2)..(L + 1)}
      BY <1>2, <2>3, <3>1 DEF Reads
    <3> QED
      BY <1>3, <3>2, <3>3
  <2> QED
    BY <2>1, <2>2, <2>3
<1>5. \A i \in 1..(L + 1) : (\A j \in (i + 1)..(L + 1) : j \in P) => i \in P
  BY <1>4
<1>6. \A i \in 1..(L + 1) : i \in P
  <2> HIDE DEF P
  <2>1. L + 1 \in Nat
    BY <1>1
  <2> QED
    BY <1>5, <2>1, Downward
<1> QED
  BY <1>1, <1>6

\* Everything before the first torn fragment is read, whatever follows.
LEMMA ReadAll ==
    ASSUME NEW file \in Seq(Fragments), NEW r, r = ReadFrom(file),
           NEW k \in 1..Len(file), \A j \in 1..k : file[j].whole
    PROVE  \A s \in r[1] : Pair(file[k]) \in Items(s)
<1>1. PICK L : L = Len(file) /\ L \in Nat
  OBVIOUS
<1> DEFINE P == {i \in 1..k : \A s \in r[i] : Pair(file[k]) \in Items(s)}
<1>2. Reads(file, L, r)
  BY <1>1, ReadCases
<1>3. ASSUME NEW i \in 1..k, \A j \in (i + 1)..k : j \in P PROVE i \in P
  <2>1. i \in 1..L /\ i + 1 \in 1..(L + 1) /\ file[i].whole
    BY <1>1
  <2>2. r[i] = {Cons(Pair(file[i]), s) : s \in r[i + 1]}
    BY <1>2, <2>1 DEF Reads
  <2>3. Pair(file[i]) \in Pairs
    BY <1>1, <2>1, WholePair
  <2>4. ASSUME NEW s \in r[i + 1] PROVE Items(Cons(Pair(file[i]), s)) = Items(s) \cup {Pair(file[i])}
    <3>1. s \in Seq(Pairs)
      BY <1>1, <2>1, ReadSound
    <3> QED
      BY <2>3, <3>1, ItemsOfCons DEF Cons
  <2>5. i = k \/ i + 1 \in (i + 1)..k
    BY <1>1
  <2>6. ASSUME NEW s \in r[i + 1] PROVE Pair(file[k]) \in Items(Cons(Pair(file[i]), s))
    BY <1>3, <2>4, <2>5
  <2> QED
    BY <2>2, <2>6
<1>4. \A i \in 1..k : i \in P
  <2> HIDE DEF P
  <2>1. k \in Nat
    BY <1>1
  <2> QED
    BY <1>3, <2>1, Downward
<1>5. 1 \in 1..k
  BY <1>1
<1> QED
  BY <1>4, <1>5

\* A fragment at the end takes nothing away from what is read before it.
LEMMA ReadLonger ==
    ASSUME NEW file \in Seq(Fragments), NEW x \in Fragments, NEW r, r = ReadFrom(file),
           NEW w, w = ReadFrom(Append(file, x)), NEW t \in w[1]
    PROVE  \E s \in r[1] : Items(s) \subseteq Items(t)
<1>1. PICK L : L = Len(file) /\ L \in Nat
  OBVIOUS
<1>2. PICK more : more = Append(file, x)
  OBVIOUS
<1>3. more \in Seq(Fragments) /\ Len(more) = L + 1 /\ \A i \in 1..L : more[i] = file[i]
  BY <1>1, <1>2
<1> DEFINE Ok(i) == \A u \in w[i] : \E s \in r[i] : Items(s) \subseteq Items(u)
           P == {i \in 1..(L + 1) : Ok(i)}
<1>4. Reads(file, L, r)
  BY <1>1, ReadCases
<1>5. Reads(more, L + 1, w)
  BY <1>2, <1>3, ReadCases
<1>6. Items(<<>>) = {}
  BY DEF Items
<1>7. ASSUME NEW i \in 1..(L + 1), \A j \in (i + 1)..(L + 1) : j \in P PROVE Ok(i)
  <2>1. CASE i = L + 1
    BY <1>4, <1>6, <2>1 DEF Reads
  <2>2. CASE i # L + 1 /\ file[i].whole
    <3>1. i \in 1..L /\ i + 1 \in (i + 1)..(L + 1) /\ i + 1 \in 1..(L + 1) /\ i + 1 \in 1..((L + 1) + 1)
      BY <1>1, <2>2
    <3>2. Ok(i + 1)
      BY <1>7, <3>1
    <3>3. r[i] = {Cons(Pair(file[i]), s) : s \in r[i + 1]}
      BY <1>4, <2>2, <3>1 DEF Reads
    <3>4. w[i] = {Cons(Pair(file[i]), s) : s \in w[i + 1]}
      BY <1>3, <1>5, <2>2, <3>1 DEF Reads
    <3>5. Pair(file[i]) \in Pairs
      BY <1>1, <2>2, <3>1, WholePair
    <3>6. ASSUME NEW u \in w[i + 1]
          PROVE  \E s \in r[i] : Items(s) \subseteq Items(Cons(Pair(file[i]), u))
      <4>1. u \in Seq(Pairs)
        BY <1>2, <1>3, <3>1, ReadSound
      <4>2. PICK s \in r[i + 1] : Items(s) \subseteq Items(u)
        BY <3>2
      <4>3. s \in Seq(Pairs)
        BY <1>1, <3>1, ReadSound
      <4>4. Items(Cons(Pair(file[i]), u)) = Items(u) \cup {Pair(file[i])}
        BY <3>5, <4>1, ItemsOfCons DEF Cons
      <4>5. Items(Cons(Pair(file[i]), s)) = Items(s) \cup {Pair(file[i])}
        BY <3>5, <4>3, ItemsOfCons DEF Cons
      <4>6. Cons(Pair(file[i]), s) \in r[i]
        BY <3>3
      <4> QED
        BY <4>2, <4>4, <4>5, <4>6
    <3> QED
      BY <3>4, <3>6
  <2>3. CASE i # L + 1 /\ ~file[i].whole
    <3>1. i \in 1..L
      BY <1>1, <2>3
    <3>2. <<>> \in r[i]
      BY <1>4, <2>3, <3>1 DEF Reads
    <3> QED
      BY <1>6, <3>2
  <2> QED
    BY <2>1, <2>2, <2>3
<1>8. \A i \in 1..(L + 1) : i \in P
  <2>1. L + 1 \in Nat
    BY <1>1
  <2>2. \A i \in 1..(L + 1) : (\A j \in (i + 1)..(L + 1) : j \in P) => i \in P
    BY <1>7
  <2> HIDE DEF P
  <2> QED
    BY <2>1, <2>2, Downward
<1>9. 1 \in 1..(L + 1)
  BY <1>1
<1> QED
  BY <1>8, <1>9

-----------------------------------------------------------------------------
(* The inductive invariant *)

Lines == [id : Nat, nl : BOOLEAN]
Places == {"new", "logged", "refused", "persisted", "done", "lost"}

TypeInv ==
    /\ wal \in Seq(Fragments)
    /\ ack \in Seq(Lines)
    /\ clock \in Nat \ {0}
    /\ id \in [Entries -> Nat]
    /\ pc \in [Entries -> Places]
    /\ logged \subseteq Entries
    /\ clean \subseteq Entries

\* Exactly the calls that began have an ID, which is never the empty one.
Named == \A e \in Entries : id[e] = Part <=> pc[e] = "new"

\* A fragment was left by a call that began and carries its ID.
Owned == \A k \in 1..Len(wal) : pc[wal[k].entry] # "new" /\ wal[k].id = id[wal[k].entry]

\* A call leaves at most one fragment.
Once == \A j, k \in 1..Len(wal) : wal[j].entry = wal[k].entry => j = k

\* Append returns nil only behind a whole fragment.
LoggedWhole == \A e \in logged : \E k \in 1..Len(wal) : wal[k].entry = e /\ wal[k].whole

\* Ack returns nil only behind a terminated line.
CleanAcked == \A e \in clean : /\ pc[e] # "new"
                               /\ \E n \in 1..Len(ack) : ack[n].id = id[e] /\ ack[n].nl

IInv == TypeInv /\ Named /\ Owned /\ Once /\ LoggedWhole /\ CleanAcked

\* t is s with x behind it.
Longer(s, t, x) == t = Append(s, x)

Grown(s, t, x) ==
    /\ Len(s) \in Nat /\ Len(t) = Len(s) + 1 /\ t[Len(s) + 1] = x
    /\ Len(s) + 1 \in 1..Len(t)
    /\ \A k \in 1..Len(s) : k \in 1..Len(t) /\ t[k] = s[k]
    /\ \A k \in 1..Len(t) : k \in 1..Len(s) \/ k = Len(s) + 1

\* What a file holds once a line was added to it.
LEMMA LongerFacts ==
    ASSUME NEW S, NEW s \in Seq(S), NEW x \in S, NEW t, Longer(s, t, x)
    PROVE  t \in Seq(S) /\ Grown(s, t, x)
BY DEF Longer, Grown

\* The types of a fragment of a file.
LEMMA FragmentType ==
    ASSUME NEW s \in Seq(Fragments), NEW k \in 1..Len(s)
    PROVE  s[k] \in Fragments /\ s[k].entry \in Entries /\ s[k].id \in Nat /\ s[k].whole \in BOOLEAN
<1>1. s[k] \in Fragments
  OBVIOUS
<1> QED
  BY <1>1 DEF Fragments

\* What an operation may leave in wal.dat and in wal.ack.
LEMMA UnfinishedLeaves ==
    ASSUME NEW e, wal' \in Unfinished(e)
    PROVE  \E w \in BOOLEAN : wal' = wal \/ Longer(wal, wal', Frame(e, w))
<1>1. \/ wal' = wal
      \/ wal' = Append(wal, Frame(e, TRUE))
      \/ wal' = Append(wal, Frame(e, FALSE))
  BY DEF Unfinished
<1> QED
  BY <1>1 DEF Longer

\* An acknowledgement that failed adds one line to the .ack file or nothing.
LEMMA UnfinishedAckLeaves ==
    ASSUME NEW i \in Nat, ack' \in UnfinishedAck(i)
    PROVE  \E l \in Lines : ack' = ack \/ Longer(ack, ack', l)
<1>1. \/ ack' = ack
      \/ ack' = Append(ack, [id |-> i, nl |-> TRUE])
      \/ ack' = Append(ack, [id |-> i, nl |-> FALSE])
      \/ ack' = Append(ack, [id |-> Part, nl |-> FALSE])
  BY DEF UnfinishedAck
<1>2. /\ [id |-> i, nl |-> TRUE] \in Lines
      /\ [id |-> i, nl |-> FALSE] \in Lines
      /\ [id |-> Part, nl |-> FALSE] \in Lines
  BY DEF Lines, Part
<1> QED
  BY <1>1, <1>2 DEF Longer

\* A step that ends an Append, whatever it leaves in the file.
LEMMA LogStep ==
    ASSUME IInv, NEW e \in Entries, NEW f \in Fragments, f.entry = e, f.id = clock,
           pc[e] = "new",
           wal' = wal \/ Longer(wal, wal', f),
           id' = [id EXCEPT ![e] = clock],
           pc' \in [Entries -> Places], pc'[e] # "new",
           \A d \in Entries \ {e} : pc'[d] = "new" <=> pc[d] = "new",
           \/ logged' = logged
           \/ logged' = logged \cup {e} /\ f.whole /\ Longer(wal, wal', f),
           UNCHANGED <<ack, clock, clean>>
    PROVE  IInv'
<1>1. /\ wal \in Seq(Fragments) /\ ack \in Seq(Lines) /\ clock \in Nat \ {0}
      /\ id \in [Entries -> Nat] /\ pc \in [Entries -> Places]
      /\ logged \subseteq Entries /\ clean \subseteq Entries
  BY DEF IInv, TypeInv
<1>2. Longer(wal, wal', f) => wal' \in Seq(Fragments) /\ Grown(wal, wal', f)
  BY <1>1, LongerFacts, Zenon
<1>3. wal' \in Seq(Fragments) /\ \A k \in 1..Len(wal) : k \in 1..Len(wal') /\ wal'[k] = wal[k]
  BY <1>1, <1>2 DEF Grown
<1>4. \A k \in 1..Len(wal') : \/ k \in 1..Len(wal) /\ wal'[k] = wal[k]
                              \/ k = Len(wal) + 1 /\ wal'[k] = f
  BY <1>2 DEF Grown
<1>5. \A k \in 1..Len(wal) : wal[k].entry \in Entries
  BY <1>1, FragmentType, Zenon
<1>6. \A k \in 1..Len(wal) : wal[k].entry # e
  BY DEF IInv, Owned
<1>7. \A d \in Entries : IF d = e THEN id'[d] = clock ELSE id'[d] = id[d]
  BY <1>1
<1>8. TypeInv'
  BY <1>1, <1>3 DEF TypeInv
<1>9. Named'
  BY <1>1, <1>7 DEF IInv, Named, Part
<1>10. Owned'
  <2>1. ASSUME NEW k \in 1..Len(wal') PROVE pc'[wal'[k].entry] # "new" /\ wal'[k].id = id'[wal'[k].entry]
    <3>1. CASE k \in 1..Len(wal) /\ wal'[k] = wal[k]
      <4>1. pc[wal[k].entry] # "new" /\ wal[k].id = id[wal[k].entry]
        BY <3>1 DEF IInv, Owned
      <4> QED
        BY <1>5, <1>6, <1>7, <3>1, <4>1
    <3>2. CASE wal'[k] = f
      BY <1>7, <3>2
    <3> QED
      BY <1>4, <3>1, <3>2
  <2> QED
    BY <2>1 DEF Owned
<1>11. Once'
  <2>1. ASSUME NEW j \in 1..Len(wal'), NEW k \in 1..Len(wal'), wal'[j].entry = wal'[k].entry PROVE j = k
    <3>1. \A m, n \in 1..Len(wal) : wal[m].entry = wal[n].entry => m = n
      BY DEF IInv, Once
    <3> QED
      BY <1>4, <1>6, <2>1, <3>1
  <2> QED
    BY <2>1 DEF Once
<1>12. LoggedWhole'
  <2>1. ASSUME NEW d \in logged PROVE \E k \in 1..Len(wal') : wal'[k].entry = d /\ wal'[k].whole
    <3>1. PICK k \in 1..Len(wal) : wal[k].entry = d /\ wal[k].whole
      BY DEF IInv, LoggedWhole
    <3> QED
      BY <1>3, <3>1
  <2>2. CASE logged' = logged
    BY <2>1, <2>2 DEF LoggedWhole
  <2>3. CASE logged' = logged \cup {e} /\ f.whole /\ Longer(wal, wal', f)
    <3>1. \E k \in 1..Len(wal') : wal'[k].entry = e /\ wal'[k].whole
      BY <1>2, <2>3 DEF Grown
    <3>2. ASSUME NEW d \in logged' PROVE \E k \in 1..Len(wal') : wal'[k].entry = d /\ wal'[k].whole
      BY <2>1, <2>3, <3>1
    <3> QED
      BY <3>2 DEF LoggedWhole
  <2> QED
    BY <2>2, <2>3
<1>13. CleanAcked'
  BY <1>1, <1>7 DEF IInv, CleanAcked
<1> QED
  BY <1>8, <1>9, <1>10, <1>11, <1>12, <1>13 DEF IInv

\* A step that leaves wal.dat alone, such as the end of an Ack.
LEMMA AckStep ==
    ASSUME IInv, NEW l \in Lines,
           ack' = ack \/ Longer(ack, ack', l),
           clock' \in Nat \ {0},
           pc' \in [Entries -> Places],
           \A d \in Entries : pc'[d] = "new" <=> pc[d] = "new",
           \/ clean' = clean
           \/ \E e \in Entries : /\ pc[e] # "new" /\ clean' = clean \cup {e}
                                 /\ Longer(ack, ack', l) /\ l.id = id[e] /\ l.nl,
           UNCHANGED <<wal, id, logged>>
    PROVE  IInv'
<1>1. /\ wal \in Seq(Fragments) /\ ack \in Seq(Lines) /\ clock \in Nat \ {0}
      /\ id \in [Entries -> Nat] /\ pc \in [Entries -> Places]
      /\ logged \subseteq Entries /\ clean \subseteq Entries
  BY DEF IInv, TypeInv
<1>2. Longer(ack, ack', l) => ack' \in Seq(Lines) /\ Grown(ack, ack', l)
  BY <1>1, LongerFacts, Zenon
<1>3. ack' \in Seq(Lines) /\ \A k \in 1..Len(ack) : k \in 1..Len(ack') /\ ack'[k] = ack[k]
  BY <1>1, <1>2 DEF Grown
<1>4. TypeInv'
  <2>1. clean' \subseteq Entries
    BY <1>1
  <2> QED
    BY <1>1, <1>3, <2>1 DEF TypeInv
<1>5. Named'
  BY DEF IInv, Named
<1>6. Owned'
  <2>1. \A k \in 1..Len(wal) : wal[k].entry \in Entries
    BY <1>1, FragmentType, Zenon
  <2> QED
    BY <2>1 DEF IInv, Owned
<1>7. Once' /\ LoggedWhole'
  BY DEF IInv, Once, LoggedWhole
<1>8. CleanAcked'
  <2>1. ASSUME NEW d \in clean PROVE pc'[d] # "new" /\ \E n \in 1..Len(ack') : ack'[n].id = id'[d] /\ ack'[n].nl
    <3>1. pc[d] # "new" /\ d \in Entries
      BY <1>1 DEF IInv, CleanAcked
    <3>2. PICK n \in 1..Len(ack) : ack[n].id = id[d] /\ ack[n].nl
      BY DEF IInv, CleanAcked
    <3> QED
      BY <1>3, <3>1, <3>2
  <2>2. CASE clean' = clean
    BY <2>1, <2>2 DEF CleanAcked
  <2>3. ASSUME NEW e \in Entries, pc[e] # "new", clean' = clean \cup {e},
               Longer(ack, ack', l), l.id = id[e], l.nl
        PROVE  CleanAcked'
    <3>1. pc'[e] # "new" /\ \E n \in 1..Len(ack') : ack'[n].id = id'[e] /\ ack'[n].nl
      BY <1>2, <2>3 DEF Grown
    <3>2. ASSUME NEW d \in clean'
          PROVE  pc'[d] # "new" /\ \E n \in 1..Len(ack') : ack'[n].id = id'[d] /\ ack'[n].nl
      BY <2>1, <2>3, <3>1
    <3> QED
      BY <3>2 DEF CleanAcked
  <2> QED
    BY <2>2, <2>3
<1> QED
  BY <1>4, <1>5, <1>6, <1>7, <1>8 DEF IInv

\* A step that leaves both files alone.
LEMMA QuietStep ==
    ASSUME IInv, clock' \in Nat \ {0},
           pc' \in [Entries -> Places],
           \A d \in Entries : pc'[d] = "new" <=> pc[d] = "new",
           UNCHANGED <<wal, ack, id, logged, clean>>
    PROVE  IInv'
<1>1. PICK l : l \in Lines
  <2>1. [id |-> 0, nl |-> FALSE] \in Lines
    BY DEF Lines
  <2> QED
    BY <2>1
<1> QED
  BY <1>1, AckStep

\* Two empty files satisfy the invariant.
LEMMA InitInv == Init => IInv
<1> SUFFICES ASSUME Init PROVE IInv
  OBVIOUS
<1>1. /\ wal = <<>> /\ ack = <<>> /\ clock = 1 /\ logged = {} /\ clean = {}
      /\ id = [e \in Entries |-> 0] /\ pc = [e \in Entries |-> "new"]
  BY DEF Init, Part
<1>2. Len(wal) = 0 /\ 1..Len(wal) = {} /\ wal \in Seq(Fragments) /\ ack \in Seq(Lines)
  BY <1>1
<1>3. TypeInv
  BY <1>1, <1>2 DEF TypeInv, Places
<1>4. Named /\ LoggedWhole /\ CleanAcked
  BY <1>1 DEF Named, LoggedWhole, CleanAcked, Part
<1>5. Owned /\ Once
  BY <1>2 DEF Owned, Once
<1> QED
  BY <1>3, <1>4, <1>5 DEF IInv

\* The frame a call writes.
LEMMA FrameType ==
    ASSUME IInv, NEW e \in Entries, NEW w \in BOOLEAN
    PROVE  /\ Frame(e, w) \in Fragments
           /\ Frame(e, w).entry = e /\ Frame(e, w).id = clock /\ Frame(e, w).whole = w
BY DEF IInv, TypeInv, Frame, Fragments

\* What Append and Ack do, whether they succeed or fail, preserves the
\* invariant ...
LEMMA AppendInv ==
    ASSUME IInv, NEW e \in Entries, AppendOK(e) \/ AppendFails(e)
    PROVE  IInv'
<1>1. pc \in [Entries -> Places] /\ id \in [Entries -> Nat]
  BY DEF IInv, TypeInv
<1>2. CASE AppendOK(e)
  <2>1. /\ pc[e] = "new" /\ id' = [id EXCEPT ![e] = clock] /\ pc' = [pc EXCEPT ![e] = "logged"]
        /\ logged' = logged \cup {e} /\ UNCHANGED <<ack, clock, clean>>
        /\ Longer(wal, wal', Frame(e, TRUE))
    BY <1>2 DEF AppendOK, Longer
  <2>2. /\ pc' \in [Entries -> Places] /\ pc'[e] # "new"
        /\ \A d \in Entries \ {e} : pc'[d] = "new" <=> pc[d] = "new"
    BY <1>1, <2>1 DEF Places
  <2>3. /\ Frame(e, TRUE) \in Fragments
        /\ Frame(e, TRUE).entry = e /\ Frame(e, TRUE).id = clock /\ Frame(e, TRUE).whole
    BY FrameType
  <2> QED
    BY <2>1, <2>2, <2>3, LogStep
<1>3. CASE AppendFails(e)
  <2>1. /\ pc[e] = "new" /\ id' = [id EXCEPT ![e] = clock] /\ pc' = [pc EXCEPT ![e] = "refused"]
        /\ UNCHANGED <<logged, ack, clock, clean>>
        /\ wal' = wal \/ wal' \in Unfinished(e)
    BY <1>3 DEF AppendFails
  <2>2. /\ pc' \in [Entries -> Places] /\ pc'[e] # "new"
        /\ \A d \in Entries \ {e} : pc'[d] = "new" <=> pc[d] = "new"
    BY <1>1, <2>1 DEF Places
  <2>3. PICK w \in BOOLEAN : wal' = wal \/ Longer(wal, wal', Frame(e, w))
    BY <2>1, UnfinishedLeaves
  <2>4. Frame(e, w) \in Fragments /\ Frame(e, w).entry = e /\ Frame(e, w).id = clock
    BY FrameType
  <2> QED
    BY <2>1, <2>2, <2>3, <2>4, LogStep
<1> QED
  BY <1>2, <1>3

\* WAL.Ack keeps the invariant, whether it succeeds or fails half-way.
LEMMA AckInv ==
    ASSUME IInv, NEW e \in Entries, AckOK(e) \/ AckFails(e)
    PROVE  IInv'
<1>1. /\ pc \in [Entries -> Places] /\ id \in [Entries -> Nat] /\ clock \in Nat \ {0} /\ id[e] \in Nat
      /\ clean \subseteq Entries
  BY DEF IInv, TypeInv
<1>2. /\ pc[e] # "new" /\ pc' = [pc EXCEPT ![e] = "done"]
      /\ UNCHANGED <<wal, id, logged, clock>>
  BY DEF AckOK, AckFails
<1>3. pc' \in [Entries -> Places] /\ \A d \in Entries : pc'[d] = "new" <=> pc[d] = "new"
  BY <1>1, <1>2 DEF Places
<1>4. CASE AckOK(e)
  <2>1. PICK l : l = [id |-> id[e], nl |-> TRUE]
    OBVIOUS
  <2>2. l \in Lines /\ l.id = id[e] /\ l.nl
    BY <1>1, <2>1 DEF Lines
  <2>3. clean' = clean \cup {e} /\ Longer(ack, ack', l)
    BY <1>4, <2>1 DEF AckOK, Longer
  <2> QED
    BY <1>1, <1>2, <1>3, <2>2, <2>3, AckStep
<1>5. CASE AckFails(e)
  <2>1. clean' = clean /\ (ack' = ack \/ ack' \in UnfinishedAck(id[e]))
    BY <1>5 DEF AckFails
  <2>2. PICK l \in Lines : ack' = ack \/ Longer(ack, ack', l)
    <3>1. CASE ack' \in UnfinishedAck(id[e])
      BY <1>1, <3>1, UnfinishedAckLeaves
    <3>2. CASE ack' = ack
      <4>1. [id |-> 0, nl |-> FALSE] \in Lines
        BY DEF Lines
      <4> QED
        BY <3>2, <4>1
    <3> QED
      BY <2>1, <3>1, <3>2
  <2> QED
    BY <1>1, <1>2, <1>3, <2>1, <2>2, AckStep
<1> QED
  BY <1>4, <1>5

\* ... and so does a crash, inside an Append, inside an Ack or between them.
LEMMA CrashInv ==
    ASSUME IInv, Crash
    PROVE  IInv'
<1>1. /\ pc \in [Entries -> Places] /\ id \in [Entries -> Nat] /\ clock \in Nat \ {0}
      /\ \A d \in Entries : id[d] = 0 <=> pc[d] = "new"
  BY DEF IInv, TypeInv, Named, Part
<1>2. /\ pc' = [e \in Entries |->
                  IF pc[e] \in {"logged", "persisted"} \/ id'[e] # id[e] THEN "lost" ELSE pc[e]]
      /\ UNCHANGED <<clock, logged, clean>>
  BY DEF Crash
<1>3. pc' \in [Entries -> Places]
  BY <1>1, <1>2 DEF Places
<1>4. ASSUME NEW d \in Entries, id'[d] = id[d] PROVE pc'[d] = "new" <=> pc[d] = "new"
  BY <1>2, <1>4
<1>5. CASE UNCHANGED <<wal, ack, id>>
  <2>1. \A d \in Entries : pc'[d] = "new" <=> pc[d] = "new"
    BY <1>4, <1>5
  <2> QED
    BY <1>1, <1>2, <1>3, <1>5, <2>1, QuietStep
<1>6. ASSUME NEW e \in Entries, pc[e] = "new", wal' \in Unfinished(e),
             id' = [id EXCEPT ![e] = clock], UNCHANGED ack
      PROVE  IInv'
  <2>1. PICK w \in BOOLEAN : wal' = wal \/ Longer(wal, wal', Frame(e, w))
    BY <1>6, UnfinishedLeaves
  <2>2. Frame(e, w) \in Fragments /\ Frame(e, w).entry = e /\ Frame(e, w).id = clock
    BY FrameType
  <2>3. id'[e] # id[e] /\ \A d \in Entries \ {e} : id'[d] = id[d]
    BY <1>1, <1>6
  <2>4. pc'[e] # "new" /\ \A d \in Entries \ {e} : pc'[d] = "new" <=> pc[d] = "new"
    BY <1>2, <1>4, <2>3
  <2> QED
    BY <1>2, <1>3, <1>6, <2>1, <2>2, <2>4, LogStep
<1>7. ASSUME NEW e \in Entries, ack' \in UnfinishedAck(id[e]), UNCHANGED <<wal, id>>
      PROVE  IInv'
  <2>1. id[e] \in Nat
    BY <1>1
  <2>2. PICK l \in Lines : ack' = ack \/ Longer(ack, ack', l)
    BY <1>7, <2>1, UnfinishedAckLeaves
  <2>3. \A d \in Entries : pc'[d] = "new" <=> pc[d] = "new"
    BY <1>4, <1>7
  <2> QED
    BY <1>1, <1>2, <1>3, <1>7, <2>2, <2>3, AckStep
<1>8. \/ UNCHANGED <<wal, ack, id>>
      \/ \E e \in Entries : /\ pc[e] = "new" /\ wal' \in Unfinished(e)
                            /\ id' = [id EXCEPT ![e] = clock] /\ UNCHANGED ack
      \/ \E e \in Entries : ack' \in UnfinishedAck(id[e]) /\ UNCHANGED <<wal, id>>
  BY DEF Crash
<1> QED
  BY <1>5, <1>6, <1>7, <1>8

\* Every step of the log keeps the invariant.
LEMMA NextInv == IInv /\ [Next]_vars => IInv'
<1> SUFFICES ASSUME IInv, [Next]_vars PROVE IInv'
  OBVIOUS
<1>1. pc \in [Entries -> Places] /\ clock \in Nat \ {0}
  BY DEF IInv, TypeInv
<1>2. CASE Advance
  <2>1. clock' \in Nat \ {0} /\ UNCHANGED <<wal, ack, id, pc, logged, clean>>
    BY <1>1, <1>2 DEF Advance
  <2> QED
    BY <1>1, <2>1, QuietStep
<1>3. ASSUME NEW e \in Entries, AppendOK(e) \/ AppendFails(e) PROVE IInv'
  BY <1>3, AppendInv
<1>4. ASSUME NEW e \in Entries, Persist(e) PROVE IInv'
  <2>1. pc[e] # "new" /\ pc' = [pc EXCEPT ![e] = "persisted"] /\ UNCHANGED <<wal, ack, clock, id, logged, clean>>
    BY <1>4 DEF Persist
  <2>2. pc' \in [Entries -> Places] /\ \A d \in Entries : pc'[d] = "new" <=> pc[d] = "new"
    BY <1>1, <2>1 DEF Places
  <2> QED
    BY <1>1, <2>1, <2>2, QuietStep
<1>5. ASSUME NEW e \in Entries, AckOK(e) \/ AckFails(e) PROVE IInv'
  BY <1>5, AckInv
<1>6. CASE Replay \/ Close \/ New \/ UNCHANGED vars
  <2>1. UNCHANGED <<wal, ack, clock, id, pc, logged, clean>>
    BY <1>6 DEF Replay, Close, New, vars
  <2> QED
    BY <1>1, <2>1, QuietStep
<1>7. ASSUME NEW i \in IDs, AckReplayed(i) PROVE IInv'
  <2>1. PICK l : l = [id |-> i, nl |-> TRUE]
    OBVIOUS
  <2>2. i \in Nat
    BY WALAssumption DEF IDs
  <2>3. l \in Lines
    BY <2>1, <2>2 DEF Lines
  <2>4. Longer(ack, ack', l) /\ UNCHANGED <<wal, clock, id, pc, logged, clean>>
    BY <1>7, <2>1 DEF AckReplayed, Longer
  <2> QED
    BY <1>1, <2>3, <2>4, AckStep
<1>8. CASE Crash
  BY <1>8, CrashInv
<1> QED
  BY <1>2, <1>3, <1>4, <1>5, <1>6, <1>7, <1>8 DEF Next

\* The invariant holds throughout.
LEMMA Invariance == Spec => []IInv
BY InitInv, NextInv, PTL DEF Spec

-----------------------------------------------------------------------------
(* What a Replay returns *)

\* An entry is returned when it is read with an ID that is not acknowledged.
LEMMA ReturnedByReplay ==
    ASSUME NEW file \in Seq(Fragments), NEW r, r = ReadFrom(file), NEW t \in r[1], NEW acked, NEW e
    PROVE  Returned(Unacked(t, acked), e) <=> \E x \in Items(t) : x.entry = e /\ x.id \notin acked
<1>1. 1 \in 1..(Len(file) + 1)
  OBVIOUS
<1>2. t \in Seq(Pairs)
  BY <1>1, ReadSound
<1>3. Items(Unacked(t, acked)) = {x \in Items(t) : x.id \notin acked}
  BY <1>2, UnackedItems
<1>4. Returned(Unacked(t, acked), e) <=> \E x \in Items(Unacked(t, acked)) : x.entry = e
  BY DEF Returned, Items
<1> QED
  BY <1>3, <1>4

\* What is read of an entry is a whole fragment of it, with the ID it was
\* given.
LEMMA ReadOwn ==
    ASSUME IInv, NEW t \in ReadEntries, NEW x \in Items(t)
    PROVE  x.id = id[x.entry] /\ x.entry \in Entries
<1>1. wal \in Seq(Fragments)
  BY DEF IInv, TypeInv
<1>2. PICK r : r = ReadFrom(wal)
  OBVIOUS
<1>3. t \in r[1]
  BY <1>2 DEF ReadEntries
<1>4. 1 \in 1..(Len(wal) + 1)
  BY <1>1
<1>5. x \in WholePairs(wal)
  BY <1>1, <1>2, <1>3, <1>4, ReadSound
<1>6. PICK k \in 1..Len(wal) : x = Pair(wal[k])
  BY <1>5 DEF WholePairs
<1>7. x.entry = wal[k].entry /\ x.id = wal[k].id
  BY <1>6 DEF Pair
<1>8. wal[k].id = id[wal[k].entry]
  BY DEF IInv, Owned
<1>9. wal[k].entry \in Entries
  BY <1>1, FragmentType
<1> QED
  BY <1>7, <1>8, <1>9

\* A terminated line that does not follow a torn one is an acknowledgement.
LEMMA LineIsAcked ==
    ASSUME NEW n \in 1..Len(ack), ack[n].nl, n = 1 \/ ack[n - 1].nl, ack[n].id # Part
    PROVE  ack[n].id \in LoadAcked
BY DEF LoadAcked

\* Only a line of the file acknowledges an ID.
LEMMA AckedHasLine ==
    ASSUME NEW i \in LoadAcked
    PROVE  \E n \in 1..Len(ack) : ack[n].id = i
BY DEF LoadAcked

\* Every state of the file log is such that Replay returns each entry whose
\* Append returned nil, as long as nobody began to acknowledge its ID and no
\* fragment before it in wal.dat is torn: whatever crashes, failed writes,
\* reopenings and later appends came between.
THEOREM FileWALReplays == Spec => []LoggedIsReplayed
<1>1. IInv => LoggedIsReplayed
  <2> SUFFICES ASSUME IInv, NEW e \in logged, NotAcked(e),
                      \A k \in 1..Len(wal) : Torn(k) => ~Before(k, e),
                      NEW t \in ReadEntries
               PROVE  Returned(Unacked(t, LoadAcked), e)
    BY DEF LoggedIsReplayed, ReplayResults
  <2>1. wal \in Seq(Fragments) /\ Len(wal) \in Nat
    BY DEF IInv, TypeInv
  <2>2. PICK k \in 1..Len(wal) : wal[k].entry = e /\ wal[k].whole
    BY DEF IInv, LoggedWhole
  <2>3. ASSUME NEW j \in 1..k PROVE wal[j].whole
    <3>1. SUFFICES ASSUME ~wal[j].whole PROVE FALSE
      OBVIOUS
    <3>2. j \in 1..Len(wal) /\ j <= k /\ j # k
      BY <2>1, <2>2, <3>1
    <3>3. PICK m \in 1..Len(wal) : wal[m].entry = e /\ ~(j < m)
      BY <3>1, <3>2 DEF Torn, Before
    <3>4. m = k
      BY <2>2, <3>3 DEF IInv, Once
    <3> QED
      BY <2>1, <3>2, <3>3, <3>4
  <2>4. PICK r : r = ReadFrom(wal)
    OBVIOUS
  <2>5. t \in r[1]
    BY <2>4 DEF ReadEntries
  <2>6. Pair(wal[k]) \in Items(t)
    BY <2>1, <2>3, <2>4, <2>5, ReadAll
  <2>7. Pair(wal[k]).entry = e /\ Pair(wal[k]).id = id[e]
    BY <2>2 DEF Pair, IInv, Owned
  <2>8. id[e] \notin LoadAcked
    BY AckedHasLine DEF NotAcked
  <2>9. \E x \in Items(t) : x.entry = e /\ x.id \notin LoadAcked
    BY <2>6, <2>7, <2>8
  <2> QED
    BY <2>1, <2>4, <2>5, <2>9, ReturnedByReplay
<1> QED
  BY <1>1, Invariance, PTL

\* No Replay returns an entry whose Ack returned nil, unless a line with its
\* ID was written behind a torn line of wal.ack.
THEOREM FileWALAckedStays == Spec => []AckedStaysAcked
<1>1. IInv => AckedStaysAcked
  <2> SUFFICES ASSUME IInv, NEW e \in clean,
                      ~ \E n \in 2..Len(ack) : ack[n].id = id[e] /\ ~ack[n - 1].nl,
                      NEW t \in ReadEntries
               PROVE  ~Returned(Unacked(t, LoadAcked), e)
    BY DEF AckedStaysAcked, ReplayResults
  <2>1. wal \in Seq(Fragments) /\ ack \in Seq(Lines) /\ Len(ack) \in Nat /\ e \in Entries
    BY DEF IInv, TypeInv
  <2>2. PICK n \in 1..Len(ack) : ack[n].id = id[e] /\ ack[n].nl
    BY DEF IInv, CleanAcked
  <2>3. n = 1 \/ n \in 2..Len(ack)
    BY <2>1
  <2>4. n = 1 \/ ack[n - 1].nl
    BY <2>2, <2>3
  <2>5. id[e] # Part
    BY <2>1 DEF IInv, CleanAcked, Named
  <2>6. id[e] \in LoadAcked
    BY <2>2, <2>4, <2>5, LineIsAcked
  <2>7. \A x \in Items(t) : x.id = id[x.entry]
    BY ReadOwn
  <2>8. PICK r : r = ReadFrom(wal)
    OBVIOUS
  <2>9. t \in r[1]
    BY <2>8 DEF ReadEntries
  <2>10. ~ \E x \in Items(t) : x.entry = e /\ x.id \notin LoadAcked
    BY <2>6, <2>7
  <2> QED
    BY <2>1, <2>8, <2>9, <2>10, ReturnedByReplay
<1> QED
  BY <1>1, Invariance, PTL

\* The files only grow, by one fragment or one line at a time.
LEMMA FilesGrow ==
    ASSUME IInv, [Next]_vars
    PROVE  /\ wal' = wal \/ \E f \in Fragments : Longer(wal, wal', f)
           /\ ack' = ack \/ \E l \in Lines : Longer(ack, ack', l)
<1> DEFINE Grow == /\ wal' = wal \/ \E f \in Fragments : Longer(wal, wal', f)
                   /\ ack' = ack \/ \E l \in Lines : Longer(ack, ack', l)
<1>1. id \in [Entries -> Nat]
  BY DEF IInv, TypeInv
<1>2. ASSUME NEW e \in Entries, wal' = wal \/ wal' \in Unfinished(e)
      PROVE  wal' = wal \/ \E f \in Fragments : Longer(wal, wal', f)
  <2>1. PICK w \in BOOLEAN : wal' = wal \/ Longer(wal, wal', Frame(e, w))
    BY <1>2, UnfinishedLeaves
  <2>2. Frame(e, w) \in Fragments
    BY FrameType
  <2> QED
    BY <2>1, <2>2
<1>3. ASSUME NEW e \in Entries, ack' = ack \/ ack' \in UnfinishedAck(id[e])
      PROVE  ack' = ack \/ \E l \in Lines : Longer(ack, ack', l)
  <2>1. id[e] \in Nat
    BY <1>1
  <2> QED
    BY <1>3, <2>1, UnfinishedAckLeaves
<1>4. ASSUME NEW e \in Entries, AppendOK(e) PROVE Grow
  <2>1. Longer(wal, wal', Frame(e, TRUE)) /\ ack' = ack
    BY <1>4 DEF AppendOK, Longer
  <2>2. Frame(e, TRUE) \in Fragments
    BY FrameType
  <2> QED
    BY <2>1, <2>2
<1>5. ASSUME NEW e \in Entries, AppendFails(e) PROVE Grow
  <2>1. (wal' = wal \/ wal' \in Unfinished(e)) /\ ack' = ack
    BY <1>5 DEF AppendFails
  <2> QED
    BY <1>2, <2>1
<1>6. ASSUME NEW e \in Entries, AckFails(e) PROVE Grow
  <2>1. (ack' = ack \/ ack' \in UnfinishedAck(id[e])) /\ wal' = wal
    BY <1>6 DEF AckFails
  <2> QED
    BY <1>3, <2>1
<1>7. ASSUME NEW i \in Nat, ack' = Append(ack, [id |-> i, nl |-> TRUE]), wal' = wal PROVE Grow
  <2>1. PICK l : l = [id |-> i, nl |-> TRUE] /\ l \in Lines
    <3>1. [id |-> i, nl |-> TRUE] \in Lines
      BY DEF Lines
    <3> QED
      BY <3>1
  <2>2. Longer(ack, ack', l)
    BY <1>7, <2>1 DEF Longer
  <2> QED
    BY <1>7, <2>1, <2>2
<1>8. ASSUME NEW e \in Entries, AckOK(e) PROVE Grow
  <2>1. id[e] \in Nat
    BY <1>1
  <2>2. ack' = Append(ack, [id |-> id[e], nl |-> TRUE]) /\ wal' = wal
    BY <1>8 DEF AckOK
  <2> QED
    BY <1>7, <2>1, <2>2, Zenon
<1>9. ASSUME NEW i \in IDs, AckReplayed(i) PROVE Grow
  <2>1. i \in Nat
    BY WALAssumption DEF IDs
  <2>2. ack' = Append(ack, [id |-> i, nl |-> TRUE]) /\ wal' = wal
    BY <1>9 DEF AckReplayed
  <2> QED
    BY <1>7, <2>1, <2>2, Zenon
<1>10. ASSUME Crash PROVE Grow
  <2>1. \/ UNCHANGED <<wal, ack>>
        \/ \E e \in Entries : wal' \in Unfinished(e) /\ UNCHANGED ack
        \/ \E e \in Entries : ack' \in UnfinishedAck(id[e]) /\ UNCHANGED wal
    BY <1>10 DEF Crash
  <2> QED
    BY <1>2, <1>3, <2>1
<1>11. ASSUME NEW e \in Entries, Persist(e) PROVE Grow
  BY <1>11 DEF Persist
<1>12. ASSUME Advance \/ Replay \/ Close \/ New \/ UNCHANGED vars PROVE Grow
  BY <1>12 DEF Advance, Replay, Close, New, vars
<1> QED
  <2> HIDE DEF Grow
  <2>1. Grow
    BY <1>4, <1>5, <1>6, <1>8, <1>9, <1>10, <1>11, <1>12 DEF Next
  <2> QED
    BY <2>1 DEF Grow

\* A new line acknowledges no other ID than its own.
LEMMA AckedGrows ==
    ASSUME IInv, NEW l \in Lines, Longer(ack, ack', l)
    PROVE  LoadAcked' \subseteq LoadAcked \cup {l.id}
<1>1. ack \in Seq(Lines)
  BY DEF IInv, TypeInv
<1>2. Grown(ack, ack', l)
  BY <1>1, LongerFacts, Zenon
<1> SUFFICES ASSUME NEW i \in LoadAcked', i # l.id PROVE i \in LoadAcked
  OBVIOUS
<1>3. PICK j \in 1..Len(ack') : /\ ack'[j].id = i /\ i # Part
                                /\ j = 1 \/ ack'[j - 1].nl
                                /\ ack'[j].nl \/ j = Len(ack')
  BY DEF LoadAcked
<1>4. j # Len(ack) + 1 /\ j \in 1..Len(ack) /\ j # Len(ack')
  BY <1>2, <1>3 DEF Grown
<1>5. ack[j].id = i /\ ack[j].nl
  BY <1>2, <1>3, <1>4 DEF Grown
<1>6. j = 1 \/ ack[j - 1].nl
  <2>1. j = 1 \/ j - 1 \in 1..Len(ack)
    BY <1>2, <1>4 DEF Grown
  <2> QED
    BY <1>2, <1>3, <2>1 DEF Grown
<1> QED
  BY <1>3, <1>4, <1>5, <1>6, LineIsAcked

\* What was read of a file is still read after the step.
LEMMA ReadsGrow ==
    ASSUME IInv, [Next]_vars, NEW t \in ReadEntries'
    PROVE  \E s \in ReadEntries : Items(s) \subseteq Items(t)
<1>1. wal \in Seq(Fragments)
  BY DEF IInv, TypeInv
<1>2. PICK r : r = ReadFrom(wal)
  OBVIOUS
<1>3. PICK w : w = ReadFrom(wal')
  OBVIOUS
<1>4. t \in w[1]
  BY <1>3 DEF ReadEntries
<1>5. r[1] = ReadEntries
  BY <1>2 DEF ReadEntries
<1>6. CASE wal' = wal
  BY <1>2, <1>3, <1>4, <1>5, <1>6
<1>7. ASSUME NEW f \in Fragments, Longer(wal, wal', f)
      PROVE  \E s \in r[1] : Items(s) \subseteq Items(t)
  <2>1. w = ReadFrom(Append(wal, f))
    BY <1>3, <1>7 DEF Longer
  <2> QED
    BY <1>1, <1>2, <1>4, <2>1, ReadLonger
<1> QED
  BY <1>5, <1>6, <1>7, FilesGrow

\* No step makes an entry vanish that every Replay returned, but the one
\* that writes its own ID to wal.ack: torn writes, crashes and the
\* acknowledgements of other IDs never hide what was readable.
THEOREM FileWALAckIsolated == Spec => AckIsolated
<1>1. IInv /\ [Next]_vars => [AckHidesOwnIDOnly]_vars
  <2> SUFFICES ASSUME IInv, [Next]_vars, NEW e \in Entries,
                      \A s \in ReplayResults : Returned(s, e),
                      ~(Len(ack') > Len(ack) /\ ack'[Len(ack')].id = id[e]),
                      NEW t \in ReadEntries'
               PROVE  Returned(Unacked(t, LoadAcked'), e)
    BY DEF AckHidesOwnIDOnly, ReplayResults
  <2>1. wal \in Seq(Fragments) /\ ack \in Seq(Lines)
    BY DEF IInv, TypeInv
  <2>2. wal' \in Seq(Fragments)
    BY NextInv DEF IInv, TypeInv
  <2>3. PICK s \in ReadEntries : Items(s) \subseteq Items(t)
    BY ReadsGrow
  <2>4. Returned(Unacked(s, LoadAcked), e)
    BY DEF ReplayResults
  <2>5. PICK r : r = ReadFrom(wal) /\ s \in r[1]
    BY DEF ReadEntries
  <2>6. PICK x \in Items(s) : x.entry = e /\ x.id \notin LoadAcked
    BY <2>1, <2>4, <2>5, ReturnedByReplay
  <2>7. x.id = id[e]
    BY <2>6, ReadOwn
  <2>8. x.id \notin LoadAcked'
    <3>1. CASE ack' = ack
      <4>1. LoadAcked' = LoadAcked
        BY <3>1 DEF LoadAcked
      <4> QED
        BY <2>6, <4>1
    <3>2. ASSUME NEW l \in Lines, Longer(ack, ack', l) PROVE x.id \notin LoadAcked'
      <4>1. LoadAcked' \subseteq LoadAcked \cup {l.id}
        BY <3>2, AckedGrows
      <4>2. Grown(ack, ack', l)
        BY <2>1, <3>2, LongerFacts, Zenon
      <4>3. l.id # id[e]
        BY <4>2 DEF Grown
      <4> QED
        BY <2>6, <2>7, <4>1, <4>3
    <3> QED
      BY <3>1, <3>2, FilesGrow
  <2>9. \E y \in Items(t) : y.entry = e /\ y.id \notin LoadAcked'
    BY <2>3, <2>6, <2>8
  <2>10. PICK w : w = ReadFrom(wal') /\ t \in w[1]
    BY DEF ReadEntries
  <2> QED
    BY <2>2, <2>9, <2>10, ReturnedByReplay
<1> QED
  BY <1>1, Invariance, PTL DEF Spec, AckIsolated

=============================================================================
