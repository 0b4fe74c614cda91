------------------------- MODULE BatchBufferProofs --------------------------
(***************************************************************************)
(* Proofs about BatchBuffer, for every number of producers, records and    *)
(* callers of Close, every batch size and every bound on retries.          *)
(*                                                                         *)
(* The argument.  Records move from the channel to the slice of loop and   *)
(* from there to the settled ones without changing their order (Flow), and *)
(* no record is enqueued twice (Named, Distinct).  While a batch is being  *)
(* flushed the records before pos are in the table, and a record of the    *)
(* batch is there at most once for each attempt begun (Flushed); no record *)
(* behind the batch is there at all (Known).                               *)
(***************************************************************************)
EXTENDS BatchBuffer, FiniteSetTheorems, TLAPS

-----------------------------------------------------------------------------
(* Facts about sequences. *)

\* A concatenation has the elements of its parts, in order.
LEMMA CatFacts ==
    ASSUME NEW S, NEW s \in Seq(S), NEW t \in Seq(S)
    PROVE  /\ s \o t \in Seq(S) /\ Len(s \o t) = Len(s) + Len(t)
           /\ \A i \in 1..Len(s) : (s \o t)[i] = s[i]
           /\ \A i \in 1..Len(t) : (s \o t)[Len(s) + i] = t[i]
OBVIOUS

\* Receive moves the head of the channel behind the slice.
LEMMA MoveHead ==
    ASSUME NEW S, NEW s \in Seq(S), NEW t \in Seq(S), t # <<>>
    PROVE  Append(s, Head(t)) \o Tail(t) = s \o t
OBVIOUS

Copies(s, r) == {k \in 1..Len(s) : s[k] = r}

\* An appended record is one copy more of itself and no copy of another.
LEMMA CopiesAppend ==
    ASSUME NEW S, NEW s \in Seq(S), NEW x \in S, NEW r
    PROVE  /\ IsFiniteSet(Copies(s, r)) /\ Cardinality(Copies(s, r)) \in Nat
           /\ Cardinality(Copies(Append(s, x), r)) =
                  Cardinality(Copies(s, r)) + IF x = r THEN 1 ELSE 0
<1>1. IsFiniteSet(1..Len(s))
  BY FS_Interval
<1>2. IsFiniteSet(Copies(s, r)) /\ Cardinality(Copies(s, r)) \in Nat
  BY <1>1, FS_Subset, FS_CardinalityType DEF Copies
<1>3. Copies(Append(s, x), r) = IF x = r THEN Copies(s, r) \cup {Len(s) + 1} ELSE Copies(s, r)
  <2>1. /\ Len(s) \in Nat /\ Len(Append(s, x)) = Len(s) + 1 /\ Append(s, x)[Len(s) + 1] = x
        /\ \A i \in 1..Len(s) : Append(s, x)[i] = s[i]
    OBVIOUS
  <2>2. 1..(Len(s) + 1) = 1..Len(s) \cup {Len(s) + 1} /\ Len(s) + 1 \notin 1..Len(s)
    BY <2>1
  <2> QED
    BY <2>1, <2>2 DEF Copies
<1>4. Len(s) + 1 \notin Copies(s, r)
  BY DEF Copies
<1>5. Cardinality(Copies(s, r) \cup {Len(s) + 1}) = Cardinality(Copies(s, r)) + 1
  BY <1>2, <1>4, FS_AddElement
<1> QED
  BY <1>2, <1>3, <1>5

\* Copies are counted by a natural number.
LEMMA CopiesNat ==
    ASSUME NEW S, NEW s \in Seq(S), NEW r
    PROVE  Cardinality(Copies(s, r)) \in Nat
<1>1. IsFiniteSet(1..Len(s))
  BY FS_Interval
<1> QED
  BY <1>1, FS_Subset, FS_CardinalityType DEF Copies

\* What does not occur has no copies.
LEMMA CopiesNone ==
    ASSUME NEW s, NEW r, r \notin ToSet(s)
    PROVE  Cardinality(Copies(s, r)) = 0
<1>1. Copies(s, r) = {}
  BY DEF Copies, ToSet
<1> QED
  BY <1>1, FS_EmptySet

\* The elements of a sequence after Append ...
LEMMA SetOfAppend ==
    ASSUME NEW S, NEW s \in Seq(S), NEW x \in S
    PROVE  ToSet(Append(s, x)) = ToSet(s) \cup {x}
<1>1. \A i \in 1..Len(s) : Append(s, x)[i] = s[i]
  OBVIOUS
<1>2. Len(Append(s, x)) = Len(s) + 1 /\ Append(s, x)[Len(s) + 1] = x /\ Len(s) \in Nat
  OBVIOUS
<1>3. ToSet(Append(s, x)) \subseteq ToSet(s) \cup {x}
  BY <1>1, <1>2 DEF ToSet
<1>4. ToSet(s) \subseteq ToSet(Append(s, x))
  BY <1>1, <1>2 DEF ToSet
<1>5. x \in ToSet(Append(s, x))
  BY <1>2 DEF ToSet
<1> QED
  BY <1>3, <1>4, <1>5

\* ... and of a concatenation.
LEMMA SetOfCat ==
    ASSUME NEW S, NEW s \in Seq(S), NEW t \in Seq(S)
    PROVE  ToSet(s \o t) = ToSet(s) \cup ToSet(t)
<1>1. Len(s) \in Nat /\ Len(t) \in Nat
  OBVIOUS
<1>2. /\ Len(s \o t) = Len(s) + Len(t)
      /\ \A i \in 1..Len(s) : (s \o t)[i] = s[i]
      /\ \A i \in 1..Len(t) : (s \o t)[Len(s) + i] = t[i]
  BY CatFacts
<1>3. ToSet(s) \subseteq ToSet(s \o t)
  BY <1>1, <1>2 DEF ToSet
<1>4. ToSet(t) \subseteq ToSet(s \o t)
  <2>1. \A i \in 1..Len(t) : Len(s) + i \in 1..Len(s \o t)
    BY <1>1, <1>2
  <2> QED
    BY <1>2, <2>1 DEF ToSet
<1>5. ASSUME NEW i \in 1..Len(s \o t) PROVE (s \o t)[i] \in ToSet(s) \cup ToSet(t)
  <2>1. CASE i \in 1..Len(s)
    BY <1>2, <2>1 DEF ToSet
  <2>2. CASE i \notin 1..Len(s)
    <3>1. i - Len(s) \in 1..Len(t) /\ Len(s) + (i - Len(s)) = i
      BY <1>1, <1>2, <2>2
    <3>2. (s \o t)[i] = t[i - Len(s)]
      BY <1>2, <3>1
    <3> QED
      BY <3>1, <3>2 DEF ToSet
  <2> QED
    BY <2>1, <2>2
<1> QED
  BY <1>3, <1>4, <1>5 DEF ToSet

-----------------------------------------------------------------------------
(* The inductive invariant. *)

Records == Producers \X Nat

TypeInv ==
    /\ ch \in Seq(Records) /\ buf \in Seq(Records) /\ sink \in Seq(Records)
    /\ accepted \in Seq(Records) /\ settled \in Seq(Records)
    /\ closed \in BOOLEAN
    /\ loop \in {"select", "flush", "final", "exited"}
    /\ pos \in Nat /\ attempt \in 0..MaxRetries
    /\ next \in [Producers -> Nat]
    /\ close \in [Closers -> {"new", "closing", "blocked", "returned"}]

Flow == accepted = (settled \o buf) \o ch

\* A producer has enqueued the records before its next one, each once.
Named == \A i \in 1..Len(accepted) : accepted[i][2] < next[accepted[i][1]]
Distinct == \A i, j \in 1..Len(accepted) : accepted[i] = accepted[j] => i = j

\* The table holds settled records and those of the batch being flushed.
Known == ToSet(sink) \subseteq ToSet(settled) \cup (IF Flushing THEN ToSet(buf) ELSE {})

Settled == ToSet(settled) \subseteq ToSet(sink) \cup dropped

Flushed ==
    Flushing =>
        /\ pos \in 1..(Len(buf) + 1)
        /\ \A i \in 1..(pos - 1) : buf[i] \in ToSet(sink)
        /\ \A i \in 1..Len(buf) :
              Cardinality(Copies(sink, buf[i])) <= attempt + IF i < pos THEN 1 ELSE 0

\* The loop ends after the channel is closed and drained, a Close after that.
Ended ==
    /\ loop \in {"final", "exited"} => closed /\ ch = <<>>
    /\ loop = "exited" => buf = <<>>
    /\ \A c \in Closers : close[c] # "new" => closed
    /\ \A c \in Closers : close[c] = "returned" => loop = "exited"

IInv ==
    /\ TypeInv /\ Flow /\ Named /\ Distinct /\ Known /\ Settled /\ Flushed /\ Ended
    /\ SinkInOrder /\ BoundedDuplicates

-----------------------------------------------------------------------------
(* Steps. *)

\* Where the records of the three parts are in the order of acceptance.
LEMMA Places ==
    ASSUME NEW S, NEW s \in Seq(S), NEW b \in Seq(S), NEW c \in Seq(S),
           NEW a, a = (s \o b) \o c
    PROVE  /\ a \in Seq(S) /\ Len(a) = Len(s) + Len(b) + Len(c)
           /\ Len(s) \in Nat /\ Len(b) \in Nat /\ Len(c) \in Nat
           /\ \A i \in 1..Len(s) : i \in 1..Len(a) /\ a[i] = s[i]
           /\ \A i \in 1..Len(b) : Len(s) + i \in 1..Len(a) /\ a[Len(s) + i] = b[i]
           /\ \A i \in 1..Len(c) : Len(s) + Len(b) + i \in 1..Len(a) /\ a[Len(s) + Len(b) + i] = c[i]
<1>1. Len(s) \in Nat /\ Len(b) \in Nat /\ Len(c) \in Nat
  OBVIOUS
<1>2. /\ s \o b \in Seq(S) /\ Len(s \o b) = Len(s) + Len(b)
      /\ \A i \in 1..Len(s) : (s \o b)[i] = s[i]
      /\ \A i \in 1..Len(b) : (s \o b)[Len(s) + i] = b[i]
  BY CatFacts
<1> DEFINE t == s \o b
<1> HIDE DEF t
<1>3. /\ a \in Seq(S) /\ Len(a) = Len(t) + Len(c)
      /\ \A i \in 1..Len(t) : a[i] = t[i]
      /\ \A i \in 1..Len(c) : a[Len(t) + i] = c[i]
  BY <1>2, CatFacts DEF t
<1>4. \A i \in 1..Len(s) : i \in 1..Len(t) /\ i \in 1..Len(a)
  BY <1>1, <1>2, <1>3 DEF t
<1>5. \A i \in 1..Len(b) : Len(s) + i \in 1..Len(t) /\ Len(s) + i \in 1..Len(a)
  BY <1>1, <1>2, <1>3 DEF t
<1>6. \A i \in 1..Len(c) : Len(t) + i \in 1..Len(a)
  BY <1>1, <1>2, <1>3 DEF t
<1>7. Len(t) = Len(s) + Len(b) /\ (\A i \in 1..Len(s) : t[i] = s[i])
      /\ (\A i \in 1..Len(b) : t[Len(s) + i] = b[i])
  BY <1>2 DEF t
<1> QED
  BY <1>1, <1>3, <1>4, <1>5, <1>6, <1>7

\* Concatenation and what is appended to a sequence, opaque to the provers.
Cat(s, t) == s \o t
Put(s, x) == Append(s, x)

\* What happens to two neighbouring parts of the flow.
LEMMA CatOfTwo ==
    ASSUME NEW S, NEW s \in Seq(S), NEW t \in Seq(S)
    PROVE  /\ Cat(s, t) \in Seq(S)
           /\ ToSet(Cat(s, t)) = ToSet(s) \cup ToSet(t)
           /\ \A x \in S : Put(Cat(s, t), x) = Cat(s, Put(t, x))
           /\ t # <<>> => Cat(s, t) = Cat(Put(s, Head(t)), Tail(t)) /\ Head(t) \in S
           /\ Cat(s, <<>>) = s
<1>1. Cat(s, t) \in Seq(S)
  BY CatFacts DEF Cat
<1>2. ToSet(Cat(s, t)) = ToSet(s) \cup ToSet(t)
  BY SetOfCat DEF Cat
<1>3. ASSUME NEW x \in S PROVE Put(Cat(s, t), x) = Cat(s, Put(t, x))
  BY DEF Cat, Put
<1>4. t # <<>> => Cat(s, t) = Cat(Put(s, Head(t)), Tail(t)) /\ Head(t) \in S
  BY MoveHead DEF Cat, Put
<1>5. Cat(s, <<>>) = s
  BY DEF Cat
<1> QED
  BY <1>1, <1>2, <1>3, <1>4, <1>5

\* How records move: into the channel, from the channel to the slice, from the
\* slice to the settled ones; and who they are.
LEMMA CatOfThree ==
    ASSUME NEW S, NEW s \in Seq(S), NEW b \in Seq(S), NEW c \in Seq(S)
    PROVE  /\ \A x \in S : Put(Cat(Cat(s, b), c), x) = Cat(Cat(s, b), Put(c, x))
           /\ c # <<>> => Cat(Cat(s, b), c) = Cat(Cat(s, Put(b, Head(c))), Tail(c))
           /\ Cat(Cat(s, b), c) = Cat(Cat(Cat(s, b), <<>>), c)
           /\ ToSet(Cat(Cat(s, b), c)) = (ToSet(s) \cup ToSet(b)) \cup ToSet(c)
<1>1. Cat(s, b) \in Seq(S)
  BY CatOfTwo
<1>2. ToSet(Cat(s, b)) = ToSet(s) \cup ToSet(b)
  BY CatOfTwo
<1>3. ASSUME NEW x \in S PROVE Put(Cat(s, b), x) = Cat(s, Put(b, x))
  BY CatOfTwo
<1>4. ToSet(Cat(Cat(s, b), c)) = ToSet(Cat(s, b)) \cup ToSet(c)
  BY <1>1, CatOfTwo
<1>5. ASSUME NEW x \in S PROVE Put(Cat(Cat(s, b), c), x) = Cat(Cat(s, b), Put(c, x))
  BY <1>1, CatOfTwo
<1>6. c # <<>> => Cat(Cat(s, b), c) = Cat(Put(Cat(s, b), Head(c)), Tail(c)) /\ Head(c) \in S
  BY <1>1, CatOfTwo
<1>7. Cat(Cat(s, b), <<>>) = Cat(s, b)
  BY <1>1, CatOfTwo
<1> QED
  BY <1>2, <1>3, <1>4, <1>5, <1>6, <1>7, Zenon

\* The same of the variables.
LEMMA FlowFacts ==
    ASSUME TypeInv, Flow
    PROVE  /\ \A x \in Records : Append(accepted, x) = (settled \o buf) \o Append(ch, x)
           /\ ch # <<>> => accepted = (settled \o Append(buf, Head(ch))) \o Tail(ch)
           /\ accepted = ((settled \o buf) \o <<>>) \o ch
           /\ ToSet(accepted) = (ToSet(settled) \cup ToSet(buf)) \cup ToSet(ch)
<1>1. settled \in Seq(Records) /\ buf \in Seq(Records) /\ ch \in Seq(Records)
  BY DEF TypeInv
<1>2. accepted = Cat(Cat(settled, buf), ch)
  BY DEF Flow, Cat
<1>3. /\ \A x \in Records : Put(accepted, x) = Cat(Cat(settled, buf), Put(ch, x))
      /\ ch # <<>> => accepted = Cat(Cat(settled, Put(buf, Head(ch))), Tail(ch))
      /\ accepted = Cat(Cat(Cat(settled, buf), <<>>), ch)
      /\ ToSet(accepted) = (ToSet(settled) \cup ToSet(buf)) \cup ToSet(ch)
  BY <1>1, <1>2, CatOfThree
<1> QED
  BY <1>3 DEF Cat, Put

\* A record of the slice has not been settled, and occurs in it once.
LEMMA SliceFresh ==
    ASSUME IInv, NEW i \in 1..Len(buf)
    PROVE  /\ buf[i] \notin ToSet(settled)
           /\ \A j \in 1..Len(buf) : buf[i] = buf[j] => i = j
<1>1. /\ Len(settled) \in Nat /\ Len(buf) \in Nat
      /\ \A k \in 1..Len(settled) : k \in 1..Len(accepted) /\ accepted[k] = settled[k]
      /\ \A k \in 1..Len(buf) : /\ Len(settled) + k \in 1..Len(accepted)
                                /\ accepted[Len(settled) + k] = buf[k]
  BY Places DEF IInv, TypeInv, Flow
<1>2. \A k, j \in 1..Len(accepted) : accepted[k] = accepted[j] => k = j
  BY DEF IInv, Distinct
<1>3. ASSUME NEW k \in 1..Len(settled), settled[k] = buf[i] PROVE FALSE
  <2>1. k = Len(settled) + i
    BY <1>1, <1>2, <1>3
  <2> QED
    BY <1>1, <2>1
<1>4. ASSUME NEW j \in 1..Len(buf), buf[i] = buf[j] PROVE i = j
  <2>1. Len(settled) + i = Len(settled) + j
    BY <1>1, <1>2, <1>4
  <2> QED
    BY <1>1, <2>1
<1> QED
  BY <1>3, <1>4 DEF ToSet

\* Nothing of a slice that waits in the select is in the table.
LEMMA SliceNotInSink ==
    ASSUME IInv, loop = "select", NEW i \in 1..Len(buf)
    PROVE  Cardinality(Copies(sink, buf[i])) = 0
<1>1. buf[i] \notin ToSet(settled)
  BY SliceFresh
<1>2. buf[i] \notin ToSet(sink)
  BY <1>1 DEF IInv, Known, Flushing
<1> QED
  BY <1>2, CopiesNone

\* What a step leaves of the invariant when it moves no record.
LEMMA NothingMoved ==
    ASSUME IInv, UNCHANGED <<ch, buf, loop, pos, attempt, sink, next, accepted, settled, dropped>>,
           closed' \in BOOLEAN, closed => closed',
           close' \in [Closers -> {"new", "closing", "blocked", "returned"}],
           \A c \in Closers : close'[c] # "new" => closed',
           \A c \in Closers : close'[c] = "returned" => loop = "exited"
    PROVE  IInv'
<1>1. TypeInv'
  BY DEF IInv, TypeInv
<1>2. Flow' /\ Named' /\ Distinct' /\ Settled'
  BY DEF IInv, Flow, Named, Distinct, Settled
<1>3. SinkInOrder'
  BY DEF IInv, SinkInOrder
<1>4. Known' /\ Flushed'
  BY DEF IInv, Known, Flushed, Flushing
<1>5. BoundedDuplicates'
  BY DEF IInv, BoundedDuplicates
<1>6. Ended'
  BY DEF IInv, Ended
<1> QED
  BY <1>1, <1>2, <1>3, <1>4, <1>5, <1>6 DEF IInv

\* Close moves no record: it closes the channel once and waits.
LEMMA CloseStep ==
    ASSUME IInv, NEW c \in Closers, Close(c)
    PROVE  IInv'
<1> USE DEF loopVars
<1>1. CASE CloseFirst(c)
  BY <1>1, NothingMoved DEF CloseFirst, IInv, TypeInv, Ended
<1>2. CASE CloseAgain(c)
  BY <1>2, NothingMoved DEF CloseAgain, IInv, TypeInv, Ended
<1>3. CASE CloseReturns(c)
  BY <1>3, NothingMoved DEF CloseReturns, IInv, TypeInv, Ended
<1>4. CASE OnceReturns(c)
  BY <1>4, NothingMoved DEF OnceReturns, IInv, TypeInv, Ended
<1> QED
  BY <1>1, <1>2, <1>3, <1>4 DEF Close

\* Enqueue before it sends, and a send that panics on the closed channel.
LEMMA WaitStep ==
    ASSUME IInv,
           \/ \E p \in Producers : Enqueue(p) \/ SendPanics(p)
           \/ UNCHANGED vars
    PROVE  IInv'
<1>1. UNCHANGED <<ch, closed, buf, loop, pos, attempt, sink, next, close, accepted, settled, dropped>>
  BY DEF Enqueue, SendPanics, vars, loopVars
<1> QED
  BY <1>1, NothingMoved DEF IInv, TypeInv, Ended

\* The table holds accepted records only.
LEMMA SinkAccepted ==
    ASSUME IInv
    PROVE  ToSet(sink) \subseteq ToSet(accepted)
<1>1. ToSet(accepted) = (ToSet(settled) \cup ToSet(buf)) \cup ToSet(ch)
  BY FlowFacts DEF IInv
<1> QED
  BY <1>1 DEF IInv, Known

\* Enqueue returns: the new record is behind all others.
LEMMA SendStep ==
    ASSUME IInv, NEW p \in Producers, Send(p)
    PROVE  IInv'
<1>1. PICK r : r = <<p, next[p]>>
  OBVIOUS
<1>2. /\ ~closed /\ ch' = Append(ch, r) /\ accepted' = Append(accepted, r)
      /\ next' = [next EXCEPT ![p] = @ + 1]
      /\ UNCHANGED <<closed, buf, loop, pos, attempt, sink, close, settled, dropped>>
  BY <1>1 DEF Send, Deliver, loopVars
<1>3. r \in Records /\ r[1] = p /\ r[2] = next[p] /\ next[p] \in Nat
  BY <1>1 DEF IInv, TypeInv, Records
<1>4. TypeInv'
  BY <1>2, <1>3 DEF IInv, TypeInv
<1>5. Flow'
  <2>1. Append(accepted, r) = (settled \o buf) \o Append(ch, r)
    BY <1>3, FlowFacts DEF IInv
  <2> QED
    BY <1>2, <2>1 DEF Flow
<1>6. /\ Len(accepted) \in Nat /\ Len(accepted') = Len(accepted) + 1
      /\ accepted'[Len(accepted) + 1] = r
      /\ \A i \in 1..Len(accepted) : accepted'[i] = accepted[i] /\ accepted[i] \in Records
  BY <1>2, <1>3 DEF IInv, TypeInv
<1>7. \A q \in Producers : next'[q] \in Nat /\ next'[q] >= next[q] /\ next'[p] = next[p] + 1
  BY <1>2 DEF IInv, TypeInv
<1>8. Named'
  <2>1. ASSUME NEW i \in 1..Len(accepted') PROVE accepted'[i][2] < next'[accepted'[i][1]]
    <3>1. CASE i \in 1..Len(accepted)
      <4>1. /\ accepted[i][1] \in Producers /\ accepted[i][2] \in Nat
            /\ accepted[i][2] < next[accepted[i][1]] /\ next[accepted[i][1]] \in Nat
        BY <1>6, <3>1 DEF IInv, Named, Records, TypeInv
      <4> QED
        BY <1>6, <1>7, <3>1, <4>1
    <3>2. CASE i = Len(accepted) + 1
      BY <1>3, <1>6, <1>7, <3>2
    <3> QED
      BY <1>6, <3>1, <3>2
  <2> QED
    BY <2>1 DEF Named
<1>9. r \notin ToSet(accepted)
  BY <1>3 DEF IInv, Named, ToSet
<1>10. Distinct'
  <2>1. \A i \in 1..Len(accepted) : accepted[i] # r
    BY <1>9 DEF ToSet
  <2>2. 1..Len(accepted') = 1..Len(accepted) \cup {Len(accepted) + 1}
    BY <1>6
  <2> QED
    BY <1>6, <2>1, <2>2 DEF IInv, Distinct
<1>11. Known' /\ Settled' /\ Flushed' /\ BoundedDuplicates'
  BY <1>2 DEF IInv, Known, Settled, Flushed, BoundedDuplicates, Flushing
<1>12. Ended'
  BY <1>2 DEF IInv, Ended
<1>13. SinkInOrder'
  <2>1. \A k \in 1..Len(sink) : sink[k] # r
    BY <1>9, SinkAccepted DEF ToSet
  <2>2. ASSUME NEW i \in 1..Len(accepted'), NEW j \in 1..Len(accepted'), i < j,
               NEW k \in 1..Len(sink'), sink'[k] = accepted'[j]
        PROVE  accepted'[i] \in dropped' \/ \E h \in 1..(k - 1) : sink'[h] = accepted'[i]
    <3>1. j # Len(accepted) + 1
      BY <1>2, <1>6, <2>1, <2>2
    <3>2. i \in 1..Len(accepted) /\ j \in 1..Len(accepted)
      BY <1>6, <2>2, <3>1
    <3> QED
      BY <1>2, <1>6, <2>2, <3>2 DEF IInv, SinkInOrder
  <2> QED
    BY <2>2 DEF SinkInOrder
<1> QED
  BY <1>4, <1>5, <1>8, <1>10, <1>11, <1>12, <1>13 DEF IInv

\* What starting a flush leaves of the invariant.
LEMMA FlushStarts ==
    ASSUME IInv, loop = "select", NEW b \in Seq(Records), buf' = b,
           \A i \in 1..Len(b) : Cardinality(Copies(sink, b[i])) = 0,
           UNCHANGED sink, pos' = 1, attempt' = 0
    PROVE  Flushed'
<1>1. Len(b) \in Nat
  OBVIOUS
<1> QED
  BY <1>1 DEF Flushed

\* A record moves from the channel to the slice, which is flushed when full.
LEMMA ReceiveStep ==
    ASSUME IInv, Receive
    PROVE  IInv'
<1>1. /\ loop = "select" /\ ch # <<>> /\ ch' = Tail(ch) /\ buf' = Append(buf, Head(ch))
      /\ \/ loop' = "flush" /\ pos' = 1 /\ attempt' = 0
         \/ UNCHANGED <<loop, pos, attempt>>
      /\ UNCHANGED <<closed, sink, next, close, accepted, settled, dropped>>
  BY DEF Receive, StartFlush
<1>2. Head(ch) \in Records /\ Tail(ch) \in Seq(Records)
  BY <1>1 DEF IInv, TypeInv
<1>3. TypeInv'
  BY <1>1, <1>2, BatchAssumption DEF IInv, TypeInv
<1>4. Flow'
  <2>1. accepted = (settled \o Append(buf, Head(ch))) \o Tail(ch)
    BY <1>1, FlowFacts DEF IInv
  <2> QED
    BY <1>1, <2>1 DEF Flow
<1>5. Named' /\ Distinct' /\ Settled' /\ SinkInOrder' /\ BoundedDuplicates'
  BY <1>1 DEF IInv, Named, Distinct, Settled, SinkInOrder, BoundedDuplicates
<1>6. Known'
  BY <1>1 DEF IInv, Known, Flushing
<1>7. ASSUME NEW i \in 1..Len(buf') PROVE Cardinality(Copies(sink, buf'[i])) = 0
  <2>1. buf'[i] \notin ToSet(settled)
    <3>1. /\ Len(settled) \in Nat
          /\ \A k \in 1..Len(settled) : k \in 1..Len(accepted) /\ accepted[k] = settled[k]
          /\ \A k \in 1..Len(buf') : /\ Len(settled) + k \in 1..Len(accepted)
                                     /\ accepted[Len(settled) + k] = buf'[k]
      BY <1>1, <1>3, <1>4, Places DEF TypeInv, Flow
    <3>2. ASSUME NEW k \in 1..Len(settled), settled[k] = buf'[i] PROVE FALSE
      <4>1. k = Len(settled) + i
        BY <3>1, <3>2 DEF IInv, Distinct
      <4> QED
        BY <3>1, <4>1
    <3> QED
      BY <3>2 DEF ToSet
  <2>2. buf'[i] \notin ToSet(sink)
    BY <1>1, <2>1 DEF IInv, Known, Flushing
  <2> QED
    BY <2>2, CopiesNone
<1>8. Flushed'
  <2>1. CASE loop' = "flush" /\ pos' = 1 /\ attempt' = 0
    BY <1>1, <1>3, <1>7, <2>1, FlushStarts DEF TypeInv
  <2>2. CASE UNCHANGED <<loop, pos, attempt>>
    BY <1>1, <2>2 DEF Flushed, Flushing
  <2> QED
    BY <1>1, <2>1, <2>2
<1>9. Ended'
  BY <1>1 DEF IInv, Ended
<1> QED
  BY <1>3, <1>4, <1>5, <1>6, <1>8, <1>9 DEF IInv

\* The ticker, and the close of the drained channel.
LEMMA TickStep ==
    ASSUME IInv, Tick \/ ChannelClosed
    PROVE  IInv'
<1>1. /\ loop = "select" /\ UNCHANGED <<ch, closed, buf, sink, next, close, accepted, settled, dropped>>
      /\ \/ loop' \in {"flush", "final"} /\ pos' = 1 /\ attempt' = 0
         \/ loop' = "exited" /\ buf = <<>> /\ UNCHANGED <<pos, attempt>>
      /\ loop' # "flush" => closed /\ ch = <<>>
  BY DEF Tick, ChannelClosed, StartFlush
<1>2. TypeInv'
  BY <1>1, BatchAssumption DEF IInv, TypeInv
<1>3. /\ Flow' /\ Named' /\ Distinct' /\ Settled'
      /\ SinkInOrder' /\ BoundedDuplicates'
  <2>1. Flow' /\ Named' /\ Distinct' /\ Settled'
    BY <1>1 DEF IInv, Flow, Named, Distinct, Settled
  <2>2. SinkInOrder'
    BY <1>1 DEF IInv, SinkInOrder
  <2>3. BoundedDuplicates'
    BY <1>1 DEF IInv, BoundedDuplicates
  <2> QED
    BY <2>1, <2>2, <2>3
<1>4. Known'
  BY <1>1 DEF IInv, Known, Flushing
<1>5. Flushed'
  <2>1. CASE pos' = 1 /\ attempt' = 0
    BY <1>1, <1>2, <2>1, SliceNotInSink, FlushStarts DEF TypeInv
  <2>2. CASE loop' = "exited"
    BY <2>2 DEF Flushed, Flushing
  <2> QED
    BY <1>1, <2>1, <2>2
<1>6. Ended'
  BY <1>1 DEF IInv, Ended
<1> QED
  BY <1>2, <1>3, <1>4, <1>5, <1>6 DEF IInv

\* What an INSERT that took effect does: one copy more of the record at pos,
\* every record accepted before it being in the table or given up.
LEMMA TableGrows ==
    ASSUME IInv, Flushing, pos <= Len(buf), sink' = Append(sink, buf[pos]),
           UNCHANGED accepted, dropped \subseteq dropped'
    PROVE  /\ SinkInOrder' /\ BoundedDuplicates'
           /\ sink' \in Seq(Records) /\ ToSet(sink') = ToSet(sink) \cup {buf[pos]}
           /\ buf[pos] \in ToSet(buf)
           /\ \A i \in 1..Len(buf) :
                 /\ Cardinality(Copies(sink, buf[i])) \in Nat
                 /\ Cardinality(Copies(sink', buf[i])) =
                       Cardinality(Copies(sink, buf[i])) + IF i = pos THEN 1 ELSE 0
<1>1. /\ pos \in 1..Len(buf) /\ buf[pos] \in Records /\ sink \in Seq(Records)
      /\ Len(buf) \in Nat /\ Len(sink) \in Nat
  BY DEF IInv, TypeInv, Flushed
<1>2. PICK r : r = buf[pos]
  OBVIOUS
<1>3. sink' \in Seq(Records) /\ ToSet(sink') = ToSet(sink) \cup {r} /\ r \in ToSet(buf)
  <2>1. r \in ToSet(buf)
    BY <1>1, <1>2 DEF ToSet
  <2>2. ToSet(Append(sink, r)) = ToSet(sink) \cup {r}
    BY <1>1, <1>2, SetOfAppend
  <2>3. Append(sink, r) \in Seq(Records)
    BY <1>1, <1>2
  <2> QED
    BY <1>2, <2>1, <2>2, <2>3
<1>4. \A q : /\ Cardinality(Copies(sink, q)) \in Nat
             /\ Cardinality(Copies(sink', q)) = Cardinality(Copies(sink, q)) + IF r = q THEN 1 ELSE 0
  BY <1>1, <1>2, CopiesAppend
<1>5. \A i \in 1..Len(buf) : buf[i] = r <=> i = pos
  BY <1>1, <1>2, SliceFresh
<1>6. BoundedDuplicates'
  <2>1. Cardinality(Copies(sink, r)) <= attempt /\ attempt \in Nat /\ attempt <= MaxRetries
    <3>1. Cardinality(Copies(sink, buf[pos])) <= attempt + IF pos < pos THEN 1 ELSE 0
      BY <1>1 DEF IInv, Flushed
    <3> QED
      BY <1>1, <1>2, <3>1, BatchAssumption DEF IInv, TypeInv
  <2>2. \A q \in ToSet(sink) : Cardinality(Copies(sink, q)) <= MaxRetries + 1
    BY DEF IInv, BoundedDuplicates, Copies
  <2>3. \A q \in ToSet(sink') : Cardinality(Copies(sink', q)) <= MaxRetries + 1
    BY <1>3, <1>4, <2>1, <2>2, BatchAssumption
  <2> QED
    BY <2>3 DEF BoundedDuplicates, Copies
<1>7. SinkInOrder'
  <2>1. ASSUME NEW i \in 1..Len(accepted), NEW j \in 1..Len(accepted), i < j,
               NEW k \in 1..Len(sink'), sink'[k] = accepted[j]
        PROVE  accepted[i] \in dropped' \/ \E h \in 1..(k - 1) : sink'[h] = accepted[i]
    <3>1. /\ Len(sink') = Len(sink) + 1 /\ sink'[Len(sink) + 1] = r
          /\ \A h \in 1..Len(sink) : sink'[h] = sink[h]
      BY <1>1, <1>2
    <3>2. CASE k \in 1..Len(sink)
      <4>1. accepted[i] \in dropped \/ \E h \in 1..(k - 1) : sink[h] = accepted[i]
        BY <2>1, <3>1, <3>2 DEF IInv, SinkInOrder
      <4> QED
        BY <1>1, <3>1, <3>2, <4>1
    <3>3. CASE k = Len(sink) + 1
      <4>1. /\ Len(settled) \in Nat
            /\ \A h \in 1..Len(settled) : accepted[h] = settled[h]
            /\ \A h \in 1..Len(buf) : /\ Len(settled) + h \in 1..Len(accepted)
                                      /\ accepted[Len(settled) + h] = buf[h]
        BY Places DEF IInv, TypeInv, Flow
      <4>2. j = Len(settled) + pos
        <5>1. Len(settled) + pos \in 1..Len(accepted) /\ accepted[Len(settled) + pos] = r
          BY <1>1, <1>2, <4>1
        <5>2. accepted[j] = r
          BY <2>1, <3>1, <3>3
        <5> QED
          BY <5>1, <5>2 DEF IInv, Distinct
      <4>3. accepted[i] \in ToSet(sink) \cup dropped
        <5>1. CASE i <= Len(settled)
          <6>1. i \in 1..Len(settled)
            BY <4>1, <5>1
          <6>2. accepted[i] \in ToSet(settled)
            BY <4>1, <6>1 DEF ToSet
          <6> QED
            BY <6>2 DEF IInv, Settled
        <5>2. CASE i > Len(settled)
          <6>1. i - Len(settled) \in 1..(pos - 1) /\ Len(settled) + (i - Len(settled)) = i
            BY <1>1, <2>1, <4>1, <4>2, <5>2
          <6>2. i - Len(settled) \in 1..Len(buf)
            BY <1>1, <6>1
          <6>3. accepted[i] = buf[i - Len(settled)]
            BY <4>1, <6>1, <6>2
          <6>4. buf[i - Len(settled)] \in ToSet(sink)
            BY <6>1 DEF IInv, Flushed
          <6> QED
            BY <6>3, <6>4
        <5> QED
          BY <4>1, <5>1, <5>2
      <4>4. CASE accepted[i] \in ToSet(sink)
        <5>1. PICK h \in 1..Len(sink) : sink[h] = accepted[i]
          BY <4>4 DEF ToSet
        <5>2. h \in 1..(k - 1) /\ sink'[h] = accepted[i]
          BY <1>1, <3>1, <3>3, <5>1
        <5> QED
          BY <5>2
      <4> QED
        BY <4>3, <4>4
    <3> QED
      BY <1>1, <3>1, <3>2, <3>3
  <2>2. accepted' = accepted
    OBVIOUS
  <2> SUFFICES ASSUME NEW i \in 1..Len(accepted'), NEW j \in 1..Len(accepted'), i < j,
                      NEW k \in 1..Len(sink'), sink'[k] = accepted'[j]
               PROVE  accepted'[i] \in dropped' \/ \E h \in 1..(k - 1) : sink'[h] = accepted'[i]
    BY DEF SinkInOrder
  <2> QED
    BY <2>1, <2>2
<1> QED
  BY <1>2, <1>3, <1>4, <1>5, <1>6, <1>7

\* An INSERT succeeds.
LEMMA InsertStep ==
    ASSUME IInv, Insert
    PROVE  IInv'
<1>1. /\ Flushing /\ pos <= Len(buf) /\ sink' = Append(sink, buf[pos]) /\ pos' = pos + 1
      /\ UNCHANGED <<ch, closed, buf, loop, attempt, next, close, accepted, settled, dropped>>
  BY DEF Insert
<1>2. /\ SinkInOrder' /\ BoundedDuplicates'
      /\ sink' \in Seq(Records) /\ ToSet(sink') = ToSet(sink) \cup {buf[pos]}
      /\ buf[pos] \in ToSet(buf)
      /\ \A i \in 1..Len(buf) :
            /\ Cardinality(Copies(sink, buf[i])) \in Nat
            /\ Cardinality(Copies(sink', buf[i])) =
                  Cardinality(Copies(sink, buf[i])) + IF i = pos THEN 1 ELSE 0
  BY <1>1, TableGrows
<1>3. TypeInv'
  BY <1>1, <1>2 DEF IInv, TypeInv
<1>4. Flow' /\ Named' /\ Distinct'
  BY <1>1 DEF IInv, Flow, Named, Distinct
<1>5. Known' /\ Settled'
  BY <1>1, <1>2 DEF IInv, Known, Settled, Flushing
<1>6. Flushed'
  <2>1. /\ pos \in 1..Len(buf) /\ Len(buf) \in Nat /\ attempt \in Nat
        /\ \A i \in 1..(pos - 1) : buf[i] \in ToSet(sink)
        /\ \A i \in 1..Len(buf) :
              Cardinality(Copies(sink, buf[i])) <= attempt + IF i < pos THEN 1 ELSE 0
    BY <1>1, BatchAssumption DEF IInv, TypeInv, Flushed
  <2>2. pos' \in 1..(Len(buf) + 1)
    BY <1>1, <2>1
  <2>3. \A i \in 1..(pos' - 1) : buf[i] \in ToSet(sink')
    <3>1. \A i \in 1..(pos' - 1) : i \in 1..(pos - 1) \/ i = pos
      BY <1>1, <2>1
    <3> QED
      BY <1>2, <2>1, <3>1
  <2>4. ASSUME NEW i \in 1..Len(buf)
        PROVE  Cardinality(Copies(sink', buf[i])) <= attempt + IF i < pos' THEN 1 ELSE 0
    <3>1. PICK n \in Nat : n = Cardinality(Copies(sink, buf[i]))
      BY <1>2
    <3>2. Cardinality(Copies(sink', buf[i])) = n + IF i = pos THEN 1 ELSE 0
      BY <1>2, <3>1
    <3>3. n <= attempt + IF i < pos THEN 1 ELSE 0
      BY <2>1, <3>1
    <3> QED
      BY <1>1, <2>1, <3>2, <3>3
  <2> QED
    BY <1>1, <2>2, <2>3, <2>4 DEF Flushed
<1>7. Ended'
  BY <1>1 DEF IInv, Ended
<1> QED
  BY <1>2, <1>3, <1>4, <1>5, <1>6, <1>7 DEF IInv

\* What the return of flush leaves of the invariant, when every record of the
\* batch is in the table or given up.
LEMMA FlushReturned ==
    ASSUME IInv, Flushing, FlushReturns, pos' = 1, attempt' = attempt,
           sink' \in Seq(Records), ToSet(sink') \subseteq ToSet(sink) \cup ToSet(buf),
           ToSet(sink) \subseteq ToSet(sink'), dropped \subseteq dropped',
           ToSet(buf) \subseteq ToSet(sink') \cup dropped',
           UNCHANGED <<ch, closed, next, close, accepted>>
    PROVE  /\ TypeInv' /\ Flow' /\ Named' /\ Distinct' /\ Known' /\ Settled'
           /\ Flushed' /\ Ended'
<1>1. /\ settled' = settled \o buf /\ buf' = <<>>
      /\ loop' \in {"exited", "select"} /\ (loop' = "exited" => loop = "final")
      /\ loop \in {"flush", "final"}
  BY DEF FlushReturns, Flushing
<1>2. settled' \in Seq(Records) /\ ToSet(settled') = ToSet(settled) \cup ToSet(buf)
  <2>1. settled \in Seq(Records) /\ buf \in Seq(Records)
    BY DEF IInv, TypeInv
  <2>2. settled \o buf \in Seq(Records)
    BY <2>1, CatFacts
  <2>3. ToSet(settled \o buf) = ToSet(settled) \cup ToSet(buf)
    BY <2>1, SetOfCat
  <2> QED
    BY <1>1, <2>2, <2>3
<1>3. TypeInv'
  BY <1>1, <1>2 DEF IInv, TypeInv
<1>4. Flow'
  <2>1. accepted = ((settled \o buf) \o <<>>) \o ch
    BY FlowFacts DEF IInv
  <2> QED
    BY <1>1, <2>1 DEF Flow
<1>5. Named' /\ Distinct'
  BY DEF IInv, Named, Distinct
<1>6. Known'
  BY <1>2 DEF IInv, Known
<1>7. Settled'
  BY <1>2 DEF IInv, Settled
<1>8. Flushed'
  BY <1>1 DEF Flushed, Flushing
<1>9. Ended'
  BY <1>1 DEF IInv, Ended
<1> QED
  BY <1>3, <1>4, <1>5, <1>6, <1>7, <1>8, <1>9

\* BatchInsert returned nil: the whole batch is in the table.
LEMMA FlushSucceedsStep ==
    ASSUME IInv, FlushSucceeds
    PROVE  IInv'
<1>1. /\ Flushing /\ pos > Len(buf) /\ FlushReturns /\ pos' = 1
      /\ UNCHANGED <<ch, closed, attempt, sink, next, close, accepted, dropped>>
  BY DEF FlushSucceeds
<1>2. ToSet(buf) \subseteq ToSet(sink)
  <2>1. /\ pos \in 1..(Len(buf) + 1) /\ Len(buf) \in Nat
        /\ \A i \in 1..(pos - 1) : buf[i] \in ToSet(sink)
    BY <1>1 DEF IInv, TypeInv, Flushed
  <2>2. pos - 1 = Len(buf)
    BY <1>1, <2>1
  <2>3. \A i \in 1..Len(buf) : buf[i] \in ToSet(sink)
    BY <2>1, <2>2
  <2>4. \A x \in ToSet(buf) : \E i \in 1..Len(buf) : x = buf[i]
    BY DEF ToSet
  <2> QED
    BY <2>3, <2>4
<1>3. sink \in Seq(Records)
  BY DEF IInv, TypeInv
<1>4. /\ TypeInv' /\ Flow' /\ Named' /\ Distinct' /\ Known' /\ Settled'
      /\ Flushed' /\ Ended'
  BY <1>1, <1>2, <1>3, FlushReturned
<1>5. SinkInOrder'
  BY <1>1 DEF IInv, SinkInOrder
<1>6. BoundedDuplicates'
  BY <1>1 DEF IInv, BoundedDuplicates
<1> QED
  BY <1>4, <1>5, <1>6 DEF IInv

\* An INSERT reports an error: the batch is tried again from its first record,
\* with the copies that the failed attempt left, or given up.
LEMMA InsertFailsStep ==
    ASSUME IInv, InsertFails
    PROVE  IInv'
<1>1. /\ Flushing /\ pos <= Len(buf)
      /\ UNCHANGED <<ch, closed, next, close, accepted>>
      /\ dropped \subseteq dropped'
      /\ sink' = sink \/ sink' = Append(sink, buf[pos])
  BY DEF InsertFails
<1>2. /\ pos \in 1..Len(buf) /\ Len(buf) \in Nat /\ attempt \in 0..MaxRetries
      /\ sink \in Seq(Records)
      /\ \A i \in 1..Len(buf) :
            Cardinality(Copies(sink, buf[i])) <= attempt + IF i < pos THEN 1 ELSE 0
  BY <1>1 DEF IInv, TypeInv, Flushed
<1>3. \A i \in 1..Len(buf) : Cardinality(Copies(sink, buf[i])) \in Nat
  BY <1>1, <1>2, CopiesNat
<1>4. /\ SinkInOrder' /\ BoundedDuplicates'
      /\ sink' \in Seq(Records) /\ ToSet(sink) \subseteq ToSet(sink')
      /\ ToSet(sink') \subseteq ToSet(sink) \cup ToSet(buf)
      /\ \A i \in 1..Len(buf) : Cardinality(Copies(sink', buf[i])) <= attempt + 1
  <2>1. CASE sink' = sink
    <3>1. SinkInOrder'
      BY <1>1, <2>1 DEF IInv, SinkInOrder
    <3>2. BoundedDuplicates'
      BY <2>1 DEF IInv, BoundedDuplicates
    <3>3. \A i \in 1..Len(buf) : Cardinality(Copies(sink', buf[i])) <= attempt + 1
      BY <1>2, <1>3, <2>1, BatchAssumption
    <3> QED
      BY <1>2, <2>1, <3>1, <3>2, <3>3
  <2>2. CASE sink' = Append(sink, buf[pos])
    <3>1. /\ SinkInOrder' /\ BoundedDuplicates'
          /\ sink' \in Seq(Records) /\ ToSet(sink') = ToSet(sink) \cup {buf[pos]}
          /\ buf[pos] \in ToSet(buf)
          /\ \A i \in 1..Len(buf) :
                /\ Cardinality(Copies(sink, buf[i])) \in Nat
                /\ Cardinality(Copies(sink', buf[i])) =
                      Cardinality(Copies(sink, buf[i])) + IF i = pos THEN 1 ELSE 0
      BY <1>1, <2>2, TableGrows
    <3>2. ASSUME NEW i \in 1..Len(buf) PROVE Cardinality(Copies(sink', buf[i])) <= attempt + 1
      <4>1. PICK n \in Nat : n = Cardinality(Copies(sink, buf[i]))
        BY <1>3
      <4>2. Cardinality(Copies(sink', buf[i])) = n + IF i = pos THEN 1 ELSE 0
        BY <3>1, <4>1
      <4>3. n <= attempt + IF i < pos THEN 1 ELSE 0
        BY <1>2, <4>1
      <4> QED
        BY <1>2, <4>2, <4>3, BatchAssumption
    <3> QED
      BY <3>1, <3>2
  <2> QED
    BY <1>1, <2>1, <2>2
<1>5. CASE /\ Retries /\ attempt' = attempt + 1 /\ pos' = Restart
           /\ UNCHANGED <<buf, loop, settled, dropped>>
  <2>1. TypeInv'
    BY <1>1, <1>2, <1>4, <1>5, BatchAssumption DEF IInv, TypeInv, Retries, Restart
  <2>2. Flow' /\ Named' /\ Distinct'
    BY <1>1, <1>5 DEF IInv, Flow, Named, Distinct
  <2>3. Known' /\ Settled'
    BY <1>1, <1>4, <1>5 DEF IInv, Known, Settled, Flushing
  <2>4. Flushed'
    <3>1. pos' = 1 /\ pos' \in 1..(Len(buf) + 1)
      BY <1>2, <1>5 DEF Restart
    <3>2. ASSUME NEW i \in 1..Len(buf)
          PROVE  Cardinality(Copies(sink', buf[i])) <= attempt' + IF i < pos' THEN 1 ELSE 0
      <4>1. ~ (i < pos')
        BY <3>1
      <4>2. Cardinality(Copies(sink', buf[i])) <= attempt + 1
        BY <1>4
      <4>3. attempt + 1 + 0 = attempt + 1
        BY <1>2
      <4> QED
        BY <1>5, <4>1, <4>2, <4>3
    <3>3. \A i \in 1..(pos' - 1) : FALSE
      BY <3>1
    <3> QED
      BY <1>5, <3>1, <3>2, <3>3 DEF Flushed
  <2>5. Ended'
    BY <1>1, <1>5 DEF IInv, Ended
  <2> QED
    BY <1>4, <2>1, <2>2, <2>3, <2>4, <2>5 DEF IInv
<1>6. CASE /\ FlushReturns /\ pos' = 1 /\ UNCHANGED attempt
           /\ dropped' = dropped \cup {buf[i] : i \in 1..Len(buf)}
  <2>1. ToSet(buf) \subseteq ToSet(sink') \cup dropped'
    BY <1>6 DEF ToSet
  <2>2. /\ TypeInv' /\ Flow' /\ Named' /\ Distinct' /\ Known' /\ Settled'
        /\ Flushed' /\ Ended'
    BY <1>1, <1>4, <1>6, <2>1, FlushReturned
  <2> QED
    BY <1>4, <2>2 DEF IInv
<1> QED
  BY <1>5, <1>6 DEF InsertFails

\* NewBatchBuffer: nothing has been enqueued.
LEMMA InitInv == Init => IInv
<1> SUFFICES ASSUME Init PROVE IInv
  OBVIOUS
<1>1. /\ ch = <<>> /\ buf = <<>> /\ sink = <<>> /\ accepted = <<>> /\ settled = <<>>
      /\ closed = FALSE /\ loop = "select" /\ pos = 1 /\ attempt = 0
  BY DEF Init
<1>2. TypeInv
  <2>1. <<>> \in Seq(Records)
    OBVIOUS
  <2>2. next \in [Producers -> Nat]
    BY DEF Init
  <2>3. close \in [Closers -> {"new", "closing", "blocked", "returned"}]
    BY DEF Init
  <2>4. pos \in Nat /\ attempt \in 0..MaxRetries
    BY <1>1, BatchAssumption
  <2> QED
    BY <1>1, <2>1, <2>2, <2>3, <2>4, Zenon DEF TypeInv
<1>3. Flow
  <2>1. (<<>> \o <<>>) \o <<>> = <<>>
    OBVIOUS
  <2> QED
    BY <1>1, <2>1 DEF Flow
<1>4. Named /\ Distinct /\ SinkInOrder
  BY <1>1 DEF Named, Distinct, SinkInOrder
<1>5. ToSet(<<>>) = {}
  BY DEF ToSet
<1>6. Known /\ Settled /\ BoundedDuplicates
  BY <1>1, <1>5 DEF Known, Settled, BoundedDuplicates
<1>7. Flushed /\ Ended
  BY <1>1 DEF Init, Flushed, Flushing, Ended
<1> QED
  BY <1>2, <1>3, <1>4, <1>6, <1>7 DEF IInv

\* Every step keeps the invariant.
LEMMA NextInv == IInv /\ [Next]_vars => IInv'
<1> SUFFICES ASSUME IInv, [Next]_vars PROVE IInv'
  OBVIOUS
<1>1. CASE \E p \in Producers : Enqueue(p) \/ SendPanics(p)
  BY <1>1, WaitStep
<1>2. CASE \E p \in Producers : Send(p)
  BY <1>2, SendStep
<1>3. CASE Loop
  BY <1>3, ReceiveStep, TickStep, InsertStep, FlushSucceedsStep, InsertFailsStep DEF Loop
<1>4. CASE \E c \in Closers : Close(c)
  BY <1>4, CloseStep
<1>5. CASE UNCHANGED vars
  BY <1>5, WaitStep
<1> QED
  BY <1>1, <1>2, <1>3, <1>4, <1>5 DEF Next, Terminated

\* IInv holds in every reachable state.
LEMMA Invariance == Spec => []IInv
BY InitInv, NextInv, PTL DEF Spec

-----------------------------------------------------------------------------
(* The theorems. *)

\* Whatever producers, the loop and the table do, and whenever the channel is
\* closed: between Enqueue and the end of flush no record is lost, doubled or
\* overtaken, and a batch that flush did not give up is in the table.
THEOREM BatchConserved == Spec => []Conserved
<1>1. IInv => Conserved
  BY DEF IInv, Flow, Settled, Conserved
<1> QED
  BY <1>1, Invariance, PTL

\* The retries of flush, which insert a prefix of the batch again, never let a
\* record into the table before one accepted earlier that was not given up.
THEOREM BatchInOrder == Spec => []SinkInOrder
<1>1. IInv => SinkInOrder
  BY DEF IInv
<1> QED
  BY <1>1, Invariance, PTL

\* A record is in the table at most once per attempt of flush.
THEOREM BatchBounded == Spec => []BoundedDuplicates
<1>1. IInv => BoundedDuplicates
  BY DEF IInv
<1> QED
  BY <1>1, Invariance, PTL

\* No call of Close returns, also none of those that sync.Once holds back,
\* before every accepted record is in the table or given up.
THEOREM BatchCloseDrains == Spec => []CloseDrains
<1>1. ASSUME IInv, NEW c \in Closers, close[c] = "returned"
      PROVE  loop = "exited" /\ ToSet(accepted) \subseteq ToSet(sink) \cup dropped
  <2>1. loop = "exited" /\ buf = <<>> /\ ch = <<>>
    BY <1>1 DEF IInv, Ended
  <2>2. ToSet(accepted) = (ToSet(settled) \cup ToSet(buf)) \cup ToSet(ch)
    BY <1>1, FlowFacts DEF IInv
  <2>3. ToSet(<<>>) = {}
    BY DEF ToSet
  <2>4. ToSet(settled) \subseteq ToSet(sink) \cup dropped
    BY <1>1 DEF IInv, Settled
  <2> QED
    BY <2>1, <2>2, <2>3, <2>4
<1>2. IInv => CloseDrains
  BY <1>1 DEF CloseDrains
<1> QED
  BY <1>2, Invariance, PTL

=============================================================================
