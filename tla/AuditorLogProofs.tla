-------------------------- MODULE AuditorLogProofs --------------------------
(***************************************************************************)
(* More about Auditor, for every number of calls, entities and workers:    *)
(* the snapshots of hybrid mode are in reach, the pipeline implements the  *)
(* append-only log of AuditLog, a single worker keeps the order in which   *)
(* Submit accepted the calls, and the pool inside Auditor is WorkQueue,    *)
(* which PoolProofs shows Pool to implement.  All four rest on the         *)
(* inductive invariant of AuditorProofs.                                   *)
(***************************************************************************)
EXTENDS AuditorProofs, AuditorRefinement, AuditorOrder

-----------------------------------------------------------------------------
(* Snapshots in hybrid mode *)

Divided(v, n, q, a) == v = n * q + a

\* A remainder is the one the division leaves.
LEMMA Remainder ==
    ASSUME NEW n \in Nat, n >= 2, NEW q \in Nat, NEW a \in 0..(n - 1),
           NEW v \in Nat, Divided(v, n, q, a)
    PROVE  v % n = a
BY DEF Divided

\* The snapshots are one above the multiples of the interval.
LEMMA RemainderOne ==
    ASSUME NEW n \in Nat, n >= 2, NEW q \in Nat, NEW v \in Nat, v = n * q + 1
    PROVE  v % n = 1
<1>1. PICK a \in 0..(n - 1) : a = 1
  OBVIOUS
<1>2. Divided(v, n, q, a)
  BY <1>1 DEF Divided
<1>3. v % n = a
  BY <1>2, Remainder
<1> QED
  BY <1>1, <1>3

\* Below a version that SelectStrategy makes a delta there is one, less than an
\* interval away, that it makes a snapshot.
LEMMA SnapshotBelow ==
    ASSUME NEW n \in Nat, n >= 2, NEW v \in Nat, v > 1, v % n # 1
    PROVE  \E p \in 1..(v - 1) : v < p + n /\ p % n = 1
<1>1. PICK m \in 0..(n - 1), q \in Nat : v - 1 = n * q + m
  <2>1. (v - 1) % n \in 0..(n - 1) /\ (v - 1) \div n \in Nat
    OBVIOUS
  <2>2. v - 1 = n * ((v - 1) \div n) + ((v - 1) % n)
    OBVIOUS
  <2> QED
    BY <2>1, <2>2
<1>2. m # 0
  <2>1. SUFFICES ASSUME m = 0 PROVE FALSE
    OBVIOUS
  <2>2. n * q \in Nat
    OBVIOUS
  <2>3. v = n * q + 1
    BY <1>1, <2>1, <2>2
  <2>4. v % n = 1
    BY <2>3, RemainderOne, Zenon
  <2> QED
    BY <2>4
<1>3. PICK k \in Nat : k = n * q
  OBVIOUS
<1>4. v - m \in 1..(v - 1) /\ v < (v - m) + n /\ v - m = n * q + 1
  BY <1>1, <1>2, <1>3
<1>5. (v - m) % n = 1
  <2>1. PICK p \in Nat : p = v - m
    BY <1>4
  <2>2. p = n * q + 1
    BY <1>4, <2>1
  <2>3. p % n = 1
    BY <2>2, RemainderOne, Zenon
  <2> QED
    BY <2>1, <2>3
<1> QED
  BY <1>4, <1>5

Hybrid == DefaultStrategy = "hybrid" /\ Overrides \subseteq {Null, "full"}

\* Not a version that SelectStrategy makes a snapshot.
Spaced(v) == v > 1 /\ v % Interval # 1

SnapInv ==
    Hybrid =>
        /\ \A c \in Calls : pc[c] \in {"diff", "seal", "save"} /\ rec[c].strategy = "delta" =>
                            Spaced(rec[c].version)
        /\ \A c \in Calls : pc[c] = "diff" => Spaced(rec[c].version)
        /\ \A r \in store : r.strategy = "delta" => Spaced(r.version)

\* SelectStrategy makes a delta only of a version between two snapshots.
LEMMA DeltaIsSpaced ==
    ASSUME Hybrid, NEW o \in Overrides, NEW v, SelectStrategy(v, o) # "full"
    PROVE  Spaced(v) \/ ~(v \in Nat)
BY DEF Hybrid, SelectStrategy, Spaced

\* No step moves a delta to a version that is due for a snapshot.
LEMMA SnapStep ==
    ASSUME TypeOK, QueueInv, SnapInv, Hybrid, [Next]_vars
    PROVE  SnapInv'
<1>1. CASE Quiet
  BY <1>1 DEF Quiet, SnapInv
<1>2. ASSUME NEW c \in Calls, Version(c) PROVE SnapInv'
  <2>1. PICK t, l : /\ rec' = [rec EXCEPT ![c] = t] /\ pc' = [pc EXCEPT ![c] = l]
                    /\ l \in {"hook", "append", "submit"}
    BY <1>2, VersionDoes
  <2> QED
    BY <1>2, <2>1, StoreKept DEF SnapInv, TypeOK
<1>3. ASSUME NEW c \in Calls, Sequence(c) PROVE SnapInv'
  <2>1. PICK t : /\ rec' = [rec EXCEPT ![c] = t]
                 /\ pc' = [pc EXCEPT ![c] = IF t.strategy = "full" THEN "seal" ELSE "diff"]
                 /\ pc[c] = "sequence" /\ IsRecord(t)
                 /\ t.strategy = SelectStrategy(t.version, req[c].strategy)
    BY <1>3, SequenceDoes
  <2>2. req[c].strategy \in Overrides
    BY <2>1 DEF TypeOK, Requests
  <2>3. t.strategy # "full" => Spaced(t.version)
    BY <2>1, <2>2, DeltaIsSpaced DEF IsRecord
  <2>4. store' = store
    BY <1>3, StoreKept
  <2> QED
    BY <2>1, <2>3, <2>4 DEF SnapInv, TypeOK
<1>4. ASSUME NEW c \in Calls, DiffPrevious(c) \/ DiffFallback(c) PROVE SnapInv'
  <2>1. PICK t : /\ rec' = [rec EXCEPT ![c] = t] /\ pc' = [pc EXCEPT ![c] = "seal"]
                 /\ pc[c] = "diff" /\ t.version = rec[c].version
    BY <1>4, DiffDoes
  <2> QED
    BY <1>4, <2>1, StoreKept DEF SnapInv, TypeOK
<1>5. ASSUME NEW c \in Calls, Seal(c) \/ SealFails(c) PROVE SnapInv'
  <2>1. PICK t : /\ rec' = [rec EXCEPT ![c] = t] /\ pc' = [pc EXCEPT ![c] = "save"]
                 /\ pc[c] = "seal" /\ t.version = rec[c].version /\ t.strategy = rec[c].strategy
    BY <1>5, SealDoes
  <2> QED
    BY <1>5, <2>1, StoreKept DEF SnapInv, TypeOK
<1>6. ASSUME NEW c \in Calls, Save(c) \/ SaveUnknown(c) PROVE SnapInv'
  <2>1. PICK t, l : /\ store' = store \cup {t} /\ rec' = rec
                    /\ pc' = [pc EXCEPT ![c] = l] /\ l \in {"notify", "failed"}
                    /\ pc[c] = "save" /\ t.version = rec[c].version /\ t.strategy = rec[c].strategy
    BY <1>6, SaveDoes
  <2> QED
    BY <2>1 DEF SnapInv, TypeOK
<1> QED
  BY <1>1, <1>2, <1>3, <1>4, <1>5, <1>6, StepKinds

\* With "Every N-th version is a full snapshot" and versions that racing calls
\* number without gaps, what Reconstruct replays for a delta starts less than
\* an interval before it (sequence.go, config.go).
THEOREM AuditorSnapshotInReach == Spec => []SnapshotInReach
<1>1. Init => SnapInv
  BY DEF Init, SnapInv
<1>2. IInv /\ SnapInv /\ [Next]_vars => SnapInv'
  BY SnapStep DEF IInv, SnapInv
<1>3. ASSUME IInv, SnapInv, Hybrid, NEW r \in store, r.strategy = "delta"
      PROVE  \E p \in Rows(r.entity) : p.strategy = "full" /\ p.version < r.version
                                        /\ r.version < p.version + Interval
  <2>1. r.version \in Nat /\ Spaced(r.version)
    BY <1>3 DEF IInv, TypeOK, IsRecord, SnapInv
  <2>2. Interval \in Nat /\ Interval >= 2
    BY SizesAssumption DEF Interval
  <2>3. PICK v \in 1..(r.version - 1) : r.version < v + Interval /\ v % Interval = 1
    BY <2>1, <2>2, SnapshotBelow DEF Spaced
  <2>4. v \in 1..r.version /\ v < r.version
    BY <2>1, <2>3
  <2>5. PICK p \in store : p.entity = r.entity /\ p.version = v
    BY <1>3, <2>4 DEF IInv, VersionsGapless, ByVersion, Rows
  <2>6. p.strategy # "delta"
    BY <1>3, <2>3, <2>5 DEF SnapInv, Spaced
  <2>7. p.strategy = "full" /\ p \in Rows(r.entity)
    BY <1>3, <2>5, <2>6 DEF IInv, TypeOK, IsRecord, Rows
  <2> QED
    BY <2>3, <2>4, <2>5, <2>7
<1>4. IInv /\ SnapInv => SnapshotInReach
  BY <1>3 DEF SnapshotInReach, Hybrid
<1> QED
  BY <1>1, <1>2, <1>4, AuditorInductive, PTL DEF Spec

-----------------------------------------------------------------------------
(* The refinement of AuditLog *)

\* LogOf as a function of the rows.
LogIn(rows) == [v \in {r.version : r \in rows} |-> (CHOOSE r \in rows : r.version = v).id]

\* The log of an entity holds the call of each row at its version.
LEMMA LogHolds ==
    ASSUME NEW rows, \A r, q \in rows : r.version = q.version => r = q, NEW r \in rows
    PROVE  r.version \in DOMAIN LogIn(rows) /\ LogIn(rows)[r.version] = r.id
<1>1. r.version \in {q.version : q \in rows}
  OBVIOUS
<1>2. (CHOOSE q \in rows : q.version = r.version) = r
  OBVIOUS
<1> QED
  BY <1>1, <1>2 DEF LogIn

\* An insert behind versions 1 .. v - 1 appends its call to the log.
LEMMA LogAppends ==
    ASSUME NEW rows, NEW t, NEW v \in Nat, v >= 1, t.version = v,
           \A r, q \in rows : r.version = q.version => r = q,
           {r.version : r \in rows} = 1..(v - 1), NEW S, \A r \in rows : r.id \in S, t.id \in S
    PROVE  LogIn(rows \cup {t}) = Append(LogIn(rows), t.id)
<1> DEFINE old == LogIn(rows)
           new == LogIn(rows \cup {t})
<1>1. old = [i \in 1..(v - 1) |-> old[i]] /\ new = [i \in DOMAIN new |-> new[i]]
  BY DEF LogIn
<1>2. \A i \in 1..(v - 1) : old[i] \in S
  <2>1. ASSUME NEW i \in 1..(v - 1) PROVE old[i] \in S
    <3>1. PICK r \in rows : r.version = i
      OBVIOUS
    <3>2. old[r.version] = r.id
      BY LogHolds
    <3> QED
      BY <3>1, <3>2
  <2> QED
    BY <2>1
<1>3. DOMAIN new = 1..v
  <2>1. {r.version : r \in rows \cup {t}} = {r.version : r \in rows} \cup {t.version}
    OBVIOUS
  <2>2. 1..(v - 1) \cup {v} = 1..v
    OBVIOUS
  <2> QED
    BY <2>1, <2>2 DEF LogIn
<1>4. \A r, q \in rows \cup {t} : r.version = q.version => r = q
  <2>1. \A r \in rows : r.version \in 1..(v - 1)
    OBVIOUS
  <2> QED
    BY <2>1
<1>5. new[v] = t.id
  BY <1>4, LogHolds
<1>6. ASSUME NEW i \in 1..(v - 1) PROVE new[i] = old[i]
  <2>1. PICK r \in rows : r.version = i
    OBVIOUS
  <2>2. new[r.version] = r.id
    BY <1>4, LogHolds
  <2>3. old[r.version] = r.id
    BY LogHolds
  <2> QED
    BY <2>1, <2>2, <2>3
<1> HIDE DEF old, new
<1>7. old \in Seq(S) /\ Len(old) = v - 1
  <2>1. old \in [1..(v - 1) -> S] /\ v - 1 \in Nat
    BY <1>1, <1>2
  <2> QED
    BY <2>1
<1>8. /\ Append(old, t.id) = [i \in 1..v |-> Append(old, t.id)[i]]
      /\ Append(old, t.id)[v] = t.id
      /\ \A i \in 1..(v - 1) : Append(old, t.id)[i] = old[i]
  BY <1>7
<1>9. \A i \in 1..v : new[i] = Append(old, t.id)[i]
  <2>1. \A i \in 1..v : i = v \/ i \in 1..(v - 1)
    OBVIOUS
  <2> QED
    BY <1>5, <1>6, <1>8, <2>1
<1>10. new = Append(old, t.id)
  BY <1>1, <1>3, <1>8, <1>9
<1> QED
  BY <1>10 DEF old, new

\* What the caller of c knows, for a label of pc.
Told(l) == IF l = "ok" THEN "ok" ELSE IF l \in Final THEN "error" ELSE "open"

\* The mapping, before and after a step, in terms of the variables.
LEMMA Mapped ==
    /\ \A e \in Entities : LogOf(e) = LogIn(Rows(e)) /\ LogOf(e)' = LogIn(Rows(e)')
    /\ \A c \in Calls : OutcomeOf(c) = Told(pc[c]) /\ OutcomeOf(c)' = Told(pc'[c])
<1>1. \A e \in Entities : LogOf(e) = LogIn(Rows(e)) /\ LogOf(e)' = LogIn(Rows(e)')
  BY DEF LogOf, LogIn
<1>2. ASSUME NEW c \in Calls PROVE OutcomeOf(c) = Told(pc[c])
  BY DEF OutcomeOf, Told, Final
<1>3. ASSUME NEW c \in Calls PROVE OutcomeOf(c)' = Told(pc'[c])
  BY DEF OutcomeOf, Told, Final
<1> QED
  BY <1>1, <1>2, <1>3

\* Rows of an entity have different versions.
LEMMA RowsDiffer ==
    ASSUME VersionsGapless, NEW e
    PROVE  \A r, q \in Rows(e) : r.version = q.version => r = q
BY DEF VersionsGapless, Rows

\* A call whose row is stored is in the log.
LEMMA StoredIsLogged ==
    ASSUME IInv, NEW c \in Calls, pc[c] \in {"notify", "ack"}
    PROVE  \E e \in Entities : \E v \in DOMAIN LogOf(e) : LogOf(e)[v] = c
<1>1. PICK r : r = Row(rec[c])
  OBVIOUS
<1>2. r \in store /\ IsRecord(rec[c]) /\ rec[c].id = c
  BY <1>1 DEF IInv, Reported, TypeOK, RecordsOwned
<1>3. r.id = c /\ r.entity \in Entities
  BY <1>1, <1>2, RowFields DEF IsRecord
<1>4. r \in Rows(r.entity)
  BY <1>2 DEF Rows
<1>5. r.version \in DOMAIN LogIn(Rows(r.entity)) /\ LogIn(Rows(r.entity))[r.version] = c
  BY <1>3, <1>4, LogHolds, RowsDiffer DEF IInv
<1> QED
  BY <1>3, <1>5, Mapped

\* A call that is about to insert is not in the log.
LEMMA SavingIsNotLogged ==
    ASSUME IInv, NEW c \in Calls, pc[c] = "save", NEW e \in Entities, NEW v \in DOMAIN LogOf(e)
    PROVE  LogOf(e)[v] # c
<1>1. LogOf(e) = LogIn(Rows(e))
  BY Mapped
<1>2. PICK r \in Rows(e) : r.version = v
  BY <1>1 DEF LogIn
<1>3. LogOf(e)[v] = r.id
  BY <1>1, <1>2, LogHolds, RowsDiffer DEF IInv
<1>4. pc[r.id] \in {"notify", "ack", "ok", "failed", "lost"}
  BY <1>2 DEF IInv, RowsFrozen, Rows
<1> QED
  BY <1>3, <1>4

\* An insert is a Record of the abstract log; with an error that hides it, the
\* caller is told the error at the same time.
LEMMA SaveRecords ==
    ASSUME IInv, NEW c \in Calls, Save(c) \/ SaveUnknown(c)
    PROVE  Abstract!Next
<1>1. PICK t : /\ store' = store \cup {t} /\ IsRecord(t) /\ t.id = rec[c].id
               /\ t.entity = rec[c].entity /\ t.version = rec[c].version
               /\ ByVersion(t.entity, t.version) = {}
               /\ pc' = [pc EXCEPT ![c] = pc'[c]] /\ pc'[c] \in {"notify", "failed"}
               /\ pc[c] = "save"
  BY SaveDoes DEF IInv
<1>2. t.id = c /\ t.entity \in Entities /\ t.version \in Nat
  BY <1>1 DEF IInv, RecordsOwned, IsRecord
<1>3. t.version >= 1 /\ (t.version > 1 => ByVersion(t.entity, t.version - 1) # {})
  BY <1>1 DEF IInv, Founded
<1>4. PICK e \in Entities, v \in Nat : e = t.entity /\ v = t.version
  BY <1>2
<1>5. {r.version : r \in Rows(e)} = 1..(v - 1)
  <2>1. ASSUME NEW r \in Rows(e) PROVE r.version \in 1..(v - 1)
    <3>1. r.version < v
      BY <1>1, <1>3, <1>4, NoRowAbove DEF IInv
    <3>2. r.version \in Nat /\ r.version >= 1
      BY RowsTyped DEF IInv, VersionsGapless
    <3> QED
      BY <1>4, <3>1, <3>2
  <2>2. ASSUME NEW i \in 1..(v - 1) PROVE \E r \in Rows(e) : r.version = i
    <3>1. v > 1
      BY <1>4
    <3>2. PICK q \in store : q.entity = e /\ q.version = v - 1
      BY <1>3, <1>4, <3>1 DEF ByVersion, Rows
    <3>3. i \in 1..q.version
      BY <3>2
    <3>4. ByVersion(q.entity, i) # {}
      BY <3>2, <3>3 DEF IInv, VersionsGapless
    <3> QED
      BY <3>2, <3>4 DEF ByVersion
  <2> QED
    BY <2>1, <2>2
<1>6. LogIn(Rows(e) \cup {t}) = Append(LogIn(Rows(e)), c)
  <2>1. \A r \in Rows(e) : r.id \in Calls
    BY DEF IInv, TypeOK, IsRecord, Rows
  <2>2. LogIn(Rows(e) \cup {t}) = Append(LogIn(Rows(e)), t.id)
    BY <1>2, <1>3, <1>4, <1>5, <2>1, RowsDiffer, LogAppends DEF IInv
  <2> QED
    BY <1>2, <2>2
<1>7. /\ Rows(e)' = Rows(e) \cup {t}
      /\ \A d \in Entities : d # e => Rows(d)' = Rows(d)
  BY <1>1, <1>4 DEF Rows
<1>8. LogOf(e)' = Append(LogOf(e), c) /\ \A d \in Entities : d # e => LogOf(d)' = LogOf(d)
  BY <1>6, <1>7, Mapped
<1>9. [d \in Entities |-> LogOf(d)'] = [[d \in Entities |-> LogOf(d)] EXCEPT ![e] = Append(@, c)]
  BY <1>8
<1>10. OutcomeOf(c) = "open"
  BY <1>1, Mapped DEF Told, Final
<1>11. [d \in Calls |-> OutcomeOf(d)'] \in
          {[d \in Calls |-> OutcomeOf(d)], [[d \in Calls |-> OutcomeOf(d)] EXCEPT ![c] = "error"]}
  <2>1. \A d \in Calls : d # c => pc'[d] = pc[d]
    BY <1>1 DEF IInv, TypeOK
  <2>2. \A d \in Calls : d # c => OutcomeOf(d)' = OutcomeOf(d)
    BY <2>1, Mapped
  <2>3. OutcomeOf(c)' \in {"open", "error"}
    BY <1>1, Mapped DEF Told, Final
  <2> QED
    BY <1>10, <2>2, <2>3
<1>12. ~ \E d \in Entities : \E i \in DOMAIN LogOf(d) : LogOf(d)[i] = c
  BY <1>1, SavingIsNotLogged
<1>13. Abstract!Record(c, e)
  BY <1>9, <1>10, <1>11, <1>12 DEF Abstract!Record, Abstract!Logged
<1> QED
  BY <1>13 DEF Abstract!Next

\* A step that inserts nothing and lets no call succeed is a GiveUp, of no call
\* at all when nobody is told anything.
LEMMA ErrorsGiveUp ==
    ASSUME store' = store,
           \A c \in Calls : Told(pc'[c]) = Told(pc[c]) \/ (Told(pc[c]) = "open" /\ Told(pc'[c]) = "error")
    PROVE  Abstract!Next
<1>1. \A e \in Entities : LogOf(e)' = LogOf(e)
  BY Mapped DEF Rows
<1>2. PICK S : S = {c \in Calls : Told(pc[c]) = "open" /\ Told(pc'[c]) = "error"}
  OBVIOUS
<1>3. [c \in Calls |-> OutcomeOf(c)'] =
          [c \in Calls |-> IF c \in S THEN "error" ELSE OutcomeOf(c)]
  BY <1>2, Mapped
<1>4. \A c \in S : OutcomeOf(c) = "open" /\ c \in Calls
  BY <1>2, Mapped
<1>5. Abstract!GiveUp(S)
  BY <1>1, <1>3, <1>4 DEF Abstract!GiveUp
<1> QED
  BY <1>4, <1>5 DEF Abstract!Next

\* A PendingVersion completed without an error is a Succeed.
LEMMA SuccessIsLogged ==
    ASSUME IInv, NEW c \in Calls, store' = store, pc[c] \in {"notify", "ack"},
           pc' = [pc EXCEPT ![c] = "ok"]
    PROVE  Abstract!Next
<1>1. \A e \in Entities : LogOf(e)' = LogOf(e)
  BY Mapped DEF Rows
<1>2. \A d \in Calls : d # c => pc'[d] = pc[d]
  BY DEF IInv, TypeOK
<1>3. pc'[c] = "ok"
  BY DEF IInv, TypeOK
<1>4. OutcomeOf(c) = "open" /\ OutcomeOf(c)' = "ok"
  BY <1>3, Mapped DEF Told, Final
<1>5. \A d \in Calls : d # c => OutcomeOf(d)' = OutcomeOf(d)
  BY <1>2, Mapped
<1>6. [d \in Calls |-> OutcomeOf(d)'] = [[d \in Calls |-> OutcomeOf(d)] EXCEPT ![c] = "ok"]
  BY <1>4, <1>5
<1>7. Abstract!Succeed(c)
  BY <1>1, <1>4, <1>6, StoredIsLogged DEF Abstract!Succeed, Abstract!Logged
<1> QED
  BY <1>7 DEF Abstract!Next

\* Every step maps to a step of the log.
LEMMA StepMaps ==
    ASSUME IInv, [Next]_vars
    PROVE  Abstract!Next
<1> USE DEF Goto, durable
<1>1. ASSUME NEW c \in Calls, NEW l, store' = store, pc' = [pc EXCEPT ![c] = l],
             pc[c] \notin Final, l # "ok"
      PROVE  Abstract!Next
  <2>1. \A d \in Calls : d # c => pc'[d] = pc[d]
    BY <1>1 DEF IInv, TypeOK
  <2>2. pc'[c] = l
    BY <1>1 DEF IInv, TypeOK
  <2>3. Told(pc[c]) = "open" /\ Told(l) \in {"open", "error"}
    BY <1>1 DEF Told, Final
  <2> QED
    BY <1>1, <2>1, <2>2, <2>3, ErrorsGiveUp
<1>2. ASSUME NEW c \in Calls, Caller(c) PROVE Abstract!Next
  <2>1. PICK l : pc' = [pc EXCEPT ![c] = l] /\ l # "ok" /\ store' = store /\ pc[c] \notin Final
    BY <1>2 DEF Caller, Version, VersionRejected, WALAppend, WALAppendFails, Submit,
                SubmitRefused, SubmitPanics, Final
  <2> QED
    BY <1>1, <2>1
<1>3. ASSUME NEW c \in Calls, Take(c) PROVE Abstract!Next
  <2>1. pc[c] = "queued"
    BY <1>3, QueueHead DEF Take, IInv, TypeOK, QueueInv
  <2> QED
    BY <1>1, <1>3, <2>1 DEF Take, Final
<1>4. ASSUME NEW c \in Calls, BeforeWrite(c) \/ Fail(c) PROVE Abstract!Next
  <2>1. PICK l : pc' = [pc EXCEPT ![c] = l] /\ l # "ok" /\ store' = store /\ pc[c] \notin Final
    BY <1>4 DEF BeforeWrite, Fail, Final
  <2> QED
    BY <1>1, <2>1
<1>5. ASSUME NEW c \in Calls, Sequence(c) PROVE Abstract!Next
  <2>1. PICK l : pc' = [pc EXCEPT ![c] = l] /\ l \in {"seal", "diff"} /\ pc[c] = "sequence"
    BY <1>5, SequenceDoes DEF IInv
  <2> QED
    BY <1>1, <1>5, <2>1, StoreKept DEF Final
<1>6. ASSUME NEW c \in Calls, DiffPrevious(c) \/ DiffFallback(c) \/ Seal(c) \/ SealFails(c)
      PROVE  Abstract!Next
  <2>1. PICK l : pc' = [pc EXCEPT ![c] = l] /\ l # "ok" /\ store' = store /\ pc[c] \notin Final
    BY <1>6 DEF DiffPrevious, DiffFallback, Seal, SealFails, Final
  <2> QED
    BY <1>1, <2>1
<1>7. ASSUME NEW c \in Calls, Save(c) \/ SaveUnknown(c) PROVE Abstract!Next
  BY <1>7, SaveRecords
<1>8. ASSUME NEW c \in Calls, Notify(c) \/ Ack(c) \/ AckFails(c) PROVE Abstract!Next
  <2>1. PICK l : /\ pc' = [pc EXCEPT ![c] = l] /\ l \in {"ok", "ack"} /\ store' = store
                 /\ pc[c] \in {"notify", "ack"}
    BY <1>8 DEF Notify, Ack, AckFails
  <2>2. CASE l = "ok"
    BY <2>1, <2>2, SuccessIsLogged
  <2>3. CASE l = "ack"
    BY <1>1, <2>1, <2>3 DEF Final
  <2> QED
    BY <2>1, <2>2, <2>3
<1>9. CASE Shutdown \/ CloseWork \/ Recover \/ UNCHANGED vars
  <2>1. store' = store /\ pc' = pc
    BY <1>9 DEF Shutdown, CloseWork, Recover, vars
  <2> QED
    BY <2>1, ErrorsGiveUp
<1>10. CASE Crash
  <2>1. store' = store /\ \A c \in Calls : pc'[c] = pc[c] \/ (pc[c] \notin Final /\ pc'[c] = "lost")
    BY <1>10 DEF Crash
  <2>2. \A c \in Calls : pc[c] \notin Final /\ pc'[c] = "lost" =>
            Told(pc[c]) = "open" /\ Told(pc'[c]) = "error"
    BY DEF Told, Final
  <2> QED
    BY <2>1, <2>2, ErrorsGiveUp
<1> QED
  BY <1>2, <1>3, <1>4, <1>5, <1>6, <1>7, <1>8, <1>9, <1>10 DEF Next, Pipeline, Terminated

\* The pipeline of racing, failing and crashing calls implements the log that
\* AuditLog describes: it only ever grows at its end, by each call at most once,
\* and no caller is told of a success that is not in it (versionSync, audit.go).
THEOREM AuditorImplementsAuditLog == Spec => ImplementsAuditLog
<1>1. Init => Abstract!Init
  <2> SUFFICES ASSUME Init PROVE Abstract!Init
    OBVIOUS
  <2>1. ASSUME NEW e \in Entities PROVE LogOf(e) = <<>>
    <3>1. Rows(e) = {}
      BY DEF Init, Rows
    <3>2. {r.version : r \in Rows(e)} = {}
      BY <3>1
    <3>3. PICK f : f = LogOf(e) /\ f = [v \in {} |-> f[v]]
      BY <3>2 DEF LogOf
    <3>4. 1..0 = {}
      OBVIOUS
    <3>5. f \in [1..0 -> Calls]
      BY <3>3, <3>4
    <3>6. f \in Seq(Calls) /\ Len(f) = 0
      BY <3>5
    <3>7. f = <<>>
      BY <3>6
    <3> QED
      BY <3>3, <3>7
  <2>2. ASSUME NEW c \in Calls PROVE OutcomeOf(c) = "open"
    BY Mapped DEF Init, Told, Final
  <2> QED
    BY <2>1, <2>2 DEF Abstract!Init
<1>2. IInv /\ [Next]_vars => Abstract!Next
  BY StepMaps
<1> QED
  BY <1>1, <1>2, AuditorInductive, PTL DEF Spec, ImplementsAuditLog, Abstract!Spec

-----------------------------------------------------------------------------
(* The order of submission, with a single worker *)

\* Where a call is once Submit has accepted it.
Submitted == {"queued"} \cup Steps \cup Final

\* The last accepted call that has left the queue.
Started == Len(accepted) - Len(queue)

\* Each call is accepted once, as a background call.
AcceptedInv ==
    /\ accepted \in Seq(Calls)
    /\ \A i \in 1..Len(accepted) :
          /\ pc[accepted[i]] \in Submitted
          /\ req[accepted[i]] \in Requests /\ req[accepted[i]].mode = "background"
    /\ \A i, j \in 1..Len(accepted) : accepted[i] = accepted[j] => i = j

\* The queue holds the last accepted calls, in order.
SuffixInv ==
    /\ Len(queue) <= Len(accepted)
    /\ \A k \in 1..Len(queue) : queue[k] = accepted[Started + k]
    /\ \A i \in 1..Started : pc[accepted[i]] # "queued"

\* Of the accepted calls only the last one taken can be with the worker.
SerialInv ==
    /\ \A i \in 1..Len(accepted) : pc[accepted[i]] \in Steps => i = Started
    /\ \A c \in Busy : \E i \in 1..Len(accepted) : accepted[i] = c
    /\ \A c \in Calls : pc[c] \in {"append", "submit", "queued"} => req[c].mode = "background"

\* A row belongs to the entity its call asked for.
RowsAsked == \A r \in store : r.entity = req[r.id].entity

OrderInv == AcceptedInv /\ SuffixInv /\ SerialInv /\ RowsAsked

\* The history variable follows the queue.
Recorded ==
    accepted' = IF Len(queue') > Len(queue) THEN Append(accepted, queue'[Len(queue')])
                                            ELSE accepted

\* A step of one call that leaves the queue alone.
LEMMA PlainStep ==
    ASSUME TypeOK, AcceptedInv, SuffixInv, SerialInv, NEW c \in Calls, NEW l,
           pc' = [pc EXCEPT ![c] = l], queue' = queue, accepted' = accepted,
           pc[c] # "queued", l # "queued", pc[c] \in Submitted => l \in Steps \cup Final,
           \/ /\ req' = req /\ (l \in Steps => pc[c] \in Steps)
              /\ l \in {"append", "submit"} => pc[c] \in {"append", "submit"}
           \/ /\ pc[c] = "new" /\ \E q \in Requests : req' = [req EXCEPT ![c] = q]
              /\ l \in {"append", "submit"} => req'[c].mode = "background"
              /\ l \in Steps => req'[c].mode # "background"
    PROVE  AcceptedInv' /\ SuffixInv' /\ SerialInv'
<1> USE DEF Started
<1>1. \A d \in Calls : d # c => pc'[d] = pc[d] /\ req'[d] = req[d]
  BY DEF TypeOK
<1>2. pc'[c] = l /\ "new" \notin Submitted
  BY DEF TypeOK, Submitted, Steps, Final
<1>3. \A i \in 1..Len(accepted) : accepted[i] \in Calls
  BY DEF AcceptedInv
<1>4. AcceptedInv'
  <2>1. ASSUME NEW i \in 1..Len(accepted)
        PROVE  /\ pc'[accepted[i]] \in Submitted
               /\ req'[accepted[i]] \in Requests /\ req'[accepted[i]].mode = "background"
    <3>1. CASE accepted[i] = c
      <4>1. pc[c] \in Submitted
        BY <3>1 DEF AcceptedInv
      <4>2. req' = req /\ l \in Submitted
        BY <1>2, <4>1 DEF Submitted
      <4> QED
        BY <1>2, <3>1, <4>2 DEF AcceptedInv
    <3>2. CASE accepted[i] # c
      BY <1>1, <1>3, <3>2 DEF AcceptedInv
    <3> QED
      BY <3>1, <3>2
  <2> QED
    BY <2>1 DEF AcceptedInv
<1>5. SuffixInv'
  BY <1>1, <1>2, <1>3 DEF SuffixInv
<1>6. SerialInv'
  <2>1. ASSUME NEW i \in 1..Len(accepted), pc'[accepted[i]] \in Steps
        PROVE  i = Len(accepted) - Len(queue)
    <3>1. pc[accepted[i]] \in Submitted
      BY DEF AcceptedInv
    <3>2. pc[accepted[i]] \in Steps
      BY <1>1, <1>2, <1>3, <2>1, <3>1
    <3> QED
      BY <3>2 DEF SerialInv
  <2>2. ASSUME NEW d \in Busy' PROVE \E i \in 1..Len(accepted) : accepted[i] = d
    <3>1. d \in Calls /\ pc'[d] \in Steps /\ req'[d].mode = "background"
      BY <2>2 DEF Busy
    <3>2. d \in Busy
      BY <1>1, <1>2, <3>1 DEF Busy
    <3> QED
      BY <3>2 DEF SerialInv
  <2>3. ASSUME NEW d \in Calls, pc'[d] \in {"append", "submit", "queued"}
        PROVE  req'[d].mode = "background"
    BY <1>1, <1>2, <2>3 DEF SerialInv
  <2> QED
    BY <2>1, <2>2, <2>3 DEF SerialInv
<1> QED
  BY <1>4, <1>5, <1>6

\* Submit puts a call behind all accepted ones.
LEMMA SubmitOrder ==
    ASSUME TypeOK, QueueInv, AcceptedInv, SuffixInv, SerialInv, NEW c \in Calls, Submit(c), Recorded
    PROVE  AcceptedInv' /\ SuffixInv' /\ SerialInv'
<1>1. /\ pc[c] = "submit" /\ pc' = [pc EXCEPT ![c] = "queued"] /\ queue' = Append(queue, c) /\ req' = req
  BY DEF Submit, Goto
<1>2. /\ Len(queue) \in Nat /\ Len(queue') = Len(queue) + 1 /\ queue'[Len(queue) + 1] = c
      /\ \A k \in 1..Len(queue) : queue'[k] = queue[k]
  BY <1>1 DEF TypeOK
<1>3. accepted' = Append(accepted, c)
  BY <1>2 DEF Recorded
<1>4. /\ Len(accepted) \in Nat /\ Len(accepted') = Len(accepted) + 1
      /\ accepted' \in Seq(Calls) /\ accepted'[Len(accepted) + 1] = c
      /\ \A i \in 1..Len(accepted) : accepted'[i] = accepted[i] /\ accepted[i] \in Calls
  BY <1>3 DEF AcceptedInv
<1>5. \A i \in 1..Len(accepted) : accepted[i] # c
  BY <1>1 DEF AcceptedInv, Submitted, Steps, Final
<1>6. pc'[c] = "queued" /\ \A d \in Calls : d # c => pc'[d] = pc[d]
  BY <1>1 DEF TypeOK
<1>7. 1..Len(accepted') = 1..Len(accepted) \cup {Len(accepted) + 1}
  BY <1>4
<1>8. AcceptedInv'
  <2>1. req[c] \in Requests /\ req[c].mode = "background"
    BY <1>1 DEF TypeOK, SerialInv
  <2>2. ASSUME NEW i \in 1..Len(accepted')
        PROVE  /\ pc'[accepted'[i]] \in Submitted
               /\ req'[accepted'[i]] \in Requests /\ req'[accepted'[i]].mode = "background"
    <3>1. CASE i \in 1..Len(accepted)
      <4>1. PICK d \in Calls : d = accepted[i] /\ d # c /\ accepted'[i] = d
        BY <1>4, <1>5, <3>1
      <4>2. pc[d] \in Submitted /\ req[d] \in Requests /\ req[d].mode = "background"
        BY <3>1, <4>1 DEF AcceptedInv
      <4>3. pc'[d] = pc[d] /\ req'[d] = req[d]
        BY <1>1, <1>6, <4>1
      <4> QED
        BY <4>1, <4>2, <4>3
    <3>2. CASE i = Len(accepted) + 1
      BY <1>1, <1>4, <1>6, <2>1, <3>2 DEF Submitted
    <3> QED
      BY <1>7, <3>1, <3>2
  <2>3. \A i, j \in 1..Len(accepted') : accepted'[i] = accepted'[j] => i = j
    BY <1>4, <1>5, <1>7 DEF AcceptedInv
  <2> QED
    BY <1>4, <2>2, <2>3 DEF AcceptedInv
<1>9. Started' = Started /\ Started \in Nat /\ Started + Len(queue) = Len(accepted)
  BY <1>2, <1>4 DEF Started, SuffixInv
<1>10. SuffixInv'
  <2>1. ASSUME NEW k \in 1..Len(queue') PROVE queue'[k] = accepted'[Started + k]
    <3>1. CASE k \in 1..Len(queue)
      <4>1. Started + k \in 1..Len(accepted)
        BY <1>2, <1>9, <3>1
      <4> QED
        BY <1>2, <1>4, <3>1, <4>1 DEF SuffixInv
    <3>2. CASE k = Len(queue) + 1
      BY <1>2, <1>4, <1>9, <3>2
    <3> QED
      BY <1>2, <3>1, <3>2
  <2>2. ASSUME NEW i \in 1..Started PROVE pc'[accepted'[i]] # "queued"
    <3>1. i \in 1..Len(accepted)
      BY <1>2, <1>9
    <3> QED
      BY <1>4, <1>5, <1>6, <3>1 DEF SuffixInv
  <2>3. Len(queue') <= Len(accepted')
    BY <1>2, <1>4 DEF SuffixInv
  <2> QED
    BY <1>9, <2>1, <2>2, <2>3 DEF SuffixInv
<1>11. SerialInv'
  <2>1. ASSUME NEW i \in 1..Len(accepted'), pc'[accepted'[i]] \in Steps PROVE i = Started
    <3>1. i \in 1..Len(accepted)
      BY <1>4, <1>6, <1>7, <2>1 DEF Steps
    <3> QED
      BY <1>4, <1>5, <1>6, <2>1, <3>1 DEF SerialInv
  <2>2. ASSUME NEW d \in Busy' PROVE \E i \in 1..Len(accepted') : accepted'[i] = d
    <3>1. d \in Busy
      BY <1>1, <1>6 DEF Busy, Steps
    <3>2. PICK i \in 1..Len(accepted) : accepted[i] = d
      BY <3>1 DEF SerialInv
    <3> QED
      BY <1>4, <1>7, <3>2
  <2>3. ASSUME NEW d \in Calls, pc'[d] \in {"append", "submit", "queued"}
        PROVE  req'[d].mode = "background"
    BY <1>1, <1>6, <2>3 DEF SerialInv
  <2> QED
    BY <1>9, <2>1, <2>2, <2>3 DEF SerialInv
<1> QED
  BY <1>8, <1>10, <1>11

\* The worker takes the oldest queued call once it is done with the last one.
LEMMA TakeOrder ==
    ASSUME NumWorkers = 1, TypeOK, QueueInv, AcceptedInv, SuffixInv, SerialInv,
           NEW c \in Calls, Take(c), Recorded
    PROVE  AcceptedInv' /\ SuffixInv' /\ SerialInv'
<1>1. /\ Cardinality(Busy) < 1 /\ queue # <<>> /\ c = Head(queue) /\ queue' = Tail(queue)
      /\ pc' = [pc EXCEPT ![c] = "hook"] /\ req' = req
  BY DEF Take, Goto
<1>2. /\ Len(queue) \in Nat /\ Len(queue) >= 1 /\ c = queue[1] /\ Len(queue') = Len(queue) - 1
      /\ \A k \in 1..Len(queue') : k + 1 \in 1..Len(queue) /\ queue'[k] = queue[k + 1]
  BY <1>1, QueueHead DEF TypeOK
<1>3. accepted' = accepted
  BY <1>2 DEF Recorded
<1>4. /\ Len(accepted) \in Nat /\ Started \in Nat /\ Started' = Started + 1
      /\ Started + 1 <= Len(accepted) /\ accepted[Started + 1] = c
      /\ Started + Len(queue) = Len(accepted)
  BY <1>2, <1>3 DEF Started, SuffixInv, AcceptedInv
<1>5. pc'[c] = "hook" /\ \A d \in Calls : d # c => pc'[d] = pc[d]
  BY <1>1 DEF TypeOK
<1>6. \A i \in 1..Len(accepted) : accepted[i] \in Calls /\ (accepted[i] = c => i = Started + 1)
  BY <1>4 DEF AcceptedInv
<1>7. Busy = {}
  <2>1. SUFFICES ASSUME NEW d \in Busy PROVE FALSE
    OBVIOUS
  <2>2. \A x \in Busy : x = d
    <3>1. ASSUME NEW x \in Busy PROVE x = accepted[Started]
      <4>1. PICK i \in 1..Len(accepted) : accepted[i] = x
        BY DEF SerialInv
      <4>2. i = Started
        BY <4>1 DEF SerialInv, Busy
      <4> QED
        BY <4>1, <4>2
    <3> QED
      BY <2>1, <3>1
  <2>3. Busy = {d}
    BY <2>1, <2>2
  <2>4. Cardinality(Busy) = 1
    BY <2>3, FS_Singleton
  <2> QED
    BY <1>1, <2>4
<1>8. AcceptedInv'
  BY <1>1, <1>3, <1>5 DEF AcceptedInv, Submitted, Steps
<1>9. SuffixInv'
  <2>1. ASSUME NEW k \in 1..Len(queue') PROVE queue'[k] = accepted[(Started + 1) + k]
    <3>1. k + 1 \in 1..Len(queue) /\ queue'[k] = queue[k + 1]
      BY <1>2
    <3>2. queue[k + 1] = accepted[Started + (k + 1)]
      BY <3>1 DEF SuffixInv
    <3>3. Started + (k + 1) = (Started + 1) + k
      BY <1>2, <1>4
    <3> QED
      BY <3>1, <3>2, <3>3
  <2>2. ASSUME NEW i \in 1..(Started + 1) PROVE pc'[accepted[i]] # "queued"
    <3>1. i \in 1..Len(accepted) /\ (i = Started + 1 \/ i \in 1..Started)
      BY <1>4
    <3> QED
      BY <1>4, <1>5, <1>6, <3>1 DEF SuffixInv
  <2>3. Len(queue') <= Len(accepted)
    BY <1>2, <1>4
  <2> QED
    BY <1>3, <1>4, <2>1, <2>2, <2>3 DEF SuffixInv
<1>10. SerialInv'
  <2>1. ASSUME NEW i \in 1..Len(accepted), pc'[accepted[i]] \in Steps PROVE i = Started + 1
    <3>1. SUFFICES ASSUME accepted[i] # c PROVE FALSE
      BY <1>6
    <3>2. accepted[i] \in Busy
      BY <1>5, <1>6, <2>1, <3>1 DEF Busy, AcceptedInv
    <3> QED
      BY <1>7, <3>2
  <2>2. ASSUME NEW d \in Busy' PROVE \E i \in 1..Len(accepted) : accepted[i] = d
    <3>1. d = c
      BY <1>1, <1>5, <1>7 DEF Busy
    <3>2. Started + 1 \in 1..Len(accepted)
      BY <1>4
    <3> QED
      BY <1>4, <3>1, <3>2
  <2>3. ASSUME NEW d \in Calls, pc'[d] \in {"append", "submit", "queued"}
        PROVE  req'[d].mode = "background"
    BY <1>1, <1>5, <2>3 DEF SerialInv
  <2> QED
    BY <1>3, <1>4, <2>1, <2>2, <2>3 DEF SerialInv
<1> QED
  BY <1>8, <1>9, <1>10

\* A crash empties the queue and stops the worker.
LEMMA CrashOrder ==
    ASSUME TypeOK, AcceptedInv, SuffixInv, SerialInv, Crash, Recorded
    PROVE  AcceptedInv' /\ SuffixInv' /\ SerialInv'
<1>1. /\ queue' = <<>> /\ req' = req
      /\ \A c \in Calls : pc'[c] = IF pc[c] \in Final \cup {"new"} THEN pc[c] ELSE "lost"
  BY DEF Crash
<1>2. Len(queue') = 0 /\ Len(queue) \in Nat
  BY <1>1 DEF TypeOK
<1>3. accepted' = accepted
  BY <1>2 DEF Recorded
<1>4. \A c \in Calls : pc'[c] \in Final \cup {"new"}
  BY <1>1 DEF Final
<1>5. \A c \in Calls : pc'[c] \notin Steps /\ pc'[c] \notin {"append", "submit", "queued"}
  BY <1>4 DEF Final, Steps
<1>6. \A i \in 1..Len(accepted) : accepted[i] \in Calls
  BY DEF AcceptedInv
<1>7. \A i \in 1..Len(accepted) : pc'[accepted[i]] \in Submitted
  BY <1>1, <1>6 DEF AcceptedInv, Submitted, Final, Steps
<1>8. AcceptedInv'
  BY <1>1, <1>3, <1>7 DEF AcceptedInv
<1>9. Len(accepted) \in Nat /\ Started' = Len(accepted)
  BY <1>2, <1>3 DEF AcceptedInv, Started
<1>10. SuffixInv'
  BY <1>2, <1>3, <1>5, <1>6, <1>9 DEF SuffixInv
<1>11. SerialInv'
  BY <1>3, <1>5, <1>6 DEF SerialInv, Busy
<1> QED
  BY <1>8, <1>10, <1>11

\* Every step keeps the queue in the order of acceptance and the worker serial.
LEMMA SerialStep ==
    ASSUME NumWorkers = 1, TypeOK, QueueInv, AcceptedInv, SuffixInv, SerialInv,
           [Next]_vars, Recorded
    PROVE  AcceptedInv' /\ SuffixInv' /\ SerialInv'
<1> USE DEF Goto, pool
<1> DEFINE Goal == AcceptedInv' /\ SuffixInv' /\ SerialInv'
<1>1. queue' = queue => accepted' = accepted
  BY DEF Recorded, TypeOK
<1>2. ASSUME NEW c \in Calls, Version(c) PROVE Goal
  <2>1. PICK q \in Requests :
            /\ req' = [req EXCEPT ![c] = q]
            /\ \/ q.mode = "sync" /\ pc' = [pc EXCEPT ![c] = "hook"]
               \/ q.mode # "sync" /\ pc' = [pc EXCEPT ![c] = "append"]
               \/ q.mode # "sync" /\ pc' = [pc EXCEPT ![c] = "submit"]
    BY <1>2 DEF Version
  <2>2. pc[c] = "new" /\ queue' = queue
    BY <1>2 DEF Version
  <2>3. req'[c] = q
    BY <2>1 DEF TypeOK
  <2>4. q.mode \in {"background", "sync"}
    BY OptionsAssumption DEF Requests
  <2>5. "new" \notin Submitted /\ "hook" \in Steps
        /\ "append" \notin Steps /\ "submit" \notin Steps
    BY DEF Submitted, Steps, Final
  <2>6. CASE q.mode = "sync"
    BY <1>1, <2>1, <2>2, <2>3, <2>5, <2>6, PlainStep
  <2>7. CASE q.mode # "sync"
    BY <1>1, <2>1, <2>2, <2>3, <2>4, <2>5, <2>7, PlainStep
  <2> QED
    BY <2>6, <2>7
<1>3. ASSUME NEW c \in Calls, VersionRejected(c) \/ WALAppend(c) \/ WALAppendFails(c)
                              \/ SubmitRefused(c) \/ SubmitPanics(c)
      PROVE  Goal
  <2>1. PICK l : /\ pc' = [pc EXCEPT ![c] = l] /\ l \in {"failed", "submit", "refused", "panicked"}
                 /\ pc[c] \in {"new", "append", "submit"} /\ (l = "submit" => pc[c] = "append")
                 /\ queue' = queue /\ req' = req
    BY <1>3 DEF VersionRejected, WALAppend, WALAppendFails, SubmitRefused, SubmitPanics
  <2>2. pc[c] \notin Submitted /\ l \notin Steps
    BY <2>1 DEF Submitted, Steps, Final
  <2> QED
    BY <1>1, <2>1, <2>2, PlainStep
<1>4. ASSUME NEW c \in Calls, Submit(c) PROVE Goal
  BY <1>4, SubmitOrder
<1>5. ASSUME NEW c \in Calls, Take(c) PROVE Goal
  BY <1>5, TakeOrder
<1>6. ASSUME NEW c \in Calls, NEW l, pc' = [pc EXCEPT ![c] = l], l \in Steps \cup Final,
             pc[c] \in Steps, queue' = queue, req' = req
      PROVE  Goal
  <2>1. l \notin {"append", "submit", "queued"} /\ pc[c] # "queued"
    BY <1>6 DEF Steps, Final
  <2> QED
    BY <1>1, <1>6, <2>1, PlainStep
<1>7. ASSUME NEW c \in Calls, BeforeWrite(c) \/ Fail(c) PROVE Goal
  <2>1. PICK l : /\ pc' = [pc EXCEPT ![c] = l] /\ l \in Steps \cup Final /\ pc[c] \in Steps
                 /\ queue' = queue /\ req' = req
    BY <1>7 DEF BeforeWrite, Fail, Steps, Final
  <2> QED
    BY <1>6, <2>1
<1>8. ASSUME NEW c \in Calls, Sequence(c) PROVE Goal
  <2>1. PICK l : pc' = [pc EXCEPT ![c] = l] /\ l \in {"seal", "diff"} /\ pc[c] = "sequence"
    BY <1>8, SequenceDoes
  <2>2. queue' = queue /\ req' = req
    BY <1>8 DEF Sequence
  <2> QED
    BY <1>6, <2>1, <2>2 DEF Steps
<1>9. ASSUME NEW c \in Calls, DiffPrevious(c) \/ DiffFallback(c) \/ Seal(c) \/ SealFails(c)
      PROVE  Goal
  <2>1. PICK l : /\ pc' = [pc EXCEPT ![c] = l] /\ l \in Steps \cup Final /\ pc[c] \in Steps
                 /\ queue' = queue /\ req' = req
    BY <1>9 DEF DiffPrevious, DiffFallback, Seal, SealFails, Steps
  <2> QED
    BY <1>6, <2>1
<1>10. ASSUME NEW c \in Calls, Save(c) \/ SaveUnknown(c) \/ Notify(c) \/ Ack(c) \/ AckFails(c)
       PROVE  Goal
  <2>1. PICK l : /\ pc' = [pc EXCEPT ![c] = l] /\ l \in Steps \cup Final /\ pc[c] \in Steps
                 /\ queue' = queue /\ req' = req
    BY <1>10 DEF Save, SaveUnknown, Notify, Ack, AckFails, Steps, Final
  <2> QED
    BY <1>6, <2>1
<1>11. CASE Shutdown \/ CloseWork \/ Recover \/ UNCHANGED vars
  <2>1. UNCHANGED <<queue, pc, req>>
    BY <1>11 DEF Shutdown, CloseWork, Recover, vars
  <2> QED
    BY <1>1, <2>1 DEF AcceptedInv, SuffixInv, SerialInv, Started, Busy
<1>12. CASE Crash
  BY <1>12, CrashOrder
<1> QED
  BY <1>2, <1>3, <1>4, <1>5, <1>7, <1>8, <1>9, <1>10, <1>11, <1>12
  DEF Next, Caller, Pipeline, Terminated

\* What is stored stays stored and keeps its record and its request; what a step
\* stores is above all rows of its entity.
LEMMA StoredKept ==
    ASSUME IInv, [Next]_vars, NEW c \in Calls
    PROVE  /\ Stored(c) => Stored(c)' /\ rec'[c] = rec[c] /\ req'[c] = req[c]
           /\ ~Stored(c) /\ Stored(c)' =>
                 /\ pc[c] = "save" /\ rec' = rec /\ req' = req
                 /\ store' = store \cup {Row(rec[c])}
                 /\ \A r \in Rows(rec[c].entity) : r.version < rec[c].version
<1> USE DEF Past
<1>1. Stored(c) => pc[c] \in Past
  BY DEF IInv, RowsFrozen, Stored
<1>2. CASE Quiet
  BY <1>2 DEF Quiet, Stored
<1>3. ASSUME NEW d \in Calls, pc[d] \notin Past, store' = store,
             \E t : rec' = [rec EXCEPT ![d] = t], \E q : req' = [req EXCEPT ![d] = q]
      PROVE  /\ Stored(c) => Stored(c)' /\ rec'[c] = rec[c] /\ req'[c] = req[c]
             /\ Stored(c)' => Stored(c)
  <2>1. Stored(c)' <=> Stored(c)
    BY <1>3 DEF Stored
  <2>2. Stored(c) => c # d
    BY <1>1, <1>3
  <2>3. c # d => rec'[c] = rec[c] /\ req'[c] = req[c]
    BY <1>3 DEF IInv, TypeOK
  <2> QED
    BY <2>1, <2>2, <2>3
<1>4. ASSUME NEW d \in Calls, Version(d)
      PROVE  /\ Stored(c) => Stored(c)' /\ rec'[c] = rec[c] /\ req'[c] = req[c]
             /\ Stored(c)' => Stored(c)
  <2>1. (\E t : rec' = [rec EXCEPT ![d] = t]) /\ (\E q : req' = [req EXCEPT ![d] = q]) /\ pc[d] = "new"
    BY <1>4 DEF Version
  <2> QED
    BY <1>3, <1>4, <2>1, StoreKept
<1>5. ASSUME NEW d \in Calls, \/ Sequence(d) \/ DiffPrevious(d) \/ DiffFallback(d)
                              \/ Seal(d) \/ SealFails(d)
      PROVE  /\ Stored(c) => Stored(c)' /\ rec'[c] = rec[c] /\ req'[c] = req[c]
             /\ Stored(c)' => Stored(c)
  <2>1. PICK t : rec' = [rec EXCEPT ![d] = t] /\ pc[d] \in {"sequence", "diff", "seal"}
    BY <1>5, SequenceDoes, DiffDoes, SealDoes DEF IInv
  <2>2. req' = [req EXCEPT ![d] = req[d]]
    BY <1>5 DEF Sequence, DiffPrevious, DiffFallback, Seal, SealFails, IInv, TypeOK
  <2> QED
    BY <1>3, <1>5, <2>1, <2>2, StoreKept
<1>6. ASSUME NEW d \in Calls, Save(d) \/ SaveUnknown(d)
      PROVE  /\ Stored(c) => Stored(c)' /\ rec'[c] = rec[c] /\ req'[c] = req[c]
             /\ ~Stored(c) /\ Stored(c)' =>
                   /\ pc[c] = "save" /\ rec' = rec /\ req' = req
                   /\ store' = store \cup {Row(rec[c])}
                   /\ \A r \in Rows(rec[c].entity) : r.version < rec[c].version
  <2>1. PICK t : /\ t = Row(rec[d]) /\ store' = store \cup {t} /\ rec' = rec /\ req' = req
                 /\ ByVersion(t.entity, t.version) = {} /\ pc[d] = "save" /\ IsRecord(t)
                 /\ t.id = rec[d].id /\ t.entity = rec[d].entity /\ t.version = rec[d].version
    BY <1>6, SaveDoes DEF IInv
  <2>2. t.id = d /\ t.version \in Nat /\ t.version >= 1
    BY <2>1 DEF IInv, RecordsOwned, Founded, IsRecord
  <2>3. \A r \in Rows(rec[d].entity) : r.version < rec[d].version
    BY <2>1, <2>2, NoRowAbove DEF IInv
  <2>4. ~Stored(c) /\ Stored(c)' => c = d
    BY <2>1, <2>2 DEF Stored
  <2>5. Stored(c) => Stored(c)'
    BY <2>1 DEF Stored
  <2> QED
    BY <2>1, <2>3, <2>4, <2>5
<1> QED
  BY <1>2, <1>4, <1>5, <1>6, StepKinds DEF IInv

\* A stored row has the version of its record and the entity that was asked for.
LEMMA RowOfStored ==
    ASSUME IInv, RowsAsked, NEW c \in Calls, Stored(c)
    PROVE  /\ pc[c] \in Past
           /\ \E r \in Rows(req[c].entity) : r.version = rec[c].version
<1>1. PICK r \in store : r.id = c
  BY DEF Stored
<1>2. r = Row(rec[c]) /\ IsRecord(rec[c]) /\ pc[c] \in Past
  BY <1>1 DEF IInv, RowsFrozen, Past
<1>3. r.version = rec[c].version
  BY <1>2, RowFields
<1>4. r \in Rows(req[c].entity)
  BY <1>1 DEF RowsAsked, Rows
<1> QED
  BY <1>2, <1>3, <1>4

\* No step stores a row under an entity its call did not ask for.
LEMMA AskedStep ==
    ASSUME IInv, RowsAsked, [Next]_vars
    PROVE  RowsAsked'
<1>1. ASSUME NEW r \in store' PROVE r.entity = req'[r.id].entity
  <2>1. r.id \in Calls
    BY TypeStep DEF IInv, TypeOK, IsRecord
  <2>2. CASE r \in store
    <3>1. Stored(r.id)
      BY <2>2 DEF Stored
    <3> QED
      BY <2>1, <2>2, <3>1, StoredKept DEF RowsAsked
  <2>3. CASE r \notin store
    <3>1. PICK c \in Calls : Save(c) \/ SaveUnknown(c)
      BY <2>3, StepKinds, StoreKept DEF Quiet, IInv
    <3>2. PICK t : /\ store' = store \cup {t} /\ req' = req /\ pc[c] = "save"
                   /\ t.id = rec[c].id /\ t.entity = rec[c].entity
      BY <3>1, SaveDoes DEF IInv
    <3>3. r = t /\ t.id = c /\ t.entity = req[c].entity
      BY <2>3, <3>2 DEF IInv, RecordsOwned
    <3> QED
      BY <3>2, <3>3
  <2> QED
    BY <2>2, <2>3
<1> QED
  BY <1>1 DEF RowsAsked

\* Only Submit makes the queue longer.
LEMMA OnlySubmitGrows ==
    ASSUME TypeOK, [Next]_vars, Len(queue') > Len(queue)
    PROVE  \E x \in Calls : Submit(x)
<1>1. Len(queue) \in Nat /\ queue' # queue
  BY DEF TypeOK
<1>2. ~Crash
  BY DEF Crash, TypeOK
<1>3. ASSUME NEW c \in Calls, Take(c) PROVE FALSE
  BY <1>3, QueueHead DEF Take, TypeOK
<1> QED
  BY <1>1, <1>2, <1>3 DEF Next, Caller, Pipeline, Shutdown, CloseWork, Recover, Terminated, vars, pool, Version,
     VersionRejected, WALAppend, WALAppendFails, SubmitRefused, SubmitPanics, BeforeWrite, Sequence,
     DiffPrevious, DiffFallback, Seal, SealFails, Save, SaveUnknown, Fail, Notify, Ack, AckFails

\* A call that the worker stores is behind all accepted calls that are stored.
LEMMA OrderStep ==
    ASSUME NumWorkers = 1, IInv, OrderInv, SubmissionOrder, [Next]_vars, Recorded, OrderInv'
    PROVE  SubmissionOrder'
<1> SUFFICES ASSUME NEW i \in 1..Len(accepted'), NEW j \in 1..Len(accepted'), i < j,
                    NEW c, c = accepted'[i], NEW d, d = accepted'[j],
                    Stored(c)', Stored(d)', req'[c].entity = req'[d].entity
             PROVE  rec'[c].version < rec'[d].version
  BY DEF SubmissionOrder
<1>1. c \in Calls /\ d \in Calls /\ c # d
  BY DEF OrderInv, AcceptedInv
<1>2. /\ Len(accepted) \in Nat
      /\ \/ accepted' = accepted
         \/ Len(queue') > Len(queue) /\ accepted' = Append(accepted, queue'[Len(queue')])
  BY DEF Recorded, OrderInv, AcceptedInv
<1>3. i \in 1..Len(accepted) /\ j \in 1..Len(accepted) /\ c = accepted[i] /\ d = accepted[j]
  <2>1. CASE accepted' = accepted
    BY <2>1
  <2>2. CASE accepted' # accepted
    <3>1. PICK x \in Calls : Submit(x) /\ accepted' = Append(accepted, x)
      <4>1. Len(queue') > Len(queue) /\ accepted' = Append(accepted, queue'[Len(queue')])
        BY <1>2, <2>2
      <4>2. PICK x \in Calls : Submit(x)
        BY <4>1, OnlySubmitGrows DEF IInv
      <4>3. queue'[Len(queue')] = x
        BY <4>2 DEF Submit, IInv, TypeOK
      <4> QED
        BY <4>1, <4>2, <4>3
    <3>2. pc[x] = "submit" /\ store' = store
      BY <3>1 DEF Submit, durable
    <3>3. ~Stored(x)'
      BY <3>2 DEF IInv, RowsFrozen, Stored
    <3>4. /\ Len(accepted') = Len(accepted) + 1 /\ accepted'[Len(accepted) + 1] = x
          /\ \A k \in 1..Len(accepted) : accepted'[k] = accepted[k]
      BY <3>1 DEF OrderInv, AcceptedInv
    <3>5. i # Len(accepted) + 1 /\ j # Len(accepted) + 1
      BY <3>3, <3>4
    <3>6. i \in 1..Len(accepted) /\ j \in 1..Len(accepted)
      BY <1>2, <3>4, <3>5
    <3> QED
      BY <3>4, <3>6
  <2> QED
    BY <2>1, <2>2
<1>4. CASE Stored(c) /\ Stored(d)
  <2>1. rec'[c] = rec[c] /\ rec'[d] = rec[d] /\ req'[c] = req[c] /\ req'[d] = req[d]
    BY <1>1, <1>4, StoredKept
  <2> QED
    BY <1>3, <1>4, <2>1 DEF SubmissionOrder
<1>5. CASE Stored(c) /\ ~Stored(d)
  <2>1. /\ pc[d] = "save" /\ rec' = rec /\ req' = req
        /\ \A r \in Rows(rec[d].entity) : r.version < rec[d].version
    BY <1>1, <1>5, StoredKept
  <2>2. rec[d].entity = req[d].entity
    BY <1>1, <2>1 DEF IInv, RecordsOwned
  <2>3. PICK r \in Rows(req[c].entity) : r.version = rec[c].version
    BY <1>1, <1>5, RowOfStored DEF OrderInv
  <2> QED
    BY <2>1, <2>2, <2>3
<1>6. CASE ~Stored(c) /\ Stored(d)
  <2>1. pc[c] = "save"
    BY <1>1, <1>6, StoredKept
  <2>2. i = Started
    BY <1>3, <2>1 DEF OrderInv, SerialInv, Steps
  <2>3. pc[d] = "queued"
    <3>1. Len(queue) \in Nat /\ Started = Len(accepted) - Len(queue)
      BY DEF Started, IInv, TypeOK
    <3>2. j - Started \in 1..Len(queue) /\ Started + (j - Started) = j
      BY <1>2, <1>3, <2>2, <3>1
    <3>3. queue[j - Started] = d
      BY <1>3, <3>2 DEF OrderInv, SuffixInv
    <3> QED
      BY <3>2, <3>3 DEF IInv, QueueInv
  <2> QED
    BY <1>1, <1>6, <2>3, RowOfStored DEF OrderInv, Past
<1>7. CASE ~Stored(c) /\ ~Stored(d)
  <2>1. pc[c] = "save" /\ IsRecord(rec[c]) /\ rec[c].id = c /\ store' = store \cup {Row(rec[c])}
    BY <1>1, <1>7, StoredKept DEF IInv, TypeOK, RecordsOwned
  <2>2. Row(rec[c]).id = c
    BY <2>1, RowFields
  <2> QED
    BY <1>1, <1>7, <2>1, <2>2 DEF Stored
<1> QED
  BY <1>4, <1>5, <1>6, <1>7

\* Calls that one worker processes get the versions of their entity in the order
\* in which Submit accepted them, also after crashes (pool.go, audit.go).
THEOREM AuditorSubmissionOrder == HSpec => []SubmissionOrder
<1> DEFINE J == NumWorkers = 1 => OrderInv /\ SubmissionOrder
<1>1. HInit => J
  <2>1. HInit => AcceptedInv /\ SuffixInv /\ SerialInv
    BY DEF HInit, Init, AcceptedInv, SuffixInv, SerialInv, Started, Busy, Steps
  <2>2. HInit => RowsAsked /\ SubmissionOrder
    BY DEF HInit, Init, RowsAsked, SubmissionOrder
  <2> QED
    BY <2>1, <2>2 DEF OrderInv
<1>2. [HNext]_<<vars, accepted>> => [Next]_vars /\ Recorded
  BY DEF HNext, Recorded, vars
<1>3. IInv /\ J /\ [HNext]_<<vars, accepted>> => J'
  <2> SUFFICES ASSUME NumWorkers = 1, IInv, OrderInv, SubmissionOrder, [Next]_vars, Recorded
               PROVE  OrderInv' /\ SubmissionOrder'
    BY <1>2
  <2>1. OrderInv'
    BY SerialStep, AskedStep DEF OrderInv, IInv
  <2> QED
    BY <2>1, OrderStep
<1>4. J => SubmissionOrder
  BY DEF SubmissionOrder
<1>5. HSpec => Spec
  BY <1>2, PTL DEF HSpec, HInit, Spec
<1> QED
  BY <1>1, <1>3, <1>4, <1>5, AuditorInductive, PTL DEF HSpec

-----------------------------------------------------------------------------
(* The pool inside Auditor is WorkQueue *)

\* Where a call at a label is for the pool, given its mode.
Where(l, mode) ==
    IF l = "queued" THEN "queued"
    ELSE IF l \in Steps /\ mode = "background" THEN "running"
    ELSE IF l \in {"refused", "panicked"} THEN l
    ELSE IF l \in {"ok", "failed", "lost"} THEN "ended"
    ELSE "outside"

\* What is on its way to the pool, or in its queue, is a background call.
PoolBound ==
    \A c \in Calls : pc[c] \in {"append", "submit", "queued"} => req[c].mode = "background"

\* The mapping depends on the label and the mode of the call alone.
LEMMA PlaceIsWhere ==
    ASSUME NEW c \in Calls
    PROVE  /\ PlaceOf(c) = Where(pc[c], req[c].mode)
           /\ PlaceOf(c)' = Where(pc'[c], req'[c].mode)
BY DEF PlaceOf, Where, Busy, Steps

\* The calls of WorkQueue that run are those a worker is busy with, and it
\* counts them as Auditor does.
LEMMA RunningIsBusy == Queue!Cardinality(Queue!Running) = Cardinality(Busy)
<1>1. Queue!Running = Busy
  BY PlaceIsWhere DEF Queue!Running, Where, Busy, Steps
<1>2. ASSUME NEW S PROVE Queue!Cardinality(S) = Cardinality(S)
  BY DEF Queue!Cardinality, Cardinality
<1> QED
  BY <1>1, <1>2

\* One call goes on to a label while the arguments of the others stay.
LEMMA GotoMoves ==
    ASSUME TypeOK, NEW c \in Calls, NEW l, pc' = [pc EXCEPT ![c] = l],
           \A d \in Calls : d # c => req'[d] = req[d],
           NEW to, to = Where(l, req'[c].mode)
    PROVE  Queue!Move(c, to)
<1>1. PlaceOf(c)' = to
  BY PlaceIsWhere DEF TypeOK
<1>2. ASSUME NEW d \in Calls, d # c PROVE PlaceOf(d)' = PlaceOf(d)
  <2>1. pc'[d] = pc[d] /\ req'[d] = req[d]
    BY <1>2 DEF TypeOK
  <2> QED
    BY <2>1, PlaceIsWhere
<1> QED
  BY <1>1, <1>2 DEF Queue!Move

\* What a step of the pool leaves alone.
NotPool == <<store, wal, clock, req, rec, walID, notified, recovered, crashes>>

\* Submit is acceptance by the queue, and nothing else.
LEMMA SubmitIsAccept ==
    ASSUME IInv, PoolBound, NEW c \in Calls
    PROVE  Submit(c) <=> /\ pc[c] = "submit" /\ Goto(c, "queued")
                         /\ Queue!Accept(c) /\ UNCHANGED NotPool
<1> SUFFICES ASSUME pc[c] = "submit", Goto(c, "queued"), UNCHANGED NotPool
             PROVE  Submit(c) <=> Queue!Accept(c)
  BY DEF Submit, NotPool, durable, process
<1>1. PlaceOf(c) = "outside"
  BY PlaceIsWhere DEF Where, Steps
<1>2. Queue!Move(c, "queued")
  BY GotoMoves DEF Goto, NotPool, IInv, Where
<1> QED
  BY <1>1, <1>2 DEF Submit, Queue!Accept, NotPool, durable, process

\* A call is refused when the queue refuses it.
LEMMA RefusedIsRefuse ==
    ASSUME IInv, PoolBound, NEW c \in Calls
    PROVE  SubmitRefused(c) <=> /\ pc[c] = "submit" /\ Goto(c, "refused")
                                /\ Queue!Refuse(c) /\ UNCHANGED NotPool
<1> SUFFICES ASSUME pc[c] = "submit", Goto(c, "refused"), UNCHANGED NotPool
             PROVE  SubmitRefused(c) <=> Queue!Refuse(c)
  BY DEF SubmitRefused, NotPool, durable, process
<1>1. PlaceOf(c) = "outside"
  BY PlaceIsWhere DEF Where, Steps
<1>2. Queue!Move(c, "refused")
  BY GotoMoves DEF Goto, NotPool, IInv, Where, Steps
<1> QED
  BY <1>1, <1>2 DEF SubmitRefused, Queue!Refuse, NotPool, durable, process, pool

\* A call panics when it meets the closed queue.
LEMMA PanicsIsPanic ==
    ASSUME IInv, PoolBound, NEW c \in Calls
    PROVE  SubmitPanics(c) <=> /\ pc[c] = "submit" /\ Goto(c, "panicked")
                               /\ Queue!Panic(c) /\ UNCHANGED NotPool
<1> SUFFICES ASSUME pc[c] = "submit", Goto(c, "panicked"), UNCHANGED NotPool
             PROVE  SubmitPanics(c) <=> Queue!Panic(c)
  BY DEF SubmitPanics, NotPool, durable, process
<1>1. PlaceOf(c) = "outside"
  BY PlaceIsWhere DEF Where, Steps
<1>2. Queue!Move(c, "panicked")
  BY GotoMoves DEF Goto, NotPool, IInv, Where, Steps
<1> QED
  BY <1>1, <1>2 DEF SubmitPanics, Queue!Panic, NotPool, durable, process, pool

\* A worker takes what the queue hands out.
LEMMA TakeIsTake ==
    ASSUME IInv, PoolBound, NEW c \in Calls
    PROVE  Take(c) <=> Goto(c, "hook") /\ Queue!Take(c) /\ UNCHANGED NotPool
<1> SUFFICES ASSUME Goto(c, "hook"), UNCHANGED NotPool
             PROVE  Take(c) <=> Queue!Take(c)
  BY DEF Take, NotPool, durable, process
<1>1. ASSUME queue # <<>>, c = Head(queue)
      PROVE  pc[c] = "queued" /\ req[c].mode = "background"
  <2>1. pc[c] = "queued"
    BY <1>1, QueueHead DEF IInv, TypeOK, QueueInv
  <2> QED
    BY <2>1 DEF PoolBound
<1>2. ASSUME queue # <<>>, c = Head(queue)
      PROVE  PlaceOf(c) = "queued" /\ Queue!Move(c, "running")
  <2>1. PlaceOf(c) = "queued"
    BY <1>1, <1>2, PlaceIsWhere DEF Where
  <2>2. Queue!Move(c, "running")
    BY <1>1, <1>2, GotoMoves DEF Goto, NotPool, IInv, Where, Steps
  <2> QED
    BY <2>1, <2>2
<1> QED
  BY <1>2, RunningIsBusy DEF Take, Queue!Take, NotPool, durable, process

\* The two steps of Pool.Shutdown are those of the queue.
LEMMA ShutdownIsStop ==
    /\ Shutdown <=> Queue!Stop /\ UNCHANGED NotPool /\ UNCHANGED pc
    /\ CloseWork <=> Queue!Close /\ UNCHANGED NotPool /\ UNCHANGED pc
<1>1. UNCHANGED <<pc, req>> => UNCHANGED [c \in Calls |-> PlaceOf(c)]
  BY PlaceIsWhere
<1>2. UNCHANGED NotPool => UNCHANGED req
  BY DEF NotPool
<1> QED
  BY <1>1, <1>2 DEF Shutdown, CloseWork, Queue!Stop, Queue!Close, NotPool, durable, process

\* What happens between the pipeline and the pool is exactly what WorkQueue
\* says, in every reachable state (IInv and PoolBound are invariants): whatever
\* the queue may do with a call that submits, with the call at its head or when
\* it shuts down is a step of Auditor, and Auditor has no other such steps.
\* Auditor therefore leaves out nothing that Pool, which implements WorkQueue,
\* may do (audit.go, app/pool.go).
THEOREM PoolStepsExact ==
    ASSUME IInv, PoolBound
    PROVE  /\ \A c \in Calls : pc[c] = "submit" =>
                /\ Submit(c) <=> Queue!Accept(c) /\ Goto(c, "queued") /\ UNCHANGED NotPool
                /\ SubmitRefused(c) <=> Queue!Refuse(c) /\ Goto(c, "refused") /\ UNCHANGED NotPool
                /\ SubmitPanics(c) <=> Queue!Panic(c) /\ Goto(c, "panicked") /\ UNCHANGED NotPool
           /\ \A c \in Calls : Take(c) <=> Queue!Take(c) /\ Goto(c, "hook") /\ UNCHANGED NotPool
           /\ Shutdown <=> Queue!Stop /\ UNCHANGED NotPool /\ UNCHANGED pc
           /\ CloseWork <=> Queue!Close /\ UNCHANGED NotPool /\ UNCHANGED pc
<1>1. ASSUME NEW c \in Calls, pc[c] = "submit"
      PROVE  /\ Submit(c) <=> Queue!Accept(c) /\ Goto(c, "queued") /\ UNCHANGED NotPool
             /\ SubmitRefused(c) <=> Queue!Refuse(c) /\ Goto(c, "refused") /\ UNCHANGED NotPool
             /\ SubmitPanics(c) <=> Queue!Panic(c) /\ Goto(c, "panicked") /\ UNCHANGED NotPool
  BY <1>1, SubmitIsAccept, RefusedIsRefuse, PanicsIsPanic
<1>2. ASSUME NEW c \in Calls
      PROVE  Take(c) <=> Queue!Take(c) /\ Goto(c, "hook") /\ UNCHANGED NotPool
  BY TakeIsTake
<1> QED
  BY <1>1, <1>2, ShutdownIsStop

\* A step of one call that leaves the pool alone.
Outside(c, l) ==
    /\ pc' = [pc EXCEPT ![c] = l]
    /\ \A d \in Calls : d # c => req'[d] = req[d]
    /\ UNCHANGED pool

\* Such a step ends what a worker runs, gives up what was never submitted, or
\* is invisible to the queue.
LEMMA OutsideMaps ==
    ASSUME TypeOK, NEW c \in Calls, NEW l, Outside(c, l),
           \/ Where(l, req'[c].mode) = Where(pc[c], req[c].mode)
           \/ l \in {"ok", "failed"} /\ Where(pc[c], req[c].mode) \in {"outside", "running"}
    PROVE  [Queue!Next]_Queue!vars
<1>1. PICK to : to = Where(l, req'[c].mode)
  OBVIOUS
<1>2. Queue!Move(c, to)
  BY <1>1, GotoMoves DEF Outside
<1>3. PlaceOf(c) = Where(pc[c], req[c].mode)
  BY PlaceIsWhere
<1>4. UNCHANGED <<stopped, closed, queue>>
  BY DEF Outside, pool
<1>5. CASE to = PlaceOf(c)
  BY <1>2, <1>4, <1>5 DEF Queue!Move, Queue!vars
<1>6. CASE l \in {"ok", "failed"} /\ PlaceOf(c) \in {"outside", "running"}
  <2>1. to = "ended"
    BY <1>1, <1>6 DEF Where, Steps
  <2>2. Queue!Skip(c) \/ Queue!Finish(c)
    BY <1>2, <1>4, <1>6, <2>1 DEF Queue!Skip, Queue!Finish
  <2> QED
    BY <2>2 DEF Queue!Next
<1> QED
  BY <1>1, <1>3, <1>5, <1>6

\* A crash is a restart of the queue.
LEMMA CrashMaps ==
    ASSUME TypeOK, Crash
    PROVE  Queue!Restart
<1> DEFINE S == {c \in Calls : PlaceOf(c) = "outside" /\ pc[c] # "new"}
           isIn(c) == c \in S \/ PlaceOf(c) \in {"queued", "running"}
<1>1. ASSUME NEW c \in Calls PROVE PlaceOf(c)' = IF isIn(c) THEN "ended" ELSE PlaceOf(c)
  <2>1. pc[c] \in Labels
    BY DEF TypeOK
  <2>2. pc'[c] = IF pc[c] \in Final \cup {"new"} THEN pc[c] ELSE "lost"
    BY DEF Crash
  <2>3. req'[c] = req[c]
    BY DEF Crash
  <2> QED
    BY <2>1, <2>2, <2>3, PlaceIsWhere DEF Where, Labels, Steps, Final
<1>2. S \in SUBSET {c \in Calls : [d \in Calls |-> PlaceOf(d)][c] = "outside"}
  OBVIOUS
<1>3. PICK T \in SUBSET {c \in Calls : [d \in Calls |-> PlaceOf(d)][c] = "outside"} : T = S
  BY <1>2
<1>4. [d \in Calls |-> PlaceOf(d)]' =
          [d \in Calls |-> IF d \in T \/ [e \in Calls |-> PlaceOf(e)][d] \in {"queued", "running"}
                           THEN "ended" ELSE [e \in Calls |-> PlaceOf(e)][d]]
  BY <1>1, <1>3
<1> QED
  BY <1>4 DEF Queue!Restart, Crash

\* Version sends background calls, and only those, towards the pool.
LEMMA VersionBinds ==
    ASSUME IInv, NEW c \in Calls, Version(c)
    PROVE  \E l : /\ Outside(c, l) /\ pc[c] = "new"
                  /\ \/ l = "hook" /\ req'[c].mode # "background"
                     \/ l \in {"append", "submit"} /\ req'[c].mode = "background"
<1>1. PICK q \in Requests :
         /\ req' = [req EXCEPT ![c] = q]
         /\ \/ q.mode = "sync" /\ Goto(c, "hook")
            \/ q.mode # "sync" /\ (Goto(c, "append") \/ Goto(c, "submit"))
  BY DEF Version
<1>2. q.mode \in {"background", "sync"}
  BY OptionsAssumption DEF Requests
<1>3. pc[c] = "new" /\ UNCHANGED pool
  BY DEF Version
<1>4. req'[c] = q /\ \A d \in Calls : d # c => req'[d] = req[d]
  BY <1>1 DEF IInv, TypeOK
<1> QED
  BY <1>1, <1>2, <1>3, <1>4 DEF Goto, Outside

\* The other steps of a call outside the pool: where they lead.
LEMMA OutsideSteps ==
    ASSUME NEW c \in Calls,
           \/ VersionRejected(c) \/ WALAppend(c) \/ WALAppendFails(c)
           \/ BeforeWrite(c) \/ Sequence(c) \/ DiffPrevious(c) \/ DiffFallback(c)
           \/ Seal(c) \/ SealFails(c) \/ Save(c) \/ SaveUnknown(c) \/ Fail(c)
           \/ Notify(c) \/ Ack(c) \/ AckFails(c)
    PROVE  \E l : /\ Outside(c, l) /\ req' = req
                  /\ \/ l = "submit" /\ pc[c] = "append"
                     \/ l \in Steps /\ pc[c] \in Steps
                     \/ l \in {"ok", "failed"} /\ pc[c] \in {"new", "append"} \cup Steps
<1> USE DEF Goto, Outside, Steps
<1>1. CASE VersionRejected(c) \/ WALAppend(c) \/ WALAppendFails(c)
  BY <1>1 DEF VersionRejected, WALAppend, WALAppendFails
<1>2. CASE BeforeWrite(c) \/ DiffPrevious(c) \/ DiffFallback(c) \/ Seal(c) \/ SealFails(c)
  BY <1>2 DEF BeforeWrite, DiffPrevious, DiffFallback, Seal, SealFails
<1>3. CASE Sequence(c)
  <2>1. PICK l \in {"seal", "diff"} : Goto(c, l)
    BY <1>3 DEF Sequence
  <2> QED
    BY <1>3, <2>1 DEF Sequence
<1>4. CASE Save(c) \/ SaveUnknown(c) \/ Fail(c)
  BY <1>4 DEF Save, SaveUnknown, Fail
<1>5. CASE Notify(c) \/ Ack(c) \/ AckFails(c)
  BY <1>5 DEF Notify, Ack, AckFails
<1> QED
  BY <1>1, <1>2, <1>3, <1>4, <1>5

\* PoolBound is inductive beside IInv.
LEMMA PoolBoundStep ==
    ASSUME IInv, PoolBound, [Next]_vars
    PROVE  PoolBound'
<1>0. TypeOK
  BY DEF IInv
<1>1. ASSUME NEW c \in Calls, Version(c) PROVE PoolBound'
  BY <1>0, <1>1, VersionBinds DEF Outside, PoolBound, TypeOK
<1>2. ASSUME NEW c \in Calls, NEW l, pc' = [pc EXCEPT ![c] = l], req' = req,
             l \in {"append", "submit", "queued"} => pc[c] \in {"append", "submit", "queued"}
      PROVE  PoolBound'
  BY <1>0, <1>2 DEF PoolBound, TypeOK
<1>3. ASSUME NEW c \in Calls, Submit(c) \/ SubmitRefused(c) \/ SubmitPanics(c) \/ Take(c)
      PROVE  PoolBound'
  <2>1. PICK l : /\ pc' = [pc EXCEPT ![c] = l] /\ req' = req
                 /\ l \in {"queued", "refused", "panicked", "hook"} /\ (l = "queued" => pc[c] = "submit")
    BY <1>3 DEF Submit, SubmitRefused, SubmitPanics, Take, Goto
  <2> QED
    BY <1>2, <2>1
<1>4. ASSUME NEW c \in Calls,
             \/ VersionRejected(c) \/ WALAppend(c) \/ WALAppendFails(c)
             \/ BeforeWrite(c) \/ Sequence(c) \/ DiffPrevious(c) \/ DiffFallback(c)
             \/ Seal(c) \/ SealFails(c) \/ Save(c) \/ SaveUnknown(c) \/ Fail(c)
             \/ Notify(c) \/ Ack(c) \/ AckFails(c)
      PROVE  PoolBound'
  <2>1. PICK l : /\ Outside(c, l) /\ req' = req
                 /\ \/ l = "submit" /\ pc[c] = "append"
                    \/ l \in Steps \cup {"ok", "failed"}
    BY <1>4, OutsideSteps
  <2> QED
    BY <1>2, <2>1 DEF Outside, Steps
<1>5. CASE Shutdown \/ CloseWork \/ Recover \/ UNCHANGED vars
  BY <1>5 DEF Shutdown, CloseWork, Recover, vars, PoolBound
<1>6. CASE Crash
  <2>1. \A c \in Calls : pc'[c] \in Final \cup {"new"}
    BY <1>6 DEF Crash, Final
  <2> QED
    BY <2>1 DEF PoolBound, Final
<1> QED
  BY <1>1, <1>3, <1>4, <1>5, <1>6 DEF Next, Caller, Pipeline, Terminated

\* Both invariants hold in every reachable state.
LEMMA PoolBoundAlways == Spec => [](IInv /\ PoolBound)
<1>1. Init => PoolBound
  BY DEF Init, PoolBound
<1>2. IInv /\ PoolBound /\ [Next]_vars => PoolBound'
  BY PoolBoundStep
<1> QED
  BY <1>1, <1>2, AuditorInductive, PTL DEF Spec

\* Every step of Auditor is one of the queue or its restart, or none.
LEMMA QueueStepMaps ==
    ASSUME IInv, PoolBound, [Next]_vars
    PROVE  [Queue!Next \/ Queue!Restart]_Queue!vars
<1>0. TypeOK
  BY DEF IInv
<1>1. ASSUME NEW c \in Calls, Version(c) PROVE [Queue!Next]_Queue!vars
  <2>1. PICK l : /\ Outside(c, l) /\ pc[c] = "new"
                 /\ \/ l = "hook" /\ req'[c].mode # "background"
                    \/ l \in {"append", "submit"} /\ req'[c].mode = "background"
    BY <1>1, VersionBinds
  <2>2. Where(l, req'[c].mode) = Where(pc[c], req[c].mode)
    BY <2>1 DEF Where, Steps
  <2> QED
    BY <1>0, <2>1, <2>2, OutsideMaps
<1>2. ASSUME NEW c \in Calls,
             \/ VersionRejected(c) \/ WALAppend(c) \/ WALAppendFails(c)
             \/ BeforeWrite(c) \/ Sequence(c) \/ DiffPrevious(c) \/ DiffFallback(c)
             \/ Seal(c) \/ SealFails(c) \/ Save(c) \/ SaveUnknown(c) \/ Fail(c)
             \/ Notify(c) \/ Ack(c) \/ AckFails(c)
      PROVE  [Queue!Next]_Queue!vars
  <2>1. PICK l : /\ Outside(c, l) /\ req' = req
                 /\ \/ l = "submit" /\ pc[c] = "append"
                    \/ l \in Steps /\ pc[c] \in Steps
                    \/ l \in {"ok", "failed"} /\ pc[c] \in {"new", "append"} \cup Steps
    BY <1>2, OutsideSteps
  <2>2. \/ Where(l, req'[c].mode) = Where(pc[c], req[c].mode)
        \/ l \in {"ok", "failed"} /\ Where(pc[c], req[c].mode) \in {"outside", "running"}
    BY <2>1 DEF Where, Steps
  <2> QED
    BY <1>0, <2>1, <2>2, OutsideMaps
<1>3. ASSUME NEW c \in Calls, Submit(c) \/ SubmitRefused(c) \/ SubmitPanics(c) \/ Take(c)
      PROVE  Queue!Next
  <2>1. Queue!Accept(c) \/ Queue!Refuse(c) \/ Queue!Panic(c) \/ Queue!Take(c)
    BY <1>3, SubmitIsAccept, RefusedIsRefuse, PanicsIsPanic, TakeIsTake
  <2> QED
    BY <2>1 DEF Queue!Next
<1>4. CASE Shutdown \/ CloseWork
  BY <1>4, ShutdownIsStop DEF Queue!Next
<1>5. CASE Recover \/ UNCHANGED vars
  <2>1. UNCHANGED <<stopped, closed, queue, pc, req>>
    BY <1>5 DEF Recover, vars, pool
  <2>2. UNCHANGED [c \in Calls |-> PlaceOf(c)]
    BY <2>1, PlaceIsWhere
  <2> QED
    BY <2>1, <2>2 DEF Queue!vars
<1>6. CASE Crash
  BY <1>0, <1>6, CrashMaps
<1> QED
  BY <1>1, <1>2, <1>3, <1>4, <1>5, <1>6 DEF Next, Caller, Pipeline, Terminated

\* What the calls see of the pool is what WorkQueue allows, in every life of the
\* process and for every number of calls and workers (audit.go, app/pool.go).
THEOREM AuditorUsesQueue == Spec => UsesQueue
<1>1. Init => Queue!Init
  BY PlaceIsWhere DEF Init, Queue!Init, Where, Steps
<1>2. IInv /\ PoolBound /\ [Next]_vars => [Queue!Next \/ Queue!Restart]_Queue!vars
  BY QueueStepMaps
<1> QED
  BY <1>1, <1>2, PoolBoundAlways, PTL DEF Spec, UsesQueue, Queue!RestartSpec

=============================================================================
