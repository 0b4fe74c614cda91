--------------------------- MODULE AuditorProofs ----------------------------
(***************************************************************************)
(* Proofs about Auditor, for every number of calls, entities and workers.  *)
(*                                                                         *)
(* The argument.  A row is the record of the call that inserted it, which  *)
(* no longer changes (RowsFrozen).  A call that has been numbered v knows  *)
(* that v - 1 is stored (Founded); what it has read since, for its delta   *)
(* or its hash, was read from a row at v - 1 or above (DeltaFounded,       *)
(* SealFounded).  When its insert passes the UNIQUE constraint, v is       *)
(* missing; the versions being gapless, there is no row above v - 1        *)
(* either, so everything it read was the row right before it.              *)
(*                                                                         *)
(* For the WAL: the entry of a call that has not ended is in the log       *)
(* (LoggedUntilEnd), so that a second call can only draw the same ID once  *)
(* the first has its row and has ended (IDsDistinct); an acknowledgement   *)
(* therefore removes the entry of a persisted call.                        *)
(***************************************************************************)
EXTENDS Auditor, FiniteSetTheorems, TLAPS

\* The channel holds calls that are queued, each once.
QueueInv ==
    /\ \A k \in 1..Len(queue) : pc[queue[k]] = "queued"
    /\ \A j, k \in 1..Len(queue) : queue[j] = queue[k] => j = k

\* Every row is the row of its call's record, and its call is past Save.
RowsFrozen ==
    \A r \in store :
        /\ IsRecord(rec[r.id])
        /\ r = Row(rec[r.id])
        /\ pc[r.id] \in {"notify", "ack", "ok", "failed", "lost"}

\* The record of a call carries the call's ID and the entity of its request.
RecordsOwned ==
    \A c \in Calls : pc[c] \notin {"new", "failed"} =>
        rec[c].id = c /\ rec[c].entity = req[c].entity

\* The number of a call is one more than a stored one.
Founded ==
    \A c \in Calls : pc[c] \in {"diff", "seal", "save"} =>
        /\ rec[c].version >= 1
        /\ rec[c].version > 1 => ByVersion(rec[c].entity, rec[c].version - 1) # {}

\* A version to be diffed has a predecessor; the delta of a call turns some
\* stored version at or above the one before it into its data.
DeltaFounded ==
    /\ \A c \in Calls : pc[c] = "diff" => rec[c].version > 1
    /\ \A c \in Calls : pc[c] \in {"seal", "save"} /\ rec[c].strategy = "delta" =>
          \E p \in Rows(rec[c].entity) :
              p.version >= rec[c].version - 1 /\ Replays(p.data, rec[c].delta, rec[c].data)

\* Where a call is before its record is hashed, and after it is inserted.
Early == {"append", "submit", "queued", "hook", "sequence", "diff", "seal"}
Past == {"notify", "ack", "ok", "failed", "lost"}

\* A record with a hash has the hash of its payload and links to version - 1.
LinkedTo(r) ==
    r.hash # Null =>
        /\ r.hash = Hash(r)
        /\ r.version = 1 => r.prev = Null
        /\ r.version > 1 => \E p \in ByVersion(r.entity, r.version - 1) : r.prev = p.hash

SealFounded ==
    /\ \A c \in Calls : pc[c] \in Early => rec[c].hash = Null
    /\ \A c \in Calls : pc[c] = "save" => LinkedTo(rec[c])
    /\ \A r \in store : LinkedTo(r)

\* What is to be reported, or has been, is stored.
Reported ==
    /\ \A c \in notified : pc[c] \in Past
    /\ \A c \in Calls : pc[c] \in {"notify", "ack", "ok"} \/ c \in notified =>
                        Row(rec[c]) \in store

\* The entry of a call that has not ended is in the log.
LoggedUntilEnd ==
    \A c \in Calls : walID[c] # 0 /\ pc[c] \notin Final => \E e \in wal : e.id = walID[c]

\* Of two calls with the same ID one has its version and has ended.
IDsDistinct ==
    \A c, d \in Calls : c # d /\ walID[c] = walID[d] /\ walID[c] # 0 =>
        \/ Stored(c) /\ pc[c] \in Final
        \/ Stored(d) /\ pc[d] \in Final

\* A call has no ID before it is logged.
UnloggedBefore ==
    \A c \in Calls : pc[c] \in {"new", "append"} => walID[c] = 0

-----------------------------------------------------------------------------
(* What the steps of the pipeline do to a record. *)

\* The record versionSync starts from belongs to its call and has no hash.
LEMMA NewRecordFields ==
    ASSUME NEW c \in Calls, NEW q \in Requests
    PROVE  LET r == NewRecord(c, q)
           IN /\ IsRecord(r) /\ r.id = c /\ r.entity = q.entity /\ r.data = q.data
              /\ r.hash = Null
BY DEF NewRecord, IsRecord, RecordFields, Requests

\* Numbering a record changes its version and strategy only.
LEMMA NumberedFields ==
    ASSUME NEW r, IsRecord(r), NEW v \in Nat, NEW s \in {"full", "delta"}
    PROVE  LET t == Numbered(r, v, s)
           IN /\ IsRecord(t) /\ t.id = r.id /\ t.entity = r.entity /\ t.data = r.data
              /\ t.hash = r.hash /\ t.prev = r.prev /\ t.version = v /\ t.strategy = s
BY DEF Numbered, IsRecord, RecordFields

\* Diffing a record changes its strategy and delta only.
LEMMA DiffedFields ==
    ASSUME NEW r, IsRecord(r), NEW s \in {"full", "delta"}, NEW d
    PROVE  LET t == Diffed(r, s, d)
           IN /\ IsRecord(t) /\ t.id = r.id /\ t.entity = r.entity /\ t.data = r.data
              /\ t.hash = r.hash /\ t.prev = r.prev /\ t.version = r.version
              /\ t.strategy = s /\ t.delta = d
BY DEF Diffed, IsRecord, RecordFields

\* ComputeAndStore sets the previous hash and the hash of the linked record.
LEMMA SealedFields ==
    ASSUME NEW r, IsRecord(r), NEW p
    PROVE  LET t == Sealed(r, p)
           IN /\ IsRecord(t) /\ t.id = r.id /\ t.entity = r.entity /\ t.data = r.data
              /\ t.version = r.version /\ t.strategy = r.strategy /\ t.delta = r.delta
              /\ t.prev = p /\ t.hash = Hash(t)
BY DEF Sealed, IsRecord, RecordFields, Hash

\* A failed ComputeAndStore leaves everything but the previous hash.
LEMMA UnsealedFields ==
    ASSUME NEW r, IsRecord(r), NEW p
    PROVE  LET t == Unsealed(r, p)
           IN /\ IsRecord(t) /\ t.id = r.id /\ t.entity = r.entity /\ t.data = r.data
              /\ t.version = r.version /\ t.strategy = r.strategy /\ t.delta = r.delta
              /\ t.prev = p /\ t.hash = r.hash
BY DEF Unsealed, IsRecord, RecordFields

\* The row the SQL adapters insert differs from the record in its delta only.
LEMMA RowFields ==
    ASSUME NEW r, IsRecord(r)
    PROVE  LET t == Row(r)
           IN /\ IsRecord(t) /\ t.id = r.id /\ t.entity = r.entity /\ t.data = r.data
              /\ t.version = r.version /\ t.strategy = r.strategy
              /\ t.prev = r.prev /\ t.hash = r.hash
BY DEF Row, IsRecord, RecordFields

\* The payload that is hashed is in the row: the hash can be recomputed.
LEMMA RowHash ==
    ASSUME NEW r, IsRecord(r)
    PROVE  Hash(Row(r)) = Hash(r)
BY RowFields DEF Hash

-----------------------------------------------------------------------------
(* Types *)

\* Rows of an entity are records of that entity.
LEMMA RowsTyped ==
    ASSUME TypeOK, NEW e, NEW p \in Rows(e)
    PROVE  p \in store /\ IsRecord(p) /\ p.entity = e /\ p.version \in Nat /\ p.data \in Values
BY DEF TypeOK, Rows, IsRecord

\* NextVersion is 1 for a new entity and one more than the latest otherwise.
LEMMA NextVersionIs ==
    ASSUME TypeOK, NEW e, NEW v \in NextVersion(e)
    PROVE  /\ v \in Nat
           /\ \/ v = 1 /\ Rows(e) = {}
              \/ \E p \in Latest(e) : v = p.version + 1
BY RowsTyped DEF NextVersion, Latest

\* SelectStrategy resolves to full or delta.
LEMMA SelectStrategyIs ==
    ASSUME NEW v, NEW o
    PROVE  SelectStrategy(v, o) \in {"full", "delta"}
BY DEF SelectStrategy

\* Taking the head of a non-empty channel.
LEMMA QueueHead ==
    ASSUME NEW S, NEW q \in Seq(S), q # <<>>
    PROVE  /\ 1 \in 1..Len(q) /\ Head(q) = q[1]
           /\ Tail(q) \in Seq(S) /\ Len(Tail(q)) = Len(q) - 1
           /\ \A k \in 1..Len(Tail(q)) : k + 1 \in 1..Len(q) /\ Tail(q)[k] = q[k + 1]
<1>1. Len(q) \in Nat /\ Len(q) # 0
  OBVIOUS
<1> QED
  BY <1>1

-----------------------------------------------------------------------------
(* What each step that builds or stores a record does. *)

\* Version starts a fresh record for its call.
LEMMA VersionDoes ==
    ASSUME TypeOK, NEW c \in Calls, Version(c)
    PROVE  \E t : /\ rec' = [rec EXCEPT ![c] = t]
                  /\ req' = [req EXCEPT ![c] = req'[c]] /\ req'[c] \in Requests
                  /\ pc' = [pc EXCEPT ![c] = pc'[c]] /\ pc'[c] \in {"hook", "append", "submit"}
                  /\ pc[c] = "new"
                  /\ IsRecord(t) /\ t.id = c /\ t.entity = req'[c].entity /\ t.hash = Null
<1>1. PICK q \in Requests :
          /\ req' = [req EXCEPT ![c] = q]
          /\ rec' = [rec EXCEPT ![c] = NewRecord(c, q)]
  BY DEF Version
<1>2. req'[c] = q /\ req' = [req EXCEPT ![c] = req'[c]]
  BY <1>1 DEF TypeOK
<1>3. /\ pc' = [pc EXCEPT ![c] = pc'[c]] /\ pc'[c] \in {"hook", "append", "submit"}
      /\ pc[c] = "new"
  BY DEF Version, Goto, TypeOK
<1> DEFINE t == NewRecord(c, q)
<1>4. IsRecord(t) /\ t.id = c /\ t.entity = q.entity /\ t.hash = Null
  BY NewRecordFields
<1>5. rec' = [rec EXCEPT ![c] = t]
  BY <1>1
<1> HIDE DEF t
<1> QED
  BY <1>1, <1>2, <1>3, <1>4, <1>5

\* Numbering: the version is the next one, a full version skips the diff.
LEMMA SequenceDoes ==
    ASSUME TypeOK, NEW c \in Calls, Sequence(c)
    PROVE  \E t : /\ rec' = [rec EXCEPT ![c] = t]
                  /\ pc' = [pc EXCEPT ![c] = IF t.strategy = "full" THEN "seal" ELSE "diff"]
                  /\ pc[c] = "sequence"
                  /\ IsRecord(t) /\ t.id = rec[c].id /\ t.entity = rec[c].entity
                  /\ t.hash = rec[c].hash
                  /\ t.version \in NextVersion(req[c].entity)
                  /\ t.strategy = SelectStrategy(t.version, req[c].strategy)
<1>1. PICK v \in NextVersion(req[c].entity) :
          /\ rec' = [rec EXCEPT ![c] = Numbered(@, v, SelectStrategy(v, req[c].strategy))]
          /\ pc' = [pc EXCEPT ![c] = IF SelectStrategy(v, req[c].strategy) = "full"
                                      THEN "seal" ELSE "diff"]
  BY DEF Sequence, Goto
<1>2. IsRecord(rec[c]) /\ pc[c] = "sequence"
  BY DEF Sequence, TypeOK
<1> DEFINE s == SelectStrategy(v, req[c].strategy)
           t == Numbered(rec[c], v, s)
<1>3. v \in Nat
  BY NextVersionIs
<1>4. s \in {"full", "delta"}
  BY SelectStrategyIs
<1>5. s = SelectStrategy(v, req[c].strategy)
  OBVIOUS
<1>6. rec' = [rec EXCEPT ![c] = t]
  BY <1>1
<1> HIDE DEF s
<1>7. /\ IsRecord(t) /\ t.id = rec[c].id /\ t.entity = rec[c].entity /\ t.hash = rec[c].hash
      /\ t.version = v /\ t.strategy = s
  BY <1>2, <1>3, <1>4, NumberedFields
<1> HIDE DEF t
<1> QED
  BY <1>1, <1>2, <1>5, <1>6, <1>7

\* Diffing: full, or a delta that was taken against the latest version.
LEMMA DiffDoes ==
    ASSUME TypeOK, NEW c \in Calls, DiffPrevious(c) \/ DiffFallback(c)
    PROVE  \E t : /\ rec' = [rec EXCEPT ![c] = t]
                  /\ pc' = [pc EXCEPT ![c] = "seal"] /\ pc[c] = "diff"
                  /\ IsRecord(t) /\ t.id = rec[c].id /\ t.entity = rec[c].entity
                  /\ t.hash = rec[c].hash /\ t.version = rec[c].version
                  /\ \/ t.strategy = "full"
                     \/ \E p \in Latest(req[c].entity) :
                           /\ t.delta = Diff(p.data, t.data)
                           /\ IsEmpty(t.delta) \/ Apply(p.data, t.delta) = t.data
<1>1. IsRecord(rec[c]) /\ pc[c] = "diff" /\ pc' = [pc EXCEPT ![c] = "seal"]
  BY DEF DiffPrevious, DiffFallback, TypeOK, Goto
<1>2. CASE rec' = [rec EXCEPT ![c] = Diffed(@, "full", NoDelta)]
  <2> DEFINE t == Diffed(rec[c], "full", NoDelta)
  <2>1. /\ IsRecord(t) /\ t.id = rec[c].id /\ t.entity = rec[c].entity /\ t.hash = rec[c].hash
        /\ t.version = rec[c].version /\ t.strategy = "full"
    BY <1>1, DiffedFields
  <2>2. rec' = [rec EXCEPT ![c] = t]
    BY <1>2
  <2> HIDE DEF t
  <2> QED
    BY <1>1, <2>1, <2>2
<1>3. ASSUME NEW p \in Latest(req[c].entity),
             IsEmpty(Diff(p.data, rec[c].data))
                 \/ Apply(p.data, Diff(p.data, rec[c].data)) = rec[c].data,
             rec' = [rec EXCEPT ![c] = Diffed(@, "delta", Diff(p.data, rec[c].data))]
      PROVE  \E t : /\ rec' = [rec EXCEPT ![c] = t]
                    /\ IsRecord(t) /\ t.id = rec[c].id /\ t.entity = rec[c].entity
                    /\ t.hash = rec[c].hash /\ t.version = rec[c].version
                    /\ t.delta = Diff(p.data, t.data)
                    /\ IsEmpty(t.delta) \/ Apply(p.data, t.delta) = t.data
  <2> DEFINE t == Diffed(rec[c], "delta", Diff(p.data, rec[c].data))
  <2>1. /\ IsRecord(t) /\ t.id = rec[c].id /\ t.entity = rec[c].entity /\ t.hash = rec[c].hash
        /\ t.version = rec[c].version /\ t.data = rec[c].data
        /\ t.delta = Diff(p.data, rec[c].data)
    BY <1>1, DiffedFields
  <2>2. rec' = [rec EXCEPT ![c] = t]
    BY <1>3
  <2> HIDE DEF t
  <2> QED
    BY <1>3, <2>1, <2>2
<1>4. CASE DiffFallback(c)
  BY <1>2, <1>4 DEF DiffFallback
<1>5. CASE DiffPrevious(c)
  <2>1. PICK p \in Latest(req[c].entity) :
            LET delta == Diff(p.data, rec[c].data)
                valid == IsEmpty(delta) \/ Apply(p.data, delta) = rec[c].data
            IN rec' = [rec EXCEPT ![c] = IF valid THEN Diffed(@, "delta", delta)
                                                  ELSE Diffed(@, "full", NoDelta)]
    BY <1>5 DEF DiffPrevious
  <2>2. CASE IsEmpty(Diff(p.data, rec[c].data))
                 \/ Apply(p.data, Diff(p.data, rec[c].data)) = rec[c].data
    <3>1. rec' = [rec EXCEPT ![c] = Diffed(@, "delta", Diff(p.data, rec[c].data))]
      BY <2>1, <2>2
    <3> QED
      BY <1>1, <1>3, <2>2, <3>1
  <2>3. CASE ~ (IsEmpty(Diff(p.data, rec[c].data))
                 \/ Apply(p.data, Diff(p.data, rec[c].data)) = rec[c].data)
    BY <1>2, <2>1, <2>3
  <2> QED
    BY <2>2, <2>3
<1> QED
  BY <1>4, <1>5

\* Hashing: linked to version - 1, or left without a hash.
LEMMA SealDoes ==
    ASSUME TypeOK, NEW c \in Calls, Seal(c) \/ SealFails(c)
    PROVE  \E t : /\ rec' = [rec EXCEPT ![c] = t]
                  /\ pc' = [pc EXCEPT ![c] = "save"] /\ pc[c] = "seal"
                  /\ IsRecord(t) /\ t.id = rec[c].id /\ t.entity = rec[c].entity
                  /\ t.version = rec[c].version /\ t.strategy = rec[c].strategy
                  /\ t.delta = rec[c].delta /\ t.data = rec[c].data
                  /\ \/ t.hash = rec[c].hash
                     \/ /\ t.hash = Hash(t)
                        /\ \/ t.version <= 1 /\ t.prev = Null
                           \/ /\ t.version > 1
                              /\ \E p \in ByVersion(t.entity, t.version - 1) : t.prev = p.hash
<1>1. IsRecord(rec[c]) /\ pc[c] = "seal" /\ pc' = [pc EXCEPT ![c] = "save"]
  BY DEF Seal, SealFails, TypeOK, Goto
<1>2. CASE rec' = rec
  <2>1. rec' = [rec EXCEPT ![c] = rec[c]]
    BY <1>2 DEF TypeOK
  <2> QED
    BY <1>1, <2>1
<1>3. ASSUME NEW p, rec' = [rec EXCEPT ![c] = Sealed(@, p)],
             \/ rec[c].version <= 1 /\ p = Null
             \/ /\ rec[c].version > 1
                /\ \E q \in ByVersion(rec[c].entity, rec[c].version - 1) : p = q.hash
      PROVE  \E t : /\ rec' = [rec EXCEPT ![c] = t]
                    /\ IsRecord(t) /\ t.id = rec[c].id /\ t.entity = rec[c].entity
                    /\ t.version = rec[c].version /\ t.strategy = rec[c].strategy
                    /\ t.delta = rec[c].delta /\ t.data = rec[c].data
                    /\ t.hash = Hash(t)
                    /\ \/ t.version <= 1 /\ t.prev = Null
                       \/ /\ t.version > 1
                          /\ \E q \in ByVersion(t.entity, t.version - 1) : t.prev = q.hash
  <2> DEFINE t == Sealed(rec[c], p)
  <2>1. /\ IsRecord(t) /\ t.id = rec[c].id /\ t.entity = rec[c].entity
        /\ t.version = rec[c].version /\ t.strategy = rec[c].strategy
        /\ t.delta = rec[c].delta /\ t.data = rec[c].data /\ t.prev = p /\ t.hash = Hash(t)
    BY <1>1, SealedFields
  <2>2. rec' = [rec EXCEPT ![c] = t]
    BY <1>3
  <2> HIDE DEF t
  <2> QED
    BY <1>3, <2>1, <2>2
<1>4. ASSUME NEW p, rec' = [rec EXCEPT ![c] = Unsealed(@, p)]
      PROVE  \E t : /\ rec' = [rec EXCEPT ![c] = t]
                    /\ IsRecord(t) /\ t.id = rec[c].id /\ t.entity = rec[c].entity
                    /\ t.version = rec[c].version /\ t.strategy = rec[c].strategy
                    /\ t.delta = rec[c].delta /\ t.data = rec[c].data
                    /\ t.hash = rec[c].hash
  <2> DEFINE t == Unsealed(rec[c], p)
  <2>1. /\ IsRecord(t) /\ t.id = rec[c].id /\ t.entity = rec[c].entity
        /\ t.version = rec[c].version /\ t.strategy = rec[c].strategy
        /\ t.delta = rec[c].delta /\ t.data = rec[c].data /\ t.hash = rec[c].hash
    BY <1>1, UnsealedFields
  <2>2. rec' = [rec EXCEPT ![c] = t]
    BY <1>4
  <2> HIDE DEF t
  <2> QED
    BY <1>4, <2>1, <2>2
<1>5. CASE Seal(c)
  <2>1. \E p : /\ rec' = [rec EXCEPT ![c] = Sealed(@, p)]
               /\ \/ rec[c].version <= 1 /\ p = Null
                  \/ /\ rec[c].version > 1
                     /\ \E q \in ByVersion(rec[c].entity, rec[c].version - 1) : p = q.hash
    BY <1>5 DEF Seal
  <2> QED
    BY <1>1, <1>3, <2>1
<1>6. CASE SealFails(c)
  <2>1. rec' = rec \/ \E p : rec' = [rec EXCEPT ![c] = Unsealed(@, p)]
    BY <1>6 DEF SealFails
  <2> QED
    BY <1>1, <1>2, <1>4, <2>1
<1> QED
  BY <1>5, <1>6

\* Inserting: the row is new, and no row has its entity and version.
LEMMA SaveDoes ==
    ASSUME TypeOK, NEW c \in Calls, Save(c) \/ SaveUnknown(c)
    PROVE  \E t : /\ t = Row(rec[c])
                  /\ store' = store \cup {t} /\ rec' = rec /\ req' = req /\ notified' = notified
                  /\ ByVersion(t.entity, t.version) = {}
                  /\ pc' = [pc EXCEPT ![c] = pc'[c]] /\ pc'[c] \in {"notify", "failed"}
                  /\ pc[c] = "save"
                  /\ IsRecord(rec[c]) /\ IsRecord(t)
                  /\ t.id = rec[c].id /\ t.entity = rec[c].entity
                  /\ t.version = rec[c].version /\ t.strategy = rec[c].strategy
                  /\ t.data = rec[c].data /\ t.prev = rec[c].prev /\ t.hash = rec[c].hash
<1>1. /\ IsRecord(rec[c]) /\ pc[c] = "save" /\ ~Conflict(rec[c])
      /\ pc' = [pc EXCEPT ![c] = pc'[c]] /\ pc'[c] \in {"notify", "failed"}
      /\ store' = store \cup {Row(rec[c])} /\ rec' = rec /\ req' = req /\ notified' = notified
  BY DEF Save, SaveUnknown, TypeOK, Goto
<1> DEFINE t == Row(rec[c])
<1>2. /\ IsRecord(t) /\ t.id = rec[c].id /\ t.entity = rec[c].entity
      /\ t.version = rec[c].version /\ t.strategy = rec[c].strategy
      /\ t.data = rec[c].data /\ t.prev = rec[c].prev /\ t.hash = rec[c].hash
  BY <1>1, RowFields
<1>3. t = Row(rec[c]) /\ store' = store \cup {t}
  BY <1>1
<1> HIDE DEF t
<1>4. ByVersion(t.entity, t.version) = {}
  BY <1>1, <1>2 DEF Conflict
<1> QED
  BY <1>1, <1>2, <1>3, <1>4

\* Every step of Auditor preserves the types.
LEMMA TypeStep ==
    ASSUME TypeOK, QueueInv, [Next]_vars
    PROVE  TypeOK'
<1> USE DEF Goto, durable, pool, process
<1> USE DEF Labels, Steps, Final
<1>1. ASSUME NEW c \in Calls, Version(c) PROVE TypeOK'
  <2>1. PICK t : /\ rec' = [rec EXCEPT ![c] = t] /\ IsRecord(t)
                 /\ req' = [req EXCEPT ![c] = req'[c]] /\ req'[c] \in Requests
                 /\ pc' = [pc EXCEPT ![c] = pc'[c]] /\ pc'[c] \in {"hook", "append", "submit"}
    BY <1>1, VersionDoes
  <2>2. UNCHANGED <<durable, clock, pool, walID, notified, process>>
    BY <1>1 DEF Version
  <2>3. req' \in [Calls -> Requests \cup {Null}] /\ pc' \in [Calls -> Labels]
    BY <2>1 DEF TypeOK
  <2> QED
    BY <2>1, <2>2, <2>3 DEF TypeOK
<1>2. ASSUME NEW c \in Calls, VersionRejected(c) PROVE TypeOK'
  BY <1>2 DEF VersionRejected, TypeOK
<1>3. ASSUME NEW c \in Calls, WALAppend(c) PROVE TypeOK'
  <2>1. req[c] \in Requests /\ req[c].entity \in Entities
    BY <1>3 DEF WALAppend, TypeOK, Requests
  <2> QED
    BY <1>3, <2>1 DEF WALAppend, TypeOK
<1>4. ASSUME NEW c \in Calls, WALAppendFails(c) PROVE TypeOK'
  BY <1>4 DEF WALAppendFails, TypeOK
<1>5. ASSUME NEW c \in Calls, Submit(c) PROVE TypeOK'
  BY <1>5, SizesAssumption DEF Submit, TypeOK
<1>6. ASSUME NEW c \in Calls, SubmitRefused(c) \/ SubmitPanics(c) PROVE TypeOK'
  BY <1>6 DEF SubmitRefused, SubmitPanics, TypeOK
<1>7. CASE Shutdown \/ CloseWork
  BY <1>7 DEF Shutdown, CloseWork, TypeOK
<1>8. ASSUME NEW c \in Calls, Take(c) PROVE TypeOK'
  <2>1. pc[c] = "queued"
    BY <1>8, QueueHead DEF Take, TypeOK, QueueInv
  <2>2. queue' \in Seq(Calls) /\ Len(queue') <= QueueSize
    BY <1>8, QueueHead, SizesAssumption DEF Take, TypeOK
  <2> QED
    BY <1>8, <2>1, <2>2 DEF Take, TypeOK
<1>9. ASSUME NEW c \in Calls, BeforeWrite(c) PROVE TypeOK'
  BY <1>9 DEF BeforeWrite, TypeOK
<1>10. ASSUME NEW c \in Calls, Fail(c) PROVE TypeOK'
  BY <1>10 DEF Fail, TypeOK
<1>11. ASSUME NEW c \in Calls, Sequence(c) PROVE TypeOK'
  <2>1. PICK t, l : rec' = [rec EXCEPT ![c] = t] /\ IsRecord(t)
                    /\ pc' = [pc EXCEPT ![c] = l] /\ l \in {"seal", "diff"} /\ pc[c] = "sequence"
    BY <1>11, SequenceDoes
  <2>2. UNCHANGED <<durable, clock, pool, req, walID, notified, process>>
    BY <1>11 DEF Sequence
  <2> QED
    BY <2>1, <2>2 DEF TypeOK
<1>12. ASSUME NEW c \in Calls, DiffPrevious(c) \/ DiffFallback(c) PROVE TypeOK'
  <2>1. PICK t : rec' = [rec EXCEPT ![c] = t] /\ IsRecord(t)
                 /\ pc' = [pc EXCEPT ![c] = "seal"] /\ pc[c] = "diff"
    BY <1>12, DiffDoes
  <2>2. UNCHANGED <<durable, clock, pool, req, walID, notified, process>>
    BY <1>12 DEF DiffPrevious, DiffFallback
  <2> QED
    BY <2>1, <2>2 DEF TypeOK
<1>13. ASSUME NEW c \in Calls, Seal(c) PROVE TypeOK'
  <2>1. PICK t : rec' = [rec EXCEPT ![c] = t] /\ IsRecord(t)
                 /\ pc' = [pc EXCEPT ![c] = "save"] /\ pc[c] = "seal"
    BY <1>13, SealDoes
  <2>2. UNCHANGED <<durable, clock, pool, req, walID, notified, process>>
    BY <1>13 DEF Seal
  <2> QED
    BY <2>1, <2>2 DEF TypeOK
<1>14. ASSUME NEW c \in Calls, SealFails(c) PROVE TypeOK'
  <2>1. PICK t : rec' = [rec EXCEPT ![c] = t] /\ IsRecord(t)
                 /\ pc' = [pc EXCEPT ![c] = "save"] /\ pc[c] = "seal"
    BY <1>14, SealDoes
  <2>2. UNCHANGED <<durable, clock, pool, req, walID, notified, process>>
    BY <1>14 DEF SealFails
  <2> QED
    BY <2>1, <2>2 DEF TypeOK
<1>15. ASSUME NEW c \in Calls, Save(c) \/ SaveUnknown(c) PROVE TypeOK'
  <2>1. /\ store' = store \cup {Row(rec[c])} /\ IsRecord(Row(rec[c]))
        /\ pc' = [pc EXCEPT ![c] = pc'[c]] /\ pc'[c] \in {"notify", "failed"}
        /\ pc[c] = "save"
    BY <1>15, SaveDoes
  <2>2. UNCHANGED <<wal, clock, pool, req, rec, walID, notified, process>>
    BY <1>15 DEF Save, SaveUnknown
  <2> QED
    BY <2>1, <2>2 DEF TypeOK
<1>16. ASSUME NEW c \in Calls, Notify(c) PROVE TypeOK'
  BY <1>16 DEF Notify, TypeOK
<1>17. ASSUME NEW c \in Calls, Ack(c) PROVE TypeOK'
  BY <1>17 DEF Ack, TypeOK
<1>18. ASSUME NEW c \in Calls, AckFails(c) PROVE TypeOK'
  BY <1>18 DEF AckFails, TypeOK
<1>19. CASE Crash
  <2>1. /\ pc' \in [Calls -> Labels]
        /\ \A c \in Calls : pc'[c] \notin {"new", "failed"} => pc[c] \notin {"new", "failed"}
    <3>1. ASSUME NEW c \in Calls
          PROVE  \/ pc[c] \in Final \cup {"new"} /\ pc'[c] = pc[c]
                 \/ pc[c] \notin Final \cup {"new"} /\ pc'[c] = "lost"
      BY <1>19 DEF Crash
    <3>2. pc' = [c \in Calls |-> pc'[c]]
      BY <1>19 DEF Crash
    <3>3. \A c \in Calls : pc'[c] \in Labels
      BY <3>1 DEF TypeOK
    <3> QED
      BY <3>1, <3>2, <3>3
  <2>2. queue' \in Seq(Calls) /\ Len(queue') <= QueueSize
    BY <1>19, SizesAssumption DEF Crash
  <2>3. crashes' \in 0..MaxCrashes
    BY <1>19, SizesAssumption DEF Crash, TypeOK
  <2> QED
    BY <1>19, <2>1, <2>2, <2>3 DEF Crash, TypeOK
<1>20. CASE Recover
  BY <1>20 DEF Recover, TypeOK
<1>21. CASE UNCHANGED vars
  BY <1>21 DEF vars, TypeOK
<1> QED
  BY <1>1, <1>2, <1>3, <1>4, <1>5, <1>6, <1>7, <1>8, <1>9, <1>10, <1>11, <1>12, <1>13,
     <1>14, <1>15, <1>16, <1>17, <1>18, <1>19, <1>20, <1>21
  DEF Next, Caller, Pipeline, Terminated

-----------------------------------------------------------------------------
(* The queue *)

\* A step of a call that is not queued leaves the queue well-formed.
LEMMA QueueKept ==
    ASSUME TypeOK, QueueInv, queue' = queue,
           NEW c \in Calls, pc[c] # "queued", NEW l, pc' = [pc EXCEPT ![c] = l]
    PROVE  QueueInv'
BY DEF TypeOK, QueueInv

\* The channel holds each queued call once, and no other.
LEMMA QueueStep ==
    ASSUME TypeOK, QueueInv, [Next]_vars
    PROVE  QueueInv'
<1> USE DEF Goto, pool
<1>1. ASSUME NEW c \in Calls, Version(c) PROVE QueueInv'
  BY <1>1, VersionDoes, QueueKept DEF Version
<1>2. ASSUME NEW c \in Calls, VersionRejected(c) \/ WALAppend(c) \/ WALAppendFails(c)
      PROVE  QueueInv'
  BY <1>2, QueueKept DEF VersionRejected, WALAppend, WALAppendFails
<1>3. ASSUME NEW c \in Calls, Submit(c) PROVE QueueInv'
  <2>1. \A k \in 1..Len(queue) : queue[k] # c
    BY <1>3 DEF Submit, QueueInv
  <2>2. /\ Len(queue') = Len(queue) + 1 /\ Len(queue) \in Nat
        /\ \A k \in 1..Len(queue) : queue'[k] = queue[k] /\ queue[k] \in Calls
        /\ queue'[Len(queue) + 1] = c
    BY <1>3 DEF Submit, TypeOK
  <2>3. pc' = [pc EXCEPT ![c] = "queued"]
    BY <1>3 DEF Submit
  <2>4. \A k \in 1..Len(queue') : k = Len(queue) + 1 \/ k \in 1..Len(queue)
    BY <2>2
  <2>5. ASSUME NEW k \in 1..Len(queue') PROVE pc'[queue'[k]] = "queued"
    BY <2>2, <2>3, <2>4 DEF QueueInv, TypeOK
  <2>6. ASSUME NEW j \in 1..Len(queue'), NEW k \in 1..Len(queue'), queue'[j] = queue'[k]
        PROVE  j = k
    BY <2>1, <2>2, <2>4, <2>6 DEF QueueInv
  <2> QED
    BY <2>5, <2>6 DEF QueueInv
<1>4. ASSUME NEW c \in Calls, SubmitRefused(c) \/ SubmitPanics(c) PROVE QueueInv'
  BY <1>4, QueueKept DEF SubmitRefused, SubmitPanics
<1>5. ASSUME NEW c \in Calls, Take(c) PROVE QueueInv'
  <2>1. /\ c = queue[1] /\ 1 \in 1..Len(queue) /\ Len(queue') = Len(queue) - 1
        /\ \A k \in 1..Len(queue') : k + 1 \in 1..Len(queue) /\ queue'[k] = queue[k + 1]
    BY <1>5, QueueHead DEF Take, TypeOK
  <2>2. ASSUME NEW k \in 1..Len(queue') PROVE queue'[k] # c /\ queue'[k] \in Calls
    <3>1. k + 1 \in 1..Len(queue) /\ k + 1 # 1 /\ queue'[k] = queue[k + 1]
      BY <2>1
    <3>2. queue[k + 1] # queue[1]
      BY <2>1, <3>1 DEF QueueInv
    <3>3. queue[k + 1] \in Calls
      BY <3>1 DEF TypeOK
    <3> QED
      BY <2>1, <3>1, <3>2, <3>3
  <2>3. pc' = [pc EXCEPT ![c] = "hook"]
    BY <1>5 DEF Take
  <2>4. ASSUME NEW k \in 1..Len(queue') PROVE pc'[queue'[k]] = "queued"
    BY <2>1, <2>2, <2>3 DEF QueueInv, TypeOK
  <2>5. ASSUME NEW j \in 1..Len(queue'), NEW k \in 1..Len(queue'), queue'[j] = queue'[k]
        PROVE  j = k
    BY <2>1, <2>5 DEF QueueInv
  <2> QED
    BY <2>4, <2>5 DEF QueueInv
<1>6. ASSUME NEW c \in Calls, BeforeWrite(c) \/ Fail(c) PROVE QueueInv'
  BY <1>6, QueueKept DEF BeforeWrite, Fail
<1>7. ASSUME NEW c \in Calls, Sequence(c) PROVE QueueInv'
  <2>1. PICK l : pc' = [pc EXCEPT ![c] = l]
    BY <1>7, SequenceDoes
  <2>2. pc[c] = "sequence" /\ queue' = queue
    BY <1>7 DEF Sequence
  <2> QED
    BY <2>1, <2>2, QueueKept
<1>8. ASSUME NEW c \in Calls, DiffPrevious(c) \/ DiffFallback(c) PROVE QueueInv'
  <2>1. pc' = [pc EXCEPT ![c] = "seal"] /\ pc[c] = "diff" /\ queue' = queue
    BY <1>8 DEF DiffPrevious, DiffFallback
  <2> QED
    BY <2>1, QueueKept
<1>9. ASSUME NEW c \in Calls, Seal(c) \/ SealFails(c) PROVE QueueInv'
  <2>1. pc' = [pc EXCEPT ![c] = "save"] /\ pc[c] = "seal" /\ queue' = queue
    BY <1>9 DEF Seal, SealFails
  <2> QED
    BY <2>1, QueueKept
<1>10. ASSUME NEW c \in Calls, Save(c) \/ SaveUnknown(c) PROVE QueueInv'
  BY <1>10, QueueKept DEF Save, SaveUnknown
<1>11. ASSUME NEW c \in Calls, Notify(c) \/ Ack(c) \/ AckFails(c) PROVE QueueInv'
  BY <1>11, QueueKept DEF Notify, Ack, AckFails
<1>12. CASE Shutdown \/ CloseWork \/ Recover \/ UNCHANGED vars
  BY <1>12 DEF Shutdown, CloseWork, Recover, vars, QueueInv
<1>13. CASE Crash
  BY <1>13 DEF Crash, QueueInv
<1> QED
  BY <1>1, <1>2, <1>3, <1>4, <1>5, <1>6, <1>7, <1>8, <1>9, <1>10, <1>11, <1>12, <1>13
  DEF Next, Caller, Pipeline, Terminated

-----------------------------------------------------------------------------
(* Steps that neither build nor store a record. *)

Quiet ==
    /\ UNCHANGED <<store, req, rec>>
    /\ \A d \in Calls :
        /\ pc'[d] \notin {"new", "failed"} => pc[d] \notin {"new", "failed"}
        /\ pc[d] \in Past => pc'[d] \in Past
        /\ pc'[d] \in Early => pc[d] \in Early
        /\ pc'[d] \in {"diff", "seal", "save"} => pc[d] = pc'[d]
        /\ pc'[d] \in {"notify", "ack", "ok"} => pc[d] \in {"notify", "ack", "ok"}
    /\ \A d \in notified' \ notified : pc[d] = "notify"

\* A step is quiet or one of the record-building and inserting steps.
LEMMA StepKinds ==
    ASSUME TypeOK, QueueInv, [Next]_vars
    PROVE  \/ Quiet
           \/ \E c \in Calls :
                \/ Version(c)
                \/ Sequence(c)
                \/ DiffPrevious(c) \/ DiffFallback(c)
                \/ Seal(c) \/ SealFails(c)
                \/ Save(c) \/ SaveUnknown(c)
<1> USE DEF Goto, durable, Early, Past
<1>1. ASSUME NEW c \in Calls, VersionRejected(c) \/ WALAppendFails(c) PROVE Quiet
  BY <1>1 DEF VersionRejected, WALAppendFails, Quiet, TypeOK
<1>2. ASSUME NEW c \in Calls, WALAppend(c) PROVE Quiet
  BY <1>2 DEF WALAppend, Quiet, TypeOK
<1>3. ASSUME NEW c \in Calls, Submit(c) \/ SubmitRefused(c) \/ SubmitPanics(c) PROVE Quiet
  BY <1>3 DEF Submit, SubmitRefused, SubmitPanics, Quiet, TypeOK
<1>4. ASSUME NEW c \in Calls, Take(c) PROVE Quiet
  <2>1. pc[c] = "queued"
    BY <1>4, QueueHead DEF Take, TypeOK, QueueInv
  <2> QED
    BY <1>4, <2>1 DEF Take, Quiet, TypeOK
<1>5. ASSUME NEW c \in Calls, BeforeWrite(c) PROVE Quiet
  BY <1>5 DEF BeforeWrite, Quiet, TypeOK
<1>6. ASSUME NEW c \in Calls, Fail(c) PROVE Quiet
  BY <1>6 DEF Fail, Quiet, TypeOK
<1>7. ASSUME NEW c \in Calls, Notify(c) PROVE Quiet
  BY <1>7 DEF Notify, Quiet, TypeOK
<1>8. ASSUME NEW c \in Calls, Ack(c) \/ AckFails(c) PROVE Quiet
  BY <1>8 DEF Ack, AckFails, Quiet, TypeOK
<1>9. CASE Shutdown \/ CloseWork \/ Recover \/ UNCHANGED vars
  BY <1>9 DEF Shutdown, CloseWork, Recover, vars, Quiet
<1>10. CASE Crash
  <2>1. ASSUME NEW c \in Calls
        PROVE  \/ pc[c] \in Final \cup {"new"} /\ pc'[c] = pc[c]
               \/ pc[c] \notin Final \cup {"new"} /\ pc'[c] = "lost"
    BY <1>10 DEF Crash
  <2> QED
    BY <1>10, <2>1 DEF Crash, Quiet, Final
<1> QED
  BY <1>1, <1>2, <1>3, <1>4, <1>5, <1>6, <1>7, <1>8, <1>9, <1>10
  DEF Next, Caller, Pipeline, Terminated

-----------------------------------------------------------------------------
(* Rows *)

\* No step gives a call the record of another call or another entity.
LEMMA OwnedStep ==
    ASSUME TypeOK, QueueInv, RecordsOwned, [Next]_vars
    PROVE  RecordsOwned'
<1>1. CASE Quiet
  BY <1>1 DEF Quiet, RecordsOwned
<1>2. ASSUME NEW c \in Calls, Version(c) PROVE RecordsOwned'
  BY <1>2, VersionDoes DEF RecordsOwned, TypeOK
<1>3. ASSUME NEW c \in Calls, Sequence(c) PROVE RecordsOwned'
  <2>1. req' = req
    BY <1>3 DEF Sequence
  <2>2. PICK t, l : /\ rec' = [rec EXCEPT ![c] = t] /\ pc' = [pc EXCEPT ![c] = l]
                    /\ pc[c] = "sequence" /\ t.id = rec[c].id /\ t.entity = rec[c].entity
    BY <1>3, SequenceDoes
  <2> QED
    BY <2>1, <2>2 DEF RecordsOwned, TypeOK
<1>4. ASSUME NEW c \in Calls, DiffPrevious(c) \/ DiffFallback(c) PROVE RecordsOwned'
  <2>1. req' = req
    BY <1>4 DEF DiffPrevious, DiffFallback
  <2>2. PICK t : /\ rec' = [rec EXCEPT ![c] = t] /\ pc' = [pc EXCEPT ![c] = "seal"]
                 /\ pc[c] = "diff" /\ t.id = rec[c].id /\ t.entity = rec[c].entity
    BY <1>4, DiffDoes
  <2> QED
    BY <2>1, <2>2 DEF RecordsOwned, TypeOK
<1>5. ASSUME NEW c \in Calls, Seal(c) \/ SealFails(c) PROVE RecordsOwned'
  <2>1. req' = req
    BY <1>5 DEF Seal, SealFails
  <2>2. PICK t : /\ rec' = [rec EXCEPT ![c] = t] /\ pc' = [pc EXCEPT ![c] = "save"]
                 /\ pc[c] = "seal" /\ t.id = rec[c].id /\ t.entity = rec[c].entity
    BY <1>5, SealDoes
  <2> QED
    BY <2>1, <2>2 DEF RecordsOwned, TypeOK
<1>6. ASSUME NEW c \in Calls, Save(c) \/ SaveUnknown(c) PROVE RecordsOwned'
  <2>1. PICK l : /\ rec' = rec /\ req' = req /\ pc' = [pc EXCEPT ![c] = l]
                 /\ pc[c] = "save"
    BY <1>6, SaveDoes
  <2> QED
    BY <2>1 DEF RecordsOwned, TypeOK
<1> QED
  BY <1>1, <1>2, <1>3, <1>4, <1>5, <1>6, StepKinds

\* Record-building steps leave the store and the subscribers alone.
LEMMA StoreKept ==
    ASSUME NEW c \in Calls, \/ Version(c) \/ Sequence(c) \/ DiffPrevious(c) \/ DiffFallback(c)
                            \/ Seal(c) \/ SealFails(c)
    PROVE  store' = store /\ notified' = notified
BY DEF Version, Sequence, DiffPrevious, DiffFallback, Seal, SealFails, durable

\* Once a row is inserted its record never changes.
LEMMA FrozenStep ==
    ASSUME TypeOK, QueueInv, RecordsOwned, RowsFrozen, [Next]_vars
    PROVE  RowsFrozen'
<1> USE DEF Past
<1>1. CASE Quiet
  BY <1>1 DEF Quiet, RowsFrozen, TypeOK, IsRecord
<1>2. ASSUME NEW c \in Calls, NEW t, rec' = [rec EXCEPT ![c] = t], NEW l,
             pc' = [pc EXCEPT ![c] = l], pc[c] \notin Past, store' = store
      PROVE  RowsFrozen'
  BY <1>2 DEF RowsFrozen, TypeOK
<1>3. ASSUME NEW c \in Calls, Version(c) PROVE RowsFrozen'
  BY <1>2, <1>3, VersionDoes, StoreKept
<1>4. ASSUME NEW c \in Calls, Sequence(c) PROVE RowsFrozen'
  <2>1. PICK t, l : /\ rec' = [rec EXCEPT ![c] = t] /\ pc' = [pc EXCEPT ![c] = l]
                    /\ pc[c] = "sequence"
    BY <1>4, SequenceDoes
  <2> QED
    BY <1>2, <1>4, <2>1, StoreKept
<1>5. ASSUME NEW c \in Calls, DiffPrevious(c) \/ DiffFallback(c) PROVE RowsFrozen'
  <2>1. PICK t : /\ rec' = [rec EXCEPT ![c] = t] /\ pc' = [pc EXCEPT ![c] = "seal"]
                 /\ pc[c] = "diff"
    BY <1>5, DiffDoes
  <2> QED
    BY <1>2, <1>5, <2>1, StoreKept
<1>6. ASSUME NEW c \in Calls, Seal(c) \/ SealFails(c) PROVE RowsFrozen'
  <2>1. PICK t : /\ rec' = [rec EXCEPT ![c] = t] /\ pc' = [pc EXCEPT ![c] = "save"]
                 /\ pc[c] = "seal"
    BY <1>6, SealDoes
  <2> QED
    BY <1>2, <1>6, <2>1, StoreKept
<1>7. ASSUME NEW c \in Calls, Save(c) \/ SaveUnknown(c) PROVE RowsFrozen'
  <2>1. PICK l \in {"notify", "failed"} :
            /\ rec' = rec /\ pc' = [pc EXCEPT ![c] = l] /\ pc[c] = "save"
            /\ store' = store \cup {Row(rec[c])}
            /\ IsRecord(rec[c]) /\ Row(rec[c]).id = rec[c].id
    BY <1>7, SaveDoes
  <2>2. rec[c].id = c
    BY <2>1 DEF RecordsOwned
  <2> QED
    BY <2>1, <2>2 DEF RowsFrozen, TypeOK
<1> QED
  BY <1>1, <1>3, <1>4, <1>5, <1>6, <1>7, StepKinds

\* When a version is missing, so are all versions above it.
LEMMA NoRowAbove ==
    ASSUME TypeOK, VersionsGapless, NEW e, NEW v \in Nat, v >= 1, ByVersion(e, v) = {},
           NEW p \in Rows(e)
    PROVE  p.version < v
<1>1. p \in store /\ p.entity = e /\ p.version \in Nat
  BY RowsTyped
<1>2. SUFFICES ASSUME p.version >= v PROVE FALSE
  BY <1>1
<1>3. v \in 1..p.version
  BY <1>1, <1>2
<1> QED
  BY <1>1, <1>3 DEF VersionsGapless

\* An insert that passes the UNIQUE constraint extends the numbering by one.
LEMMA GaplessStep ==
    ASSUME TypeOK, QueueInv, Founded, VersionsGapless, [Next]_vars
    PROVE  VersionsGapless'
<1> USE DEF ByVersion, Rows
<1>1. CASE store' = store
  BY <1>1 DEF VersionsGapless
<1>2. ASSUME NEW c \in Calls, Save(c) \/ SaveUnknown(c) PROVE VersionsGapless'
  <2>1. PICK t : /\ store' = store \cup {t} /\ IsRecord(t)
                 /\ ByVersion(t.entity, t.version) = {}
                 /\ t.version >= 1
                 /\ t.version > 1 => ByVersion(t.entity, t.version - 1) # {}
    BY <1>2, SaveDoes DEF Founded
  <2>2. t.version \in Nat /\ \A r \in store : r.version \in Nat
    BY <2>1 DEF TypeOK, IsRecord
  <2>3. \A r, q \in store' : r.entity = q.entity /\ r.version = q.version => r = q
    BY <2>1 DEF VersionsGapless
  <2>4. ASSUME NEW v \in 1..t.version PROVE \E q \in store' : q.entity = t.entity /\ q.version = v
    <3>1. CASE v = t.version
      BY <2>1, <3>1
    <3>2. CASE v < t.version
      <4>1. PICK q \in store : q.entity = t.entity /\ q.version = t.version - 1
        BY <2>1, <2>2, <3>2
      <4>2. v \in 1..q.version
        BY <2>2, <3>2, <4>1
      <4> QED
        BY <2>1, <4>1, <4>2 DEF VersionsGapless
    <3> QED
      BY <2>2, <3>1, <3>2
  <2>5. ASSUME NEW r \in store', NEW v \in 1..r.version
        PROVE  \E q \in store' : q.entity = r.entity /\ q.version = v
    BY <2>1, <2>4 DEF VersionsGapless
  <2>6. \A r \in store' : r.version >= 1
    BY <2>1 DEF VersionsGapless
  <2> QED
    BY <2>3, <2>5, <2>6 DEF VersionsGapless
<1> QED
  BY <1>1, <1>2, StepKinds, StoreKept DEF Quiet

\* The latest version is at or above any version that exists.
LEMMA LatestAt ==
    ASSUME TypeOK, NEW e, NEW p \in Latest(e), NEW v \in Nat, ByVersion(e, v) # {}
    PROVE  p \in Rows(e) /\ p.version \in Nat /\ p.version >= v
BY RowsTyped DEF Latest, ByVersion

\* A number drawn by NextVersion keeps a stored predecessor.
LEMMA FoundedStep ==
    ASSUME TypeOK, QueueInv, RecordsOwned, VersionsGapless, Founded, [Next]_vars
    PROVE  Founded'
<1> USE DEF ByVersion, Rows
<1>1. CASE Quiet
  BY <1>1 DEF Quiet, Founded
<1>2. ASSUME NEW c \in Calls, Version(c) PROVE Founded'
  <2>1. PICK t, l : /\ rec' = [rec EXCEPT ![c] = t] /\ pc' = [pc EXCEPT ![c] = l]
                    /\ l \in {"hook", "append", "submit"}
    BY <1>2, VersionDoes
  <2> QED
    BY <1>2, <2>1, StoreKept DEF Founded, TypeOK
<1>3. ASSUME NEW c \in Calls, Sequence(c) PROVE Founded'
  <2>1. PICK t : /\ rec' = [rec EXCEPT ![c] = t]
                 /\ pc' = [pc EXCEPT ![c] = IF t.strategy = "full" THEN "seal" ELSE "diff"]
                 /\ pc[c] = "sequence" /\ t.entity = rec[c].entity
                 /\ t.version \in NextVersion(req[c].entity)
    BY <1>3, SequenceDoes
  <2>2. t.entity = req[c].entity
    BY <2>1 DEF RecordsOwned
  <2>3. t.version \in Nat /\ t.version >= 1
    BY <2>1, NextVersionIs, RowsTyped DEF Latest
  <2>4. t.version > 1 => \E p \in store : p.entity = t.entity /\ p.version = t.version - 1
    BY <2>1, <2>2, NextVersionIs, RowsTyped DEF Latest
  <2> QED
    BY <1>3, <2>1, <2>3, <2>4, StoreKept DEF Founded, TypeOK
<1>4. ASSUME NEW c \in Calls, DiffPrevious(c) \/ DiffFallback(c) PROVE Founded'
  <2>1. PICK t : /\ rec' = [rec EXCEPT ![c] = t] /\ pc' = [pc EXCEPT ![c] = "seal"]
                 /\ pc[c] = "diff" /\ t.version = rec[c].version /\ t.entity = rec[c].entity
    BY <1>4, DiffDoes
  <2> QED
    BY <1>4, <2>1, StoreKept DEF Founded, TypeOK
<1>5. ASSUME NEW c \in Calls, Seal(c) \/ SealFails(c) PROVE Founded'
  <2>1. PICK t : /\ rec' = [rec EXCEPT ![c] = t] /\ pc' = [pc EXCEPT ![c] = "save"]
                 /\ pc[c] = "seal" /\ t.version = rec[c].version /\ t.entity = rec[c].entity
    BY <1>5, SealDoes
  <2> QED
    BY <1>5, <2>1, StoreKept DEF Founded, TypeOK
<1>6. ASSUME NEW c \in Calls, Save(c) \/ SaveUnknown(c) PROVE Founded'
  <2>1. PICK t : /\ store' = store \cup {t} /\ rec' = rec
                 /\ pc' = [pc EXCEPT ![c] = pc'[c]] /\ pc'[c] \in {"notify", "failed"}
    BY <1>6, SaveDoes
  <2> QED
    BY <2>1 DEF Founded, TypeOK
<1> QED
  BY <1>1, <1>2, <1>3, <1>4, <1>5, <1>6, StepKinds

-----------------------------------------------------------------------------
(* Deltas *)

\* A diff that passes ValidateDelta, or is empty and skips it, replays.
LEMMA DiffReplays ==
    ASSUME NEW a, NEW b, NEW delta, delta = Diff(a, b),
           IsEmpty(delta) \/ Apply(a, delta) = b
    PROVE  Replays(a, delta, b)
<1>1. CASE IsEmpty(delta)
  BY <1>1 DEF Replays, IsEmpty, Diff
<1>2. CASE ~IsEmpty(delta)
  BY <1>2 DEF Replays
<1> QED
  BY <1>1, <1>2

\* A call keeps a delta against a version at or above its predecessor.
LEMMA DeltaFoundedStep ==
    ASSUME TypeOK, QueueInv, RecordsOwned, Founded, DeltaFounded, [Next]_vars
    PROVE  DeltaFounded'
<1> USE DEF Rows
<1>1. CASE Quiet
  BY <1>1 DEF Quiet, DeltaFounded
<1>2. ASSUME NEW c \in Calls, Version(c) PROVE DeltaFounded'
  <2>1. PICK t, l : /\ rec' = [rec EXCEPT ![c] = t] /\ pc' = [pc EXCEPT ![c] = l]
                    /\ l \in {"hook", "append", "submit"}
    BY <1>2, VersionDoes
  <2> QED
    BY <1>2, <2>1, StoreKept DEF DeltaFounded, TypeOK
<1>3. ASSUME NEW c \in Calls, Sequence(c) PROVE DeltaFounded'
  <2>1. PICK t : /\ rec' = [rec EXCEPT ![c] = t]
                 /\ pc' = [pc EXCEPT ![c] = IF t.strategy = "full" THEN "seal" ELSE "diff"]
                 /\ t.version \in NextVersion(req[c].entity)
                 /\ t.strategy = SelectStrategy(t.version, req[c].strategy)
    BY <1>3, SequenceDoes
  <2>2. t.version \in Nat
    BY <2>1, NextVersionIs
  <2>3. t.strategy # "full" => t.version > 1
    BY <2>1, <2>2 DEF SelectStrategy
  <2> QED
    BY <1>3, <2>1, <2>3, StoreKept DEF DeltaFounded, TypeOK
<1>4. ASSUME NEW c \in Calls, DiffPrevious(c) \/ DiffFallback(c) PROVE DeltaFounded'
  <2>1. PICK t : /\ rec' = [rec EXCEPT ![c] = t]
                 /\ pc' = [pc EXCEPT ![c] = "seal"] /\ pc[c] = "diff"
                 /\ IsRecord(t) /\ t.entity = rec[c].entity /\ t.version = rec[c].version
                 /\ \/ t.strategy = "full"
                    \/ \E p \in Latest(req[c].entity) :
                          /\ t.delta = Diff(p.data, t.data)
                          /\ IsEmpty(t.delta) \/ Apply(p.data, t.delta) = t.data
    BY <1>4, DiffDoes
  <2>2. /\ t.entity = req[c].entity /\ t.version > 1 /\ t.version \in Nat /\ t.data \in Values
        /\ ByVersion(t.entity, t.version - 1) # {}
    BY <2>1 DEF RecordsOwned, Founded, DeltaFounded, IsRecord
  <2>3. ASSUME NEW p \in Latest(req[c].entity), t.delta = Diff(p.data, t.data),
               IsEmpty(t.delta) \/ Apply(p.data, t.delta) = t.data
        PROVE  \E q \in store : /\ q.entity = t.entity /\ q.version >= t.version - 1
                                /\ Replays(q.data, t.delta, t.data)
    <3>1. t.version - 1 \in Nat
      BY <2>2
    <3>2. p \in Rows(t.entity) /\ p.version >= t.version - 1
      BY <2>2, <3>1, LatestAt
    <3>3. p \in store /\ p.entity = t.entity /\ p.data \in Values
      BY <3>2, RowsTyped
    <3>4. Replays(p.data, t.delta, t.data)
      BY <2>3, DiffReplays
    <3> QED
      BY <3>2, <3>3, <3>4
  <2>4. t.strategy = "delta" =>
            \E q \in store : /\ q.entity = t.entity /\ q.version >= t.version - 1
                             /\ Replays(q.data, t.delta, t.data)
    BY <2>1, <2>3
  <2> QED
    BY <1>4, <2>1, <2>2, <2>4, StoreKept DEF DeltaFounded, TypeOK
<1>5. ASSUME NEW c \in Calls, Seal(c) \/ SealFails(c) PROVE DeltaFounded'
  <2>1. PICK t : /\ rec' = [rec EXCEPT ![c] = t]
                 /\ pc' = [pc EXCEPT ![c] = "save"] /\ pc[c] = "seal"
                 /\ t.entity = rec[c].entity /\ t.version = rec[c].version
                 /\ t.strategy = rec[c].strategy /\ t.delta = rec[c].delta
                 /\ t.data = rec[c].data
    BY <1>5, SealDoes
  <2> QED
    BY <1>5, <2>1, StoreKept DEF DeltaFounded, TypeOK
<1>6. ASSUME NEW c \in Calls, Save(c) \/ SaveUnknown(c) PROVE DeltaFounded'
  <2>1. PICK t, l : /\ store' = store \cup {t} /\ rec' = rec
                    /\ pc' = [pc EXCEPT ![c] = l] /\ l \in {"notify", "failed"}
    BY <1>6, SaveDoes
  <2> QED
    BY <2>1 DEF DeltaFounded, TypeOK
<1> QED
  BY <1>1, <1>2, <1>3, <1>4, <1>5, <1>6, StepKinds

\* No step changes the record behind a row.
LEMMA RecordsOfRowsKept ==
    ASSUME TypeOK, QueueInv, RowsFrozen, [Next]_vars, NEW r \in store
    PROVE  rec'[r.id] = rec[r.id]
<1>1. pc[r.id] \in Past /\ r.id \in Calls
  BY DEF RowsFrozen, TypeOK, IsRecord, Past
<1> USE DEF Past
<1>2. ASSUME NEW c \in Calls, \/ Version(c) \/ Sequence(c) \/ DiffPrevious(c) \/ DiffFallback(c)
                              \/ Seal(c) \/ SealFails(c)
      PROVE  rec'[r.id] = rec[r.id]
  <2>1. pc[c] \in {"new", "sequence", "diff", "seal"}
    BY <1>2 DEF Version, Sequence, DiffPrevious, DiffFallback, Seal, SealFails
  <2>2. \E t : rec' = [rec EXCEPT ![c] = t]
    BY <1>2, VersionDoes, SequenceDoes, DiffDoes, SealDoes
  <2> QED
    BY <1>1, <2>1, <2>2 DEF TypeOK
<1> QED
  BY <1>2, StepKinds, SaveDoes DEF Quiet

\* When its insert succeeds, a delta was taken against the version before it.
LEMMA DeltaReplaysStep ==
    ASSUME TypeOK, QueueInv, RowsFrozen, RecordsOwned, VersionsGapless, Founded,
           DeltaFounded, DeltaReplays, [Next]_vars
    PROVE  DeltaReplays'
<1> USE DEF ByVersion, Rows
<1>1. CASE store' = store
  BY <1>1, RecordsOfRowsKept DEF DeltaReplays
<1>2. ASSUME NEW c \in Calls, Save(c) \/ SaveUnknown(c) PROVE DeltaReplays'
  <2>1. PICK t : /\ store' = store \cup {t} /\ rec' = rec /\ IsRecord(t)
                 /\ pc[c] = "save" /\ t.id = rec[c].id
                 /\ ByVersion(t.entity, t.version) = {}
                 /\ t.entity = rec[c].entity /\ t.version = rec[c].version
                 /\ t.strategy = rec[c].strategy /\ t.data = rec[c].data
    BY <1>2, SaveDoes
  <2>2. t.id = c /\ t.version \in Nat /\ t.version >= 1
    BY <2>1 DEF RecordsOwned, Founded, IsRecord
  <2>3. ASSUME t.strategy = "delta"
        PROVE  \E p \in store : /\ p.entity = t.entity /\ p.version = t.version - 1
                                /\ Replays(p.data, rec[c].delta, t.data)
    <3>1. PICK p \in Rows(t.entity) :
              p.version >= t.version - 1 /\ Replays(p.data, rec[c].delta, t.data)
      BY <2>1, <2>3 DEF DeltaFounded
    <3>2. p.version < t.version
      BY <2>1, <2>2, NoRowAbove
    <3>3. p \in store /\ p.entity = t.entity /\ p.version \in Nat
      BY RowsTyped
    <3>4. p.version = t.version - 1
      BY <2>2, <3>1, <3>2, <3>3
    <3> QED
      BY <3>1, <3>3, <3>4
  <2> QED
    BY <2>1, <2>2, <2>3 DEF DeltaReplays
<1> QED
  BY <1>1, <1>2, StepKinds, StoreKept DEF Quiet

-----------------------------------------------------------------------------
(* The hash chain *)

\* A link to the previous version survives inserts.
LEMMA LinkKept ==
    ASSUME NEW r, LinkedTo(r), store \subseteq store'
    PROVE  LinkedTo(r)'
BY DEF LinkedTo, ByVersion, Rows, Hash

\* Records and rows with a hash are linked to the version before them.
LEMMA SealFoundedStep ==
    ASSUME TypeOK, QueueInv, RecordsOwned, Founded, SealFounded, [Next]_vars
    PROVE  SealFounded'
<1>1. CASE Quiet
  <2>1. store' = store /\ rec' = rec
    BY <1>1 DEF Quiet
  <2>2. \A c \in Calls : pc'[c] \in Early => rec'[c].hash = Null
    BY <1>1, <2>1 DEF Quiet, SealFounded
  <2>3. ASSUME NEW c \in Calls, pc'[c] = "save" PROVE LinkedTo(rec[c])'
    <3>1. LinkedTo(rec[c])
      BY <1>1, <2>3 DEF Quiet, SealFounded
    <3> QED
      BY <2>1, <3>1 DEF LinkedTo, ByVersion, Rows, Hash
  <2>4. ASSUME NEW r \in store PROVE LinkedTo(r)'
    BY <2>1, LinkKept DEF SealFounded
  <2> QED
    BY <2>1, <2>2, <2>3, <2>4 DEF SealFounded
<1>2. ASSUME NEW c \in Calls, NEW t, rec' = [rec EXCEPT ![c] = t], NEW l,
             pc' = [pc EXCEPT ![c] = l], store' = store,
             l \in Early => t.hash = Null,
             l = "save" => LinkedTo(t)
      PROVE  SealFounded'
  <2>1. \A d \in Calls : pc'[d] \in Early => rec'[d].hash = Null
    BY <1>2 DEF SealFounded, TypeOK
  <2>2. ASSUME NEW d \in Calls, pc'[d] = "save" PROVE LinkedTo(rec[d])'
    <3>1. LinkedTo(rec'[d])
      BY <1>2, <2>2 DEF SealFounded, TypeOK
    <3> QED
      BY <1>2, <3>1 DEF LinkedTo, ByVersion, Rows, Hash
  <2>3. ASSUME NEW r \in store PROVE LinkedTo(r)'
    BY <1>2, LinkKept DEF SealFounded
  <2> QED
    BY <1>2, <2>1, <2>2, <2>3 DEF SealFounded
<1>3. ASSUME NEW c \in Calls, Version(c) PROVE SealFounded'
  <2>1. PICK t, l : /\ rec' = [rec EXCEPT ![c] = t] /\ pc' = [pc EXCEPT ![c] = l]
                    /\ l \in {"hook", "append", "submit"} /\ t.hash = Null
    BY <1>3, VersionDoes
  <2> QED
    BY <1>2, <1>3, <2>1, StoreKept
<1>4. ASSUME NEW c \in Calls, Sequence(c) PROVE SealFounded'
  <2>1. PICK t, l : /\ rec' = [rec EXCEPT ![c] = t] /\ pc' = [pc EXCEPT ![c] = l]
                    /\ l \in {"seal", "diff"} /\ t.hash = rec[c].hash /\ pc[c] = "sequence"
    BY <1>4, SequenceDoes
  <2>2. t.hash = Null
    BY <2>1 DEF SealFounded, Early
  <2> QED
    BY <1>2, <1>4, <2>1, <2>2, StoreKept
<1>5. ASSUME NEW c \in Calls, DiffPrevious(c) \/ DiffFallback(c) PROVE SealFounded'
  <2>1. PICK t : /\ rec' = [rec EXCEPT ![c] = t] /\ pc' = [pc EXCEPT ![c] = "seal"]
                 /\ t.hash = rec[c].hash /\ pc[c] = "diff"
    BY <1>5, DiffDoes
  <2>2. t.hash = Null
    BY <2>1 DEF SealFounded, Early
  <2> QED
    BY <1>2, <1>5, <2>1, <2>2, StoreKept
<1>6. ASSUME NEW c \in Calls, Seal(c) \/ SealFails(c) PROVE SealFounded'
  <2>1. PICK t : /\ rec' = [rec EXCEPT ![c] = t]
                 /\ pc' = [pc EXCEPT ![c] = "save"] /\ pc[c] = "seal"
                 /\ IsRecord(t) /\ t.version = rec[c].version
                 /\ \/ t.hash = rec[c].hash
                    \/ /\ t.hash = Hash(t)
                       /\ \/ t.version <= 1 /\ t.prev = Null
                          \/ /\ t.version > 1
                             /\ \E p \in ByVersion(t.entity, t.version - 1) : t.prev = p.hash
    BY <1>6, SealDoes
  <2>2. rec[c].hash = Null /\ t.version >= 1 /\ t.version \in Nat
    BY <2>1 DEF SealFounded, Early, Founded, IsRecord
  <2>3. LinkedTo(t)
    BY <2>1, <2>2 DEF LinkedTo
  <2> QED
    BY <1>2, <1>6, <2>1, <2>3, StoreKept DEF Early
<1>7. ASSUME NEW c \in Calls, Save(c) \/ SaveUnknown(c) PROVE SealFounded'
  <2>1. PICK t, l : /\ t = Row(rec[c]) /\ store' = store \cup {t} /\ rec' = rec
                    /\ pc' = [pc EXCEPT ![c] = l] /\ l \in {"notify", "failed"}
                    /\ pc[c] = "save" /\ IsRecord(rec[c])
                    /\ t.entity = rec[c].entity /\ t.version = rec[c].version
                    /\ t.prev = rec[c].prev /\ t.hash = rec[c].hash
    BY <1>7, SaveDoes
  <2>2. Hash(t) = Hash(rec[c])
    BY <2>1, RowHash
  <2>3. LinkedTo(t)
    BY <2>1, <2>2 DEF SealFounded, LinkedTo
  <2>4. \A d \in Calls : pc'[d] \in Early => rec'[d].hash = Null
    BY <2>1 DEF SealFounded, Early, TypeOK
  <2>5. ASSUME NEW d \in Calls, pc'[d] = "save" PROVE LinkedTo(rec[d])'
    <3>1. LinkedTo(rec[d])
      BY <2>1, <2>5 DEF SealFounded, TypeOK
    <3> QED
      BY <2>1, <3>1 DEF LinkedTo, ByVersion, Rows, Hash
  <2>6. ASSUME NEW r \in store' PROVE LinkedTo(r)'
    BY <2>1, <2>3, LinkKept DEF SealFounded
  <2> QED
    BY <2>4, <2>5, <2>6 DEF SealFounded
<1> QED
  BY <1>1, <1>3, <1>4, <1>5, <1>6, <1>7, StepKinds

\* A truncated list in ascending order is closed downwards.
LEMMA ListedDown ==
    ASSUME TypeOK, IsFiniteSet(store), NEW e, NEW r \in Listed(e), NEW p \in Rows(e),
           p.version < r.version
    PROVE  p \in Listed(e)
<1> DEFINE Below(q) == {s \in Rows(e) : s.version < q.version}
<1>1. r \in Rows(e) /\ r.version \in Nat /\ p.version \in Nat
  BY RowsTyped DEF Listed
<1>2. Below(p) \subseteq Below(r)
  BY <1>1, RowsTyped
<1>3. IsFiniteSet(Below(r))
  <2>1. Below(r) \subseteq store
    BY DEF Rows
  <2> QED
    BY <2>1, FS_Subset
<1>4. /\ Cardinality(Below(p)) <= Cardinality(Below(r))
      /\ Cardinality(Below(p)) \in Nat /\ Cardinality(Below(r)) \in Nat
  BY <1>2, <1>3, FS_Subset, FS_CardinalityType
<1>5. Cardinality(Below(r)) < ListLimit
  BY DEF Listed
<1>6. Cardinality(Below(p)) < ListLimit
  BY <1>4, <1>5, SizesAssumption
<1> QED
  BY <1>6 DEF Listed

\* A gapless chain of linked rows passes Chain.VerifyIntegrity.
LEMMA LinkedChainVerifies ==
    ASSUME TypeOK, IsFiniteSet(store), VersionsGapless, SealFounded
    PROVE  ChainIntact
<1> SUFFICES ASSUME NEW e \in Entities, \A r \in Rows(e) : r.hash # Null,
                    NEW r \in Listed(e)
             PROVE  /\ r.hash = Hash(r)
                    /\ \/ r.prev = Null /\ \A q \in Listed(e) : q.version >= r.version
                       \/ \E p \in Listed(e) :
                            /\ p.version < r.version
                            /\ \A q \in Listed(e) : q.version <= p.version \/ q.version >= r.version
                            /\ r.prev = p.hash
  BY DEF ChainIntact, VerifyIntegrity
<1>1. r \in Rows(e) /\ r \in store /\ r.entity = e /\ r.version \in Nat /\ r.version >= 1
  BY RowsTyped DEF Listed, VersionsGapless
<1>2. LinkedTo(r) /\ r.hash # Null
  BY <1>1 DEF SealFounded
<1>3. \A q \in Listed(e) : q.version \in Nat /\ q.version >= 1
  BY RowsTyped DEF Listed, VersionsGapless
<1>4. CASE r.version = 1
  BY <1>2, <1>3, <1>4 DEF LinkedTo
<1>5. CASE r.version > 1
  <2>1. PICK p \in ByVersion(e, r.version - 1) : r.prev = p.hash
    BY <1>1, <1>2, <1>5 DEF LinkedTo
  <2>2. p \in Rows(e) /\ p.version = r.version - 1
    BY DEF ByVersion
  <2>3. p \in Listed(e)
    BY <1>1, <2>2, ListedDown
  <2>4. \A q \in Listed(e) : q.version <= p.version \/ q.version >= r.version
    BY <1>1, <1>3, <2>2
  <2>5. p.version < r.version
    BY <1>1, <2>2
  <2> QED
    BY <1>2, <2>1, <2>3, <2>4, <2>5 DEF LinkedTo
<1> QED
  BY <1>1, <1>4, <1>5

-----------------------------------------------------------------------------
(* Reports *)

\* Nothing is reported before it is stored.
LEMMA ReportedStep ==
    ASSUME TypeOK, QueueInv, Reported, [Next]_vars
    PROVE  Reported'
<1> USE DEF Past
<1>1. CASE Quiet
  <2>1. notified \subseteq Calls /\ notified' \subseteq Calls
    BY TypeStep DEF TypeOK
  <2>2. \A c \in notified' : pc[c] \in Past
    BY <1>1 DEF Quiet, Reported
  <2>3. \A c \in notified' : pc'[c] \in Past
    BY <1>1, <2>1, <2>2 DEF Quiet
  <2>4. ASSUME NEW c \in Calls, pc'[c] \in {"notify", "ack", "ok"} \/ c \in notified'
        PROVE  Row(rec[c]) \in store
    BY <1>1, <2>4 DEF Quiet, Reported
  <2>5. rec' = rec /\ store' = store
    BY <1>1 DEF Quiet
  <2> QED
    BY <2>3, <2>4, <2>5 DEF Reported
<1>2. ASSUME NEW c \in Calls, NEW t, rec' = [rec EXCEPT ![c] = t], NEW l,
             pc' = [pc EXCEPT ![c] = l], store' = store, notified' = notified,
             pc[c] \notin Past, l \notin Past
      PROVE  Reported'
  BY <1>2 DEF Reported, TypeOK
<1>3. ASSUME NEW c \in Calls, Version(c) PROVE Reported'
  <2>1. PICK t, l : /\ rec' = [rec EXCEPT ![c] = t] /\ pc' = [pc EXCEPT ![c] = l]
                    /\ l \in {"hook", "append", "submit"} /\ pc[c] = "new"
    BY <1>3, VersionDoes
  <2> QED
    BY <1>2, <1>3, <2>1, StoreKept
<1>4. ASSUME NEW c \in Calls, Sequence(c) PROVE Reported'
  <2>1. PICK t, l : /\ rec' = [rec EXCEPT ![c] = t] /\ pc' = [pc EXCEPT ![c] = l]
                    /\ l \in {"seal", "diff"} /\ pc[c] = "sequence"
    BY <1>4, SequenceDoes
  <2> QED
    BY <1>2, <1>4, <2>1, StoreKept
<1>5. ASSUME NEW c \in Calls, DiffPrevious(c) \/ DiffFallback(c) PROVE Reported'
  <2>1. PICK t : /\ rec' = [rec EXCEPT ![c] = t] /\ pc' = [pc EXCEPT ![c] = "seal"]
                 /\ pc[c] = "diff"
    BY <1>5, DiffDoes
  <2> QED
    BY <1>2, <1>5, <2>1, StoreKept
<1>6. ASSUME NEW c \in Calls, Seal(c) \/ SealFails(c) PROVE Reported'
  <2>1. PICK t : /\ rec' = [rec EXCEPT ![c] = t] /\ pc' = [pc EXCEPT ![c] = "save"]
                 /\ pc[c] = "seal"
    BY <1>6, SealDoes
  <2> QED
    BY <1>2, <1>6, <2>1, StoreKept
<1>7. ASSUME NEW c \in Calls, Save(c) \/ SaveUnknown(c) PROVE Reported'
  <2>1. PICK l : /\ store' = store \cup {Row(rec[c])} /\ rec' = rec /\ notified' = notified
                 /\ pc' = [pc EXCEPT ![c] = l] /\ l \in {"notify", "failed"}
    BY <1>7, SaveDoes
  <2> QED
    BY <2>1 DEF Reported, TypeOK
<1> QED
  BY <1>1, <1>3, <1>4, <1>5, <1>6, <1>7, StepKinds

-----------------------------------------------------------------------------
(* The write-ahead log *)

\* Steps other than Append and Ack leave the log; ended calls stay ended.
LEMMA WALFrame ==
    ASSUME TypeOK, QueueInv, [Next]_vars
    PROVE  /\ store \subseteq store'
           /\ \A c \in Calls : /\ pc[c] \in Final => pc'[c] \in Final
                               /\ pc'[c] \in {"new", "append"} => pc[c] \in {"new", "append"}
           /\ \/ wal' = wal /\ walID' = walID
              \/ \E c \in Calls : WALAppend(c) \/ Ack(c)
<1> USE DEF Goto, durable, Final
<1>1. ASSUME NEW c \in Calls, VersionRejected(c) \/ WALAppendFails(c)
      PROVE  /\ store' = store /\ wal' = wal /\ walID' = walID
             /\ pc' = [pc EXCEPT ![c] = "failed"] /\ pc[c] \notin Final
  BY <1>1 DEF VersionRejected, WALAppendFails
<1> DEFINE Frame == /\ store \subseteq store'
                    /\ \A c \in Calls :
                        /\ pc[c] \in Final => pc'[c] \in Final
                        /\ pc'[c] \in {"new", "append"} => pc[c] \in {"new", "append"}
           Same == wal' = wal /\ walID' = walID
<1>2. ASSUME NEW c \in Calls, NEW l, pc' = [pc EXCEPT ![c] = l], store \subseteq store',
             pc[c] \notin Final, l \notin {"new", "append"} \/ pc[c] = "new"
      PROVE  Frame
  BY <1>2 DEF TypeOK
<1> HIDE DEF Frame
<1>3. ASSUME NEW c \in Calls, VersionRejected(c) \/ WALAppendFails(c) PROVE Frame /\ Same
  BY <1>1, <1>2, <1>3
<1>4. ASSUME NEW c \in Calls, Version(c) PROVE Frame /\ Same
  <2>1. PICK l : pc' = [pc EXCEPT ![c] = l] /\ pc[c] = "new"
    BY <1>4, VersionDoes
  <2> QED
    BY <1>2, <1>4, <2>1 DEF Version
<1>5. ASSUME NEW c \in Calls, WALAppend(c) \/ Ack(c) PROVE Frame
  BY <1>2, <1>5 DEF WALAppend, Ack
<1>6. ASSUME NEW c \in Calls, Submit(c) \/ SubmitRefused(c) \/ SubmitPanics(c) PROVE Frame /\ Same
  BY <1>2, <1>6 DEF Submit, SubmitRefused, SubmitPanics
<1>7. ASSUME NEW c \in Calls, Take(c) PROVE Frame /\ Same
  <2>1. pc[c] = "queued"
    BY <1>7, QueueHead DEF Take, TypeOK, QueueInv
  <2> QED
    BY <1>2, <1>7, <2>1 DEF Take
<1>8. ASSUME NEW c \in Calls, BeforeWrite(c) \/ Fail(c) PROVE Frame /\ Same
  BY <1>2, <1>8 DEF BeforeWrite, Fail
<1>9. ASSUME NEW c \in Calls, Sequence(c) PROVE Frame /\ Same
  <2>1. PICK l : pc' = [pc EXCEPT ![c] = l] /\ pc[c] = "sequence" /\ l \in {"seal", "diff"}
    BY <1>9, SequenceDoes
  <2> QED
    BY <1>2, <1>9, <2>1 DEF Sequence
<1>10. ASSUME NEW c \in Calls, DiffPrevious(c) \/ DiffFallback(c) PROVE Frame /\ Same
  <2>1. pc' = [pc EXCEPT ![c] = "seal"] /\ pc[c] = "diff" /\ store' = store /\ Same
    BY <1>10 DEF DiffPrevious, DiffFallback
  <2> QED
    BY <1>2, <2>1
<1>11. ASSUME NEW c \in Calls, Seal(c) \/ SealFails(c) PROVE Frame /\ Same
  <2>1. pc' = [pc EXCEPT ![c] = "save"] /\ pc[c] = "seal" /\ store' = store /\ Same
    BY <1>11 DEF Seal, SealFails
  <2> QED
    BY <1>2, <2>1
<1>12. ASSUME NEW c \in Calls, Save(c) \/ SaveUnknown(c) PROVE Frame /\ Same
  BY <1>2, <1>12 DEF Save, SaveUnknown
<1>13. ASSUME NEW c \in Calls, Notify(c) \/ AckFails(c) PROVE Frame /\ Same
  BY <1>2, <1>13 DEF Notify, AckFails
<1>14. ASSUME Shutdown \/ CloseWork \/ Recover \/ UNCHANGED vars PROVE Frame /\ Same
  BY <1>14 DEF Shutdown, CloseWork, Recover, vars, Frame
<1>15. ASSUME Crash PROVE Frame /\ Same
  <2>1. ASSUME NEW c \in Calls
        PROVE  \/ pc[c] \in Final \cup {"new"} /\ pc'[c] = pc[c]
               \/ pc[c] \notin Final \cup {"new"} /\ pc'[c] = "lost"
    BY <1>15 DEF Crash
  <2> QED
    BY <1>15, <2>1 DEF Crash, Frame
<1> HIDE DEF Same
<1>16. ASSUME NEW c \in Calls, Caller(c)
       PROVE  Frame /\ (Same \/ WALAppend(c))
  BY <1>3, <1>4, <1>5, <1>6, <1>16 DEF Caller
<1>17. ASSUME NEW c \in Calls, Pipeline(c)
       PROVE  Frame /\ (Same \/ Ack(c))
  BY <1>5, <1>7, <1>8, <1>9, <1>10, <1>11, <1>12, <1>13, <1>17 DEF Pipeline
<1>18. Frame /\ (Same \/ \E c \in Calls : WALAppend(c) \/ Ack(c))
  BY <1>14, <1>15, <1>16, <1>17 DEF Next, Terminated
<1> QED
  BY <1>18 DEF Frame, Same

\* What is invariant of the log.
LogInv == LoggedUntilEnd /\ IDsDistinct /\ UnloggedBefore /\ NoSilentLoss

\* An acknowledgement never removes the entry of a call without a version.
LEMMA LogStep ==
    ASSUME TypeOK, QueueInv, RecordsOwned, Reported, LogInv, [Next]_vars
    PROVE  LogInv'
<1> USE DEF LogInv
<1>1. \A c \in Calls : Stored(c) => Stored(c)'
  BY WALFrame DEF Stored
<1>2. /\ \A c \in Calls : /\ pc[c] \in Final => pc'[c] \in Final
                          /\ pc'[c] \in {"new", "append"} => pc[c] \in {"new", "append"}
  BY WALFrame
<1>3. CASE wal' = wal /\ walID' = walID
  <2>1. LoggedUntilEnd'
    BY <1>2, <1>3 DEF LoggedUntilEnd
  <2>2. IDsDistinct'
    BY <1>1, <1>2, <1>3 DEF IDsDistinct
  <2>3. UnloggedBefore'
    BY <1>2, <1>3 DEF UnloggedBefore
  <2>4. NoSilentLoss'
    BY <1>1, <1>3 DEF NoSilentLoss
  <2> QED
    BY <2>1, <2>2, <2>3, <2>4
<1>4. ASSUME NEW c \in Calls, WALAppend(c) PROVE LogInv'
  <2>1. PICK id : /\ id # 0 /\ \A e \in wal : e.id # id
                  /\ wal' = wal \cup {[id |-> id, entity |-> req[c].entity]}
                  /\ walID' = [walID EXCEPT ![c] = id]
    BY <1>4 DEF WALAppend
  <2>2. pc' = [pc EXCEPT ![c] = "submit"]
    BY <1>4 DEF WALAppend, Goto
  <2>3. \A d \in Calls : walID'[d] = IF d = c THEN id ELSE walID[d]
    BY <2>1 DEF TypeOK
  <2>4. (\E e \in wal' : e.id = id) /\ wal \subseteq wal'
    <3>1. [id |-> id, entity |-> req[c].entity].id = id
      OBVIOUS
    <3> QED
      BY <2>1, <3>1
  <2>5. LoggedUntilEnd'
    BY <1>2, <2>3, <2>4 DEF LoggedUntilEnd
  <2>6. NoSilentLoss'
    BY <1>1, <2>3, <2>4 DEF NoSilentLoss
  <2>7. ASSUME NEW d \in Calls, walID[d] = id PROVE Stored(d) /\ pc[d] \in Final
    BY <2>1, <2>7 DEF LoggedUntilEnd, NoSilentLoss
  <2>8. IDsDistinct'
    BY <1>1, <1>2, <2>3, <2>7 DEF IDsDistinct
  <2>9. UnloggedBefore'
    BY <2>2, <2>3 DEF UnloggedBefore, TypeOK
  <2> QED
    BY <2>5, <2>6, <2>8, <2>9
<1>5. ASSUME NEW c \in Calls, Ack(c) PROVE LogInv'
  <2>1. /\ wal' = {e \in wal : e.id # walID[c]} /\ walID' = walID /\ pc[c] = "ack"
        /\ store' = store /\ pc' = [pc EXCEPT ![c] = "ok"]
    BY <1>5 DEF Ack, Goto
  <2>2. Stored(c)
    <3>1. Row(rec[c]) \in store /\ rec[c].id = c /\ IsRecord(rec[c])
      BY <2>1 DEF Reported, RecordsOwned, TypeOK
    <3>2. Row(rec[c]).id = c
      BY <3>1, RowFields
    <3> QED
      BY <3>1, <3>2 DEF Stored
  <2>3. ASSUME NEW d \in Calls, d # c, walID[d] = walID[c], walID[d] # 0
        PROVE  Stored(d) /\ pc[d] \in Final
    BY <2>1, <2>3 DEF IDsDistinct, Final
  <2>4. pc'[c] \in Final
    BY <2>1 DEF TypeOK, Final
  <2>5. LoggedUntilEnd'
    BY <1>2, <2>1, <2>3, <2>4 DEF LoggedUntilEnd
  <2>6. NoSilentLoss'
    BY <1>1, <2>1, <2>2, <2>3 DEF NoSilentLoss
  <2>7. IDsDistinct'
    BY <1>1, <1>2, <2>1 DEF IDsDistinct
  <2>8. UnloggedBefore'
    BY <1>2, <2>1 DEF UnloggedBefore
  <2> QED
    BY <2>5, <2>6, <2>7, <2>8
<1> QED
  BY <1>3, <1>4, <1>5, WALFrame

-----------------------------------------------------------------------------
(* Theorems *)

\* The inductive invariant.
IInv ==
    /\ TypeOK
    /\ QueueInv
    /\ RecordsOwned
    /\ RowsFrozen
    /\ Founded
    /\ VersionsGapless
    /\ SealFounded
    /\ Reported
    /\ LogInv
    /\ IsFiniteSet(store)

\* The inductive invariant of versionSync, its store and its log.
THEOREM AuditorInductive == Spec => []IInv
<1>1. Init => IInv
  <2> SUFFICES ASSUME Init PROVE IInv
    OBVIOUS
  <2> USE DEF Init
  <2>1. TypeOK
    <3>1. queue \in Seq(Calls) /\ Len(queue) <= QueueSize /\ crashes \in 0..MaxCrashes
      BY SizesAssumption
    <3> QED
      BY <3>1 DEF TypeOK, Labels
  <2>2. QueueInv
    BY DEF QueueInv
  <2>3. RecordsOwned /\ RowsFrozen /\ Founded /\ VersionsGapless
    BY DEF RecordsOwned, RowsFrozen, Founded, VersionsGapless
  <2>4. SealFounded /\ Reported
    BY DEF SealFounded, Reported, Early
  <2>5. LogInv
    BY DEF LogInv, LoggedUntilEnd, IDsDistinct, UnloggedBefore, NoSilentLoss
  <2>6. IsFiniteSet(store)
    BY FS_EmptySet
  <2> QED
    BY <2>1, <2>2, <2>3, <2>4, <2>5, <2>6 DEF IInv
<1>2. IInv /\ [Next]_vars => IInv'
  <2> SUFFICES ASSUME IInv, [Next]_vars PROVE IInv'
    OBVIOUS
  <2> USE DEF IInv
  <2>1. TypeOK' /\ QueueInv'
    BY TypeStep, QueueStep
  <2>2. RecordsOwned' /\ RowsFrozen' /\ Founded' /\ VersionsGapless'
    BY OwnedStep, FrozenStep, FoundedStep, GaplessStep
  <2>3. SealFounded' /\ Reported' /\ LogInv'
    BY SealFoundedStep, ReportedStep, LogStep
  <2>4. IsFiniteSet(store)'
    <3>1. store' = store \/ \E t : store' = store \cup {t}
      BY StepKinds, StoreKept, SaveDoes DEF Quiet
    <3> QED
      BY <3>1, FS_AddElement
  <2> QED
    BY <2>1, <2>2, <2>3, <2>4
<1> QED
  BY <1>1, <1>2, PTL DEF Spec

\* The types of the state, the capacity of the queue included.
THEOREM AuditorTypeCorrect == Spec => []TypeOK
BY AuditorInductive, PTL DEF IInv

\* However many calls race, without retries and through crashes, the versions of
\* an entity are 1, 2, ..., n, each once (sequence.go, UNIQUE in schema.go).
THEOREM AuditorVersionsGapless == Spec => []VersionsGapless
BY AuditorInductive, PTL DEF IInv

\* The chain racing calls write passes VerifyIntegrity for every list limit,
\* unless some version was saved without a hash (chain.go).
THEOREM AuditorChainIntact == Spec => []ChainIntact
<1>1. IInv => ChainIntact
  BY LinkedChainVerifies DEF IInv
<1> QED
  BY <1>1, AuditorInductive, PTL

\* A version that a PendingVersion or a subscriber reported is in the store
\* exactly as reported, also after crashes (versionSync, audit.go).
THEOREM AuditorReportedIsStored == Spec => []ReportedIsStored
<1>1. IInv => ReportedIsStored
  BY DEF IInv, Reported, ReportedIsStored
<1> QED
  BY <1>1, AuditorInductive, PTL

\* A call that was logged has its version or its WAL entry, even though IDs
\* drawn from the clock repeat (versionSync and dbwal.go).
THEOREM AuditorNoSilentLoss == Spec => []NoSilentLoss
<1>1. IInv => NoSilentLoss
  BY DEF IInv, LogInv
<1> QED
  BY <1>1, AuditorInductive, PTL

\* Every delta turns the stored version before it into its own, in the fields
\* that are not ignored at least, although versionSync reads the latest version
\* twice.
THEOREM AuditorDeltaReplays == Spec => []DeltaReplays
<1> DEFINE DInv == DeltaFounded /\ DeltaReplays
<1>1. Init => DInv
  BY DEF Init, DeltaFounded, DeltaReplays
<1>2. IInv /\ DInv /\ [Next]_vars => DInv'
  BY DeltaFoundedStep, DeltaReplaysStep DEF IInv
<1> QED
  BY <1>1, <1>2, AuditorInductive, PTL DEF Spec

=============================================================================
