------------------------------- MODULE Auditor ------------------------------
(***************************************************************************)
(* Auditor.Version and the pipeline behind it (audit.go, versionSync):     *)
(* concurrent calls, in the background through the worker pool or          *)
(* synchronous, that number, diff, hash-chain and save versions in an SQL  *)
(* store whose only protection is a UNIQUE constraint, with the DB-backed  *)
(* write-ahead log around the background calls, storage failures at every  *)
(* step, crashes, and recovery of the log at startup.                      *)
(*                                                                         *)
(* A step of a call is one access to shared state: one query, one insert,  *)
(* one WAL statement.  The pool is the queue of WorkQueue, which module    *)
(* Pool implements; the goroutines, selects and channels are studied there.*)
(***************************************************************************)
EXTENDS Naturals, Sequences, FiniteSets

CONSTANTS
    Calls,            \* the calls of Version; also the ID of the record a call builds
    Entities,         \* (entity type, entity ID) pairs
    Fields,           \* the fields of an entity
    Tracked,          \* the fields the diff engine looks at (not version:"ignore")
    Vals,             \* what a field can hold
    Modes,            \* "background" and "sync" (port.WithSync)
    Overrides,        \* per-call strategies (port.WithStrategy), Null for none
    DefaultStrategy,  \* Config.Strategy
    HybridInterval,   \* Config.HybridSnapshotInterval
    NumWorkers,       \* Config.PoolWorkers
    QueueSize,        \* Config.PoolQueueSize
    WALEnabled,       \* Config.WAL # nil
    ListLimit,        \* port.DefaultListOptions: 50
    MaxCrashes,       \* bound on crashes of the process
    Null              \* nil data, an empty hash, no option

Strategies == {"full", "delta", "hybrid"}

ASSUME FieldsAssumption == Tracked \subseteq Fields
ASSUME SizesAssumption ==
    /\ HybridInterval \in Nat
    /\ NumWorkers \in Nat \ {0}
    /\ QueueSize \in Nat \ {0}
    /\ ListLimit \in Nat
    /\ MaxCrashes \in Nat
ASSUME OptionsAssumption ==
    /\ WALEnabled \in BOOLEAN
    /\ Modes \subseteq {"background", "sync"}
    /\ Overrides \subseteq Strategies \cup {Null}
    /\ DefaultStrategy \in Strategies

VARIABLES
    store,      \* rows of audit_versions (durable)
    wal,        \* rows of audit_wal_entries (durable)
    clock,      \* time.Now().UnixNano() at the latest generateID
    stopped,    \* the pool's stopped flag: Submit may refuse
    closed,     \* the pool's work channel is closed: Submit accepts nothing
    queue,      \* the pool's work channel
    pc,         \* where a call is
    req,        \* its arguments
    rec,        \* the version record it is building
    walID,      \* the ID of its WAL entry, 0 for none
    notified,   \* calls whose record the subscriber was given
    recovered,  \* what WAL.Recover returned in this life of the process
    crashes     \* crashes so far

durable == <<store, wal>>
pool == <<stopped, closed, queue>>
process == <<recovered, crashes>>
vars == <<store, wal, clock, stopped, closed, queue, pc, req, rec, walID, notified,
          recovered, crashes>>

-----------------------------------------------------------------------------
(* Data *)

Values == [Fields -> Vals]

Requests == [entity : Entities, data : Values, mode : Modes, strategy : Overrides]

\* Differ.Diff reports the changed tracked fields with their new values;
\* nil and the empty delta are the same (Delta.IsEmpty).
Diff(a, b) == [f \in {g \in Tracked : a[g] # b[g]} |-> b[f]]
IsEmpty(delta) == DOMAIN delta = {}
NoDelta == [f \in {} |-> Null]

\* Differ.Apply
Apply(a, delta) == [f \in Fields |-> IF f \in DOMAIN delta THEN delta[f] ELSE a[f]]

\* SHA-256 of the canonical payload, free of collisions: the payload itself.
Hash(r) == <<r.entity, r.version, r.data, r.prev>>

\* The fields of VersionRecord the properties tell apart.
RecordFields == {"id", "entity", "version", "strategy", "data", "delta", "prev", "hash"}

NewRecord(c, q) ==
    [id |-> c, entity |-> q.entity, version |-> 0, strategy |-> "full",
     data |-> q.data, delta |-> NoDelta, prev |-> Null, hash |-> Null]

Numbered(r, v, s) == [r EXCEPT !.version = v, !.strategy = s]
Diffed(r, s, d)   == [r EXCEPT !.strategy = s, !.delta = d]
\* The hash is taken before the record is linked.
SealedUnlinked(r, p) == [r EXCEPT !.prev = p, !.hash = Hash(r)]

Sealed(r, p)      == LET linked == [r EXCEPT !.prev = p] IN [linked EXCEPT !.hash = Hash(linked)]
Unsealed(r, p)    == [r EXCEPT !.prev = p]

\* What the SQL adapters insert: audit_versions has no column for the delta.
Row(r) == [r EXCEPT !.delta = NoDelta]

\* The record of a WAL entry: Version logs entity type and ID, nothing else.
EntryRecord(e) ==
    [id |-> Null, entity |-> e.entity, version |-> 0, strategy |-> "full",
     data |-> Null, delta |-> NoDelta, prev |-> Null, hash |-> Null]

-----------------------------------------------------------------------------
(* The store *)

Rows(e) == {r \in store : r.entity = e}

\* GetLatest: the row with the highest version, if there is one.
Latest(e) == {r \in Rows(e) : \A q \in Rows(e) : q.version <= r.version}

\* GetByVersion
ByVersion(e, v) == {r \in Rows(e) : r.version = v}

\* UNIQUE (entity_type, entity_id, version)
Conflict(r) == ByVersion(r.entity, r.version) # {}

\* data NOT NULL
Insertable(r) == r.data # Null

-----------------------------------------------------------------------------

Init ==
    /\ store = {}
    /\ wal = {}
    /\ clock = 0
    /\ stopped = FALSE
    /\ closed = FALSE
    /\ queue = <<>>
    /\ pc = [c \in Calls |-> "new"]
    /\ req = [c \in Calls |-> Null]
    /\ rec = [c \in Calls |-> Null]
    /\ walID = [c \in Calls |-> 0]
    /\ notified = {}
    /\ recovered = "no"
    /\ crashes = 0

Goto(c, label) == pc' = [pc EXCEPT ![c] = label]

-----------------------------------------------------------------------------
(* Version, on the caller's goroutine *)

\* Clone, registry lookup and ID extraction succeed; a background call goes
\* on to the WAL or straight to the pool, a sync call runs the pipeline.
Version(c) ==
    /\ pc[c] = "new"
    /\ \E q \in Requests :
        /\ req' = [req EXCEPT ![c] = q]
        /\ rec' = [rec EXCEPT ![c] = NewRecord(c, q)]
        /\ \/ q.mode = "sync" /\ Goto(c, "hook")
           \/ q.mode # "sync" /\ WALEnabled /\ Goto(c, "append")
           \/ q.mode # "sync" /\ ~WALEnabled /\ Goto(c, "submit")
    /\ UNCHANGED <<durable, clock, pool, walID, notified, process>>

\* Clone fails, the type is not registered, or the ID is empty.
VersionRejected(c) ==
    /\ pc[c] = "new"
    /\ Goto(c, "failed")
    /\ UNCHANGED <<durable, clock, pool, req, rec, walID, notified, process>>

\* An ID taken from the clock that is not the key of the log.
WALAppendUnkeyed(c) ==
    /\ pc[c] = "append"
    /\ \E id \in {clock, clock + 1} \ {0} :
        /\ clock' = id
        /\ wal' = {e \in wal : e.id # id} \cup {[id |-> id, entity |-> req[c].entity]}
        /\ walID' = [walID EXCEPT ![c] = id]
        /\ Goto(c, "submit")
    /\ UNCHANGED <<store, pool, req, rec, notified, process>>

\* WAL.Append before the call enters the queue.  generateID reads the clock,
\* which may not have advanced since the last call; the ID is the primary key.
WALAppend(c) ==
    /\ pc[c] = "append"
    /\ \E id \in {clock, clock + 1} \ {0} :
        /\ clock' = id
        /\ \A e \in wal : e.id # id
        /\ wal' = wal \cup {[id |-> id, entity |-> req[c].entity]}
        /\ walID' = [walID EXCEPT ![c] = id]
        /\ Goto(c, "submit")
    /\ UNCHANGED <<store, pool, req, rec, notified, process>>

\* The insert fails, by a key that is taken or otherwise: Version returns it.
WALAppendFails(c) ==
    /\ pc[c] = "append"
    /\ Goto(c, "failed")
    /\ UNCHANGED <<durable, clock, pool, req, rec, walID, notified, process>>

\* Pool.Submit accepts the call; with a full queue it waits for room.  The
\* flag was read before: a call that found it clear may still be sent.
Submit(c) ==
    /\ pc[c] = "submit"
    /\ ~closed
    /\ Len(queue) < QueueSize
    /\ queue' = Append(queue, c)
    /\ Goto(c, "queued")
    /\ UNCHANGED <<durable, clock, stopped, closed, req, rec, walID, notified, process>>

\* Submit finds the flag set, or its context cancelled, and returns false:
\* the pending version is completed with an error.  The WAL entry stays.
SubmitRefused(c) ==
    /\ pc[c] = "submit"
    /\ stopped
    /\ Goto(c, "refused")
    /\ UNCHANGED <<durable, clock, pool, req, rec, walID, notified, process>>

\* A call that was past the flag sends on the closed channel and panics
\* (module Pool).  The WAL entry stays.
SubmitPanics(c) ==
    /\ pc[c] = "submit"
    /\ closed
    /\ Goto(c, "panicked")
    /\ UNCHANGED <<durable, clock, pool, req, rec, walID, notified, process>>

\* Auditor.Shutdown: Pool.Shutdown sets the flag ...
Shutdown ==
    /\ ~stopped
    /\ stopped' = TRUE
    /\ UNCHANGED <<durable, clock, closed, queue, pc, req, rec, walID, notified, process>>

\* ... and closes the channel; the workers drain the queue.
CloseWork ==
    /\ stopped
    /\ ~closed
    /\ closed' = TRUE
    /\ UNCHANGED <<durable, clock, stopped, queue, pc, req, rec, walID, notified, process>>

-----------------------------------------------------------------------------
(* versionSync, on a worker or on the caller's goroutine *)

Steps == {"hook", "sequence", "diff", "seal", "save", "notify", "ack"}

\* Background calls a worker is processing.
Busy == {c \in Calls : pc[c] \in Steps /\ req[c].mode = "background"}

\* A worker takes whichever queued call it likes.
TakeAny(c) ==
    /\ Cardinality(Busy) < NumWorkers
    /\ \E k \in 1..Len(queue) :
        /\ c = queue[k]
        /\ queue' = SubSeq(queue, 1, k - 1) \o SubSeq(queue, k + 1, Len(queue))
    /\ Goto(c, "hook")
    /\ UNCHANGED <<durable, clock, stopped, closed, req, rec, walID, notified, process>>

\* An idle worker takes the oldest queued call.
Take(c) ==
    /\ Cardinality(Busy) < NumWorkers
    /\ queue # <<>>
    /\ c = Head(queue)
    /\ queue' = Tail(queue)
    /\ Goto(c, "hook")
    /\ UNCHANGED <<durable, clock, stopped, closed, req, rec, walID, notified, process>>

\* BeforeWrite hooks and the metadata size guardrail let the call pass.
BeforeWrite(c) ==
    /\ pc[c] = "hook"
    /\ Goto(c, "sequence")
    /\ UNCHANGED <<durable, clock, pool, req, rec, walID, notified, process>>

\* A call that is started over after every error.
FailRetrying(c) ==
    /\ pc[c] \in {"hook", "sequence", "seal", "save"}
    /\ Goto(c, "hook")
    /\ UNCHANGED <<durable, clock, pool, req, rec, walID, notified, process>>

\* A call ends with an error: a hook rejects it, its metadata is too large,
\* GetLatest fails, Marshal fails, the entity is too large, or Save fails.
Fail(c) ==
    /\ pc[c] \in {"hook", "sequence", "seal", "save"}
    /\ Goto(c, "failed")
    /\ UNCHANGED <<durable, clock, pool, req, rec, walID, notified, process>>

\* HybridSnapshotInterval, with the default for values below 2.
Interval == IF HybridInterval < 2 THEN 10 ELSE HybridInterval

\* Hybrid that never comes back to a snapshot.
SelectStrategyNoSnapshot(next, override) ==
    LET strategy == IF override = Null THEN DefaultStrategy ELSE override
    IN IF next <= 1 \/ strategy = "full" THEN "full" ELSE "delta"

\* version.SelectStrategy
SelectStrategy(next, override) ==
    LET strategy == IF override = Null THEN DefaultStrategy ELSE override
    IN IF \/ next <= 1
          \/ strategy = "full"
          \/ strategy = "hybrid" /\ next % Interval = 1
       THEN "full"
       ELSE "delta"

\* version.NextVersion: one more than the latest, 1 when there is none.
NextVersion(e) ==
    IF Rows(e) = {} THEN {1} ELSE {r.version + 1 : r \in Latest(e)}

\* Number the version and choose its strategy.
Sequence(c) ==
    /\ pc[c] = "sequence"
    /\ \E next \in NextVersion(req[c].entity) :
        LET strategy == SelectStrategy(next, req[c].strategy)
        IN /\ rec' = [rec EXCEPT ![c] = Numbered(@, next, strategy)]
           /\ Goto(c, IF strategy = "full" THEN "seal" ELSE "diff")
    /\ UNCHANGED <<durable, clock, pool, req, walID, notified, process>>

\* A second GetLatest, Diff, and ValidateDelta unless the delta is empty.
DiffPrevious(c) ==
    /\ pc[c] = "diff"
    /\ \E p \in Latest(req[c].entity) :
        LET delta == Diff(p.data, rec[c].data)
            valid == IsEmpty(delta) \/ Apply(p.data, delta) = rec[c].data
        IN rec' = [rec EXCEPT ![c] = IF valid THEN Diffed(@, "delta", delta)
                                              ELSE Diffed(@, "full", NoDelta)]
    /\ Goto(c, "seal")
    /\ UNCHANGED <<durable, clock, pool, req, walID, notified, process>>

\* The previous version cannot be read, unmarshalled or diffed: fall back to full.
DiffFallback(c) ==
    /\ pc[c] = "diff"
    /\ rec' = [rec EXCEPT ![c] = Diffed(@, "full", NoDelta)]
    /\ Goto(c, "seal")
    /\ UNCHANGED <<durable, clock, pool, req, walID, notified, process>>

\* Serialize, check the size, and Chain.ComputeAndStore: the previous hash is
\* that of version - 1, none for version 1.
Seal(c) ==
    /\ pc[c] = "seal"
    /\ \/ rec[c].version <= 1 /\ rec' = [rec EXCEPT ![c] = Sealed(@, Null)]
       \/ /\ rec[c].version > 1
          /\ \E p \in ByVersion(rec[c].entity, rec[c].version - 1) :
                rec' = [rec EXCEPT ![c] = Sealed(@, p.hash)]
    /\ Goto(c, "save")
    /\ UNCHANGED <<durable, clock, pool, req, walID, notified, process>>

\* ComputeAndStore fails to read version - 1, or the hasher fails: a warning,
\* and the record is saved without a hash.
SealFails(c) ==
    /\ pc[c] = "seal"
    /\ \/ rec' = rec
       \/ \E p \in ByVersion(rec[c].entity, rec[c].version - 1) :
             rec' = [rec EXCEPT ![c] = Unsealed(@, p.hash)]
    /\ Goto(c, "save")
    /\ UNCHANGED <<durable, clock, pool, req, walID, notified, process>>

\* An insert into a table without the UNIQUE constraint.
SaveUnconstrained(c) ==
    /\ pc[c] = "save"
    /\ store' = store \cup {Row(rec[c])}
    /\ Goto(c, "notify")
    /\ UNCHANGED <<wal, clock, pool, req, rec, walID, notified, process>>

\* An insert that takes the next free number, with what was computed for another.
SaveRenumbered(c) ==
    /\ pc[c] = "save"
    /\ \E next \in NextVersion(rec[c].entity) :
        rec' = [rec EXCEPT ![c] = Numbered(@, next, @.strategy)]
    /\ store' = store \cup {Row(rec'[c])}
    /\ Goto(c, "notify")
    /\ UNCHANGED <<wal, clock, pool, req, walID, notified, process>>

\* An insert whose duplicate error is ignored.
SaveIgnoringDuplicate(c) ==
    /\ pc[c] = "save"
    /\ store' = IF Conflict(rec[c]) THEN store ELSE store \cup {Row(rec[c])}
    /\ Goto(c, "notify")
    /\ UNCHANGED <<wal, clock, pool, req, rec, walID, notified, process>>

\* An insert that replaces the row it conflicts with.
SaveReplacing(c) ==
    /\ pc[c] = "save"
    /\ store' = (store \ ByVersion(rec[c].entity, rec[c].version)) \cup {Row(rec[c])}
    /\ Goto(c, "notify")
    /\ UNCHANGED <<wal, clock, pool, req, rec, walID, notified, process>>

\* Writer.Save inserts the row.  A duplicate is not retried: see Fail.
Save(c) ==
    /\ pc[c] = "save"
    /\ ~Conflict(rec[c])
    /\ store' = store \cup {Row(rec[c])}
    /\ Goto(c, "notify")
    /\ UNCHANGED <<wal, clock, pool, req, rec, walID, notified, process>>

\* The insert commits but the writer sees an error (a cancelled context, a
\* broken connection): the call fails although its version exists.
SaveUnknown(c) ==
    /\ pc[c] = "save"
    /\ ~Conflict(rec[c])
    /\ store' = store \cup {Row(rec[c])}
    /\ Goto(c, "failed")
    /\ UNCHANGED <<wal, clock, pool, req, rec, walID, notified, process>>

\* Subscriber.OnVersion; its error is logged and ignored.
Notify(c) ==
    /\ pc[c] = "notify"
    /\ notified' = notified \cup {c}
    /\ Goto(c, IF walID[c] = 0 THEN "ok" ELSE "ack")
    /\ UNCHANGED <<durable, clock, pool, req, rec, walID, process>>

\* WAL.Ack deletes the entry; versionSync returns and the pending version
\* is complete.
Ack(c) ==
    /\ pc[c] = "ack"
    /\ wal' = {e \in wal : e.id # walID[c]}
    /\ Goto(c, "ok")
    /\ UNCHANGED <<store, clock, pool, req, rec, walID, notified, process>>

\* WAL.Ack fails: a warning, the version is persisted.
AckFails(c) ==
    /\ pc[c] = "ack"
    /\ Goto(c, "ok")
    /\ UNCHANGED <<durable, clock, pool, req, rec, walID, notified, process>>

-----------------------------------------------------------------------------
(* The process *)

Final == {"ok", "failed", "refused", "panicked", "lost"}

\* The process dies and is started again: calls under way, the queue and the
\* pool's state are gone, the two tables stay.
Crash ==
    /\ crashes < MaxCrashes
    /\ crashes' = crashes + 1
    /\ pc' = [c \in Calls |-> IF pc[c] \in Final \cup {"new"} THEN pc[c] ELSE "lost"]
    /\ queue' = <<>>
    /\ stopped' = FALSE
    /\ closed' = FALSE
    /\ recovered' = "no"
    /\ UNCHANGED <<durable, clock, req, rec, walID, notified>>

\* WAL.Recover, called at startup, saves the record of each un-acknowledged
\* entry.  The first Save violates data NOT NULL, which is no duplicate:
\* Recover returns the error before it changed anything.
Recover ==
    /\ recovered = "no"
    /\ crashes > 0
    /\ \/ wal = {} /\ recovered' = "ok"
       \/ \E e \in wal : ~Insertable(EntryRecord(e)) /\ recovered' = "error"
    /\ UNCHANGED <<durable, clock, pool, pc, req, rec, walID, notified, crashes>>

\* Every call has ended and the process rests.
Terminated ==
    /\ \A c \in Calls : pc[c] \in Final
    /\ UNCHANGED vars

Pipeline(c) ==
    \/ Take(c) \/ BeforeWrite(c) \/ Sequence(c) \/ DiffPrevious(c) \/ DiffFallback(c)
    \/ Seal(c) \/ SealFails(c) \/ Save(c) \/ SaveUnknown(c) \/ Fail(c)
    \/ Notify(c) \/ Ack(c) \/ AckFails(c)

Caller(c) ==
    \/ Version(c) \/ VersionRejected(c) \/ WALAppend(c) \/ WALAppendFails(c)
    \/ Submit(c) \/ SubmitRefused(c) \/ SubmitPanics(c)

Next ==
    \/ \E c \in Calls : Caller(c) \/ Pipeline(c)
    \/ Shutdown
    \/ CloseWork
    \/ Crash
    \/ Recover
    \/ Terminated

\* Worker goroutines are scheduled and calls of the store, the WAL and the
\* subscriber return, with a result or an error.
Fairness == \A c \in Calls : WF_vars(Pipeline(c))

Spec == Init /\ [][Next]_vars /\ Fairness

-----------------------------------------------------------------------------
(* Properties *)

Labels == {"new", "append", "submit", "queued"} \cup Steps \cup Final

IsRecord(r) ==
    /\ r = [x \in RecordFields |-> r[x]]
    /\ r.id \in Calls
    /\ r.entity \in Entities
    /\ r.version \in Nat
    /\ r.strategy \in {"full", "delta"}
    /\ r.data \in Values

\* Types of the state.  Hashes are left untyped.
TypeOK ==
    /\ \A r \in store : IsRecord(r)
    /\ wal \subseteq [id : Nat, entity : Entities]
    /\ clock \in Nat
    /\ stopped \in BOOLEAN
    /\ closed \in BOOLEAN
    /\ queue \in Seq(Calls)
    /\ Len(queue) <= QueueSize
    /\ pc \in [Calls -> Labels]
    /\ req \in [Calls -> Requests \cup {Null}]
    /\ rec = [c \in Calls |-> rec[c]]
    /\ \A c \in Calls : pc[c] \notin {"new", "failed"} =>
                        req[c] \in Requests /\ IsRecord(rec[c])
    /\ walID \in [Calls -> Nat]
    /\ notified \subseteq Calls
    /\ recovered \in {"no", "ok", "error"}
    /\ crashes \in 0..MaxCrashes

Stored(c) == \E r \in store : r.id = c

\* However many calls race for the same number, an entity's versions are
\* 1, 2, ..., n: no number twice, none left out ("monotonic per entity",
\* domain/version/sequence.go and the UNIQUE constraint).
VersionsGapless ==
    /\ \A r, q \in store : r.entity = q.entity /\ r.version = q.version => r = q
    /\ \A r \in store : r.version >= 1
    /\ \A r \in store : \A v \in 1..r.version : ByVersion(r.entity, v) # {}

\* What a delta owes: it turns the old value into the new one; the empty one
\* says that they differ in ignored fields at most.
Replays(a, delta, b) ==
    IF IsEmpty(delta) THEN \A f \in Tracked : a[f] = b[f] ELSE Apply(a, delta) = b

\* A version persisted as a delta carries a delta that turns the stored
\* version before it into this one, although the two reads of the latest
\* version and the insert are three separate statements ("Never persist a
\* delta that can't reconstruct", docs/ARCHITECTURE.md).
DeltaReplays ==
    \A r \in store : r.strategy = "delta" =>
        \E p \in ByVersion(r.entity, r.version - 1) : Replays(p.data, rec[r.id].delta, r.data)

\* In hybrid mode, when callers override it at most with full, a delta has a
\* full snapshot at most Interval - 1 versions before it: what Reconstruct has
\* to replay is bounded ("Every N-th version is a full snapshot", config.go).
SnapshotInReach ==
    DefaultStrategy = "hybrid" /\ Overrides \subseteq {Null, "full"} =>
        \A r \in store : r.strategy = "delta" =>
            \E p \in Rows(r.entity) : p.strategy = "full" /\ p.version < r.version
                                       /\ r.version < p.version + Interval

\* Chain.VerifyIntegrity returns nil: over the listed rows in ascending order,
\* each links to the hash of the one before it and has the hash of its payload.
Listed(e) == {r \in Rows(e) : Cardinality({q \in Rows(e) : q.version < r.version}) < ListLimit}

VerifyIntegrity(e) ==
    \A r \in Listed(e) :
        /\ r.hash = Hash(r)
        /\ \/ r.prev = Null /\ \A q \in Listed(e) : q.version >= r.version
           \/ \E p \in Listed(e) :
                /\ p.version < r.version
                /\ \A q \in Listed(e) : q.version <= p.version \/ q.version >= r.version
                /\ r.prev = p.hash

\* The chain written by racing calls verifies, unless some version was saved
\* without a hash because ComputeAndStore failed.
ChainIntact ==
    \A e \in Entities : (\A r \in Rows(e) : r.hash # Null) => VerifyIntegrity(e)

\* Who has been told of a version, by its PendingVersion or as a subscriber,
\* finds exactly that record in the store, also after a crash.
ReportedIsStored ==
    \A c \in Calls : pc[c] = "ok" \/ c \in notified => Row(rec[c]) \in store

\* A background call that was logged is either persisted or still in the WAL:
\* no entry is acknowledged, by this call or another that drew the same ID
\* from the clock, while its version is missing.
NoSilentLoss ==
    \A c \in Calls : walID[c] # 0 /\ ~Stored(c) => \E e \in wal : e.id = walID[c]

\* A call the pool accepted ends, with a version or an error, or is lost in a
\* crash: PendingVersion.Wait does not hang.
QueuedEnds == \A c \in Calls : pc[c] = "queued" ~> pc[c] \in Final

\* "On startup, un-acknowledged entries are replayed to recover in-flight
\* work" (config.go): once Recover has returned, a call that was logged and
\* lost in the crash has its version.
InFlightRecovered ==
    recovered # "no" => \A c \in Calls : pc[c] = "lost" /\ walID[c] # 0 => Stored(c)

=============================================================================
