---------------------------- MODULE Maintenance ----------------------------
(***************************************************************************)
(* What changes or reads back the history of one entity after it was       *)
(* written: Auditor.RedactField (audit.go, domain/redact.go), Compactor    *)
(* and Engine.Reconstruct (domain/reconstruct), the retention engine       *)
(* (app/retention.go), GetAtTime and VerifyIntegrity, on the SQL stores    *)
(* (adapter/postgres, adapter/mysql).                                      *)
(*                                                                         *)
(* Redaction and compaction are passes: they list the versions once and    *)
(* write back, one Update per version, records as they were listed.        *)
(* Between two of those updates anything may happen to the rows.  A call   *)
(* of Version draws its number, decides on the strategy, stamps its        *)
(* record, links it and inserts it, all in steps of their own: retention   *)
(* and other calls come in between.                                        *)
(***************************************************************************)
EXTENDS Naturals, Sequences, FiniteSets

CONSTANTS
    Fields,         \* the fields of the entity, all tracked
    StringFields,   \* those of type string
    Paths,          \* the field paths RedactField is called with
    Vals,           \* what a field can hold
    Contents,       \* the contents Version is called with
    Formats,        \* what the serializer writes: subset of {"json", "msgpack"}
    Callers,        \* callers of Version
    Redactors,      \* calls of RedactField
    Compactors,     \* calls of Compact
    ListLimit,      \* port.DefaultListOptions: 50
    MaxDeltaChain,  \* Compactor.MaxDeltaChain
    Retention,      \* the retention period, in ticks of the clock
    MaxVersion,     \* versions written in one life of the entity (a bound)
    MaxTime,        \* ticks of the clock (a bound)
    Redacted,       \* the string "[REDACTED]"
    Null            \* no hash

ASSUME MaintenanceAssumption ==
    /\ StringFields \subseteq Fields
    /\ Contents \subseteq [Fields -> Vals]
    /\ Formats \subseteq {"json", "msgpack"}
    /\ Redactors \cap Compactors = {}
    /\ ListLimit \in Nat \ {0}
    /\ MaxDeltaChain \in Nat \ {0}
    /\ Retention \in Nat \ {0}
    /\ MaxVersion \in Nat
    /\ MaxTime \in Nat
    /\ Redacted \notin Vals

Passes == Redactors \cup Compactors

VARIABLES
    format,     \* the serializer in use
    store,      \* the rows of the entity, by version
    now,        \* the clock
    call,       \* what a call of Version has got so far
    job,        \* what a pass is doing
    versioned,  \* history: the content that was versioned, of the rows there are
    latestAt,   \* history: the version that was the latest at the end of a tick
    redactions, \* history: field and versions of the redactions that returned nil
    compacted,  \* history: the versions listed by compactions that returned nil
    overlap,    \* history: a pass began while another was under way
    overtaken   \* history: retention deleted what the number of a call rests on

vars == <<format, store, now, call, job, versioned, latestAt, redactions, compacted,
          overlap, overtaken>>

NoVersion == 0

-----------------------------------------------------------------------------
(* Records *)

\* json.Unmarshal into the entity: a redacted field must be a string.
Unmarshals(data) == \A f \in Fields : data[f] = Redacted => f \in StringFields

\* The payload of a hash stands for the hash.
Hash(v, data, prev) == <<v, data, prev>>

Put(st, v, r) == [w \in DOMAIN st \cup {v} |-> IF w = v THEN r ELSE st[w]]
Keep(st, S) == [w \in DOMAIN st \cap S |-> st[w]]

Max(S) == CHOOSE v \in S : \A w \in S : w <= v

\* The greatest version of the entity; NextVersion is one more.
Latest(st) == IF DOMAIN st = {} THEN NoVersion ELSE Max(DOMAIN st)

-----------------------------------------------------------------------------
(* Reads *)

\* The positions of a set of versions in ascending order.
Ascending(S) == [i \in 1..Cardinality(S) |-> CHOOSE v \in S : Cardinality({w \in S : w < v}) = i - 1]

\* ListVersions(..., WithOrderAsc()): the first ListLimit versions.
ListVersions ==
    LET all == Ascending(DOMAIN store)
        k == IF Len(all) < ListLimit THEN Len(all) ELSE ListLimit
    IN [i \in 1..k |-> store[all[i]]]

Listed == {ListVersions[i].version : i \in 1..Len(ListVersions)}

\* Of the rows stamped by time t the one with the greatest created_at, then
\* the greatest version.
AtTimeExclusive(t) == {v \in DOMAIN store : store[v].born < t}

AtTime(t) == {v \in DOMAIN store : store[v].born <= t}

GetAtTime(t) ==
    LET S == AtTime(t)
        newest == {v \in S : \A w \in S : store[w].born <= store[v].born}
    IN IF S = {} THEN NoVersion ELSE Max(newest)

\* Engine.Reconstruct: a full version is decoded; otherwise the nearest listed
\* snapshot below it is, and the deltas up to the target are applied to it.
\* The SQL stores keep no delta: each reads back nil, and the loop takes that
\* as one that changes nothing.  {} stands for an error.
Reconstruct(v) ==
    LET recs == ListVersions
        snaps == {i \in 1..Len(recs) : recs[i].version <= v /\ recs[i].strategy = "full"}
        base == IF store[v].strategy = "full" THEN {store[v].data}
                ELSE IF snaps = {} THEN {} ELSE {recs[Max(snaps)].data}
    IN {data \in base : Unmarshals(data)}

\* VerifyIntegrity over the listed rows.
VerifyIntegrity ==
    LET recs == ListVersions
    IN \A i \in 1..Len(recs) :
           /\ recs[i].prev = IF i = 1 THEN Null ELSE recs[i - 1].hash
           /\ recs[i].hash = Hash(recs[i].version, recs[i].data, recs[i].prev)

-----------------------------------------------------------------------------
(* Writing: versionSync step by step, or VersionInTx until its commit *)

NoCall == [pc |-> "idle", version |-> NoVersion, strategy |-> "full", data |-> Null,
           born |-> 0, prev |-> Null, hash |-> Null]

\* The call of c goes from one step to the next and is c1 then.
Step(c, from, c1) ==
    /\ call[c].pc = from
    /\ call' = [call EXCEPT ![c] = c1]
    /\ UNCHANGED <<format, store, now, job, versioned, latestAt, redactions, compacted,
                   overlap, overtaken>>

\* NextVersion.
Draw(c) ==
    /\ Latest(store) < MaxVersion
    /\ Step(c, "idle", [call[c] EXCEPT !.pc = "drawn", !.version = Latest(store) + 1])

\* A delta needs a latest version that is still there and can be decoded;
\* everything else falls back to a full snapshot.
Decide(c, s) ==
    /\ s = "delta" => /\ call[c].version > 1
                      /\ DOMAIN store # {}
                      /\ Unmarshals(store[Latest(store)].data)
    /\ Step(c, "drawn", [call[c] EXCEPT !.pc = "decided", !.strategy = s])

\* The content is marshalled and the record gets its CreatedAt.
Stamp(c, x) ==
    Step(c, "decided", [call[c] EXCEPT !.pc = "stamped", !.data = x, !.born = now])

\* Chain.ComputeAndStore: the link to the version before; version 1 has none.
Seal(c) ==
    LET v == call[c].version
        prev == IF v = 1 THEN Null ELSE store[v - 1].hash
    IN /\ v > 1 => v - 1 \in DOMAIN store
       /\ Step(c, "stamped", [call[c] EXCEPT !.pc = "sealed", !.prev = prev,
                                             !.hash = Hash(v, call[c].data, prev)])

\* The version before cannot be read or is gone: the record stays unhashed.
SealFails(c) ==
    /\ call[c].version > 1
    /\ Step(c, "stamped", [call[c] EXCEPT !.pc = "sealed"])

\* The row of a call.
Row(c) == [version |-> call[c].version, strategy |-> call[c].strategy, data |-> call[c].data,
           prev |-> call[c].prev, hash |-> call[c].hash, born |-> call[c].born]

\* Save, or the commit of the caller's transaction: the row appears unless the
\* number is taken (the UNIQUE key).
Insert(c) ==
    LET v == call[c].version
    IN /\ call[c].pc = "sealed"
       /\ v \notin DOMAIN store
       /\ store' = Put(store, v, Row(c))
       /\ versioned' = Put(versioned, v, call[c].data)
       /\ latestAt' = Put(latestAt, now, Latest(store'))
       /\ call' = [call EXCEPT ![c] = NoCall]
       /\ UNCHANGED <<format, now, job, redactions, compacted, overlap, overtaken>>

\* An error of any step, a rollback or a crash.
Abandon(c) ==
    /\ call[c].pc # "idle"
    /\ Step(c, call[c].pc, NoCall)

-----------------------------------------------------------------------------
(* Retention and time *)

\* RetentionEngine.RunOnce: DeleteBefore(now - retention).
DeleteBefore ==
    LET expired == {v \in DOMAIN store : store[v].born + Retention < now}
    IN /\ expired # {}
       /\ store' = Keep(store, DOMAIN store \ expired)
       /\ versioned' = Keep(versioned, DOMAIN store \ expired)
       /\ latestAt' = Put(latestAt, now, Latest(store'))
       /\ job' = [p \in Passes |-> [job[p] EXCEPT !.listed = @ \ expired]]
       /\ redactions' = {[r EXCEPT !.versions = @ \ expired] : r \in redactions}
       /\ compacted' = {S \ expired : S \in compacted}
       /\ overtaken' = (overtaken \/ \E c \in Callers, v \in expired :
                                         call[c].pc # "idle" /\ call[c].version <= v + 1)
       /\ UNCHANGED <<format, now, call, overlap>>

\* Time passes; what is latest stays latest into the new tick.
Tick ==
    /\ now < MaxTime
    /\ now' = now + 1
    /\ latestAt' = Put(latestAt, now + 1, Latest(store))
    /\ UNCHANGED <<format, store, call, job, versioned, redactions, compacted, overlap, overtaken>>

-----------------------------------------------------------------------------
(* Passes *)

Active == {p \in Passes : job[p].op \in {"redact", "compact"}}

untouched == <<format, now, call, versioned, latestAt, overlap, overtaken>>

\* Writer.Update sets data, hash, previous_hash and strategy of the row with
\* that number; created_at stays.
Update(r) ==
    store' = Put(store, r.version, [store[r.version] EXCEPT
                 !.data = r.data, !.hash = r.hash, !.prev = r.prev, !.strategy = r.strategy])

Begin(p, j) ==
    /\ job[p].op = "none"
    /\ j.todo # <<>>
    /\ job' = [job EXCEPT ![p] = j]
    /\ overlap' = (overlap \/ Active # {})
    /\ UNCHANGED <<format, store, now, call, versioned, latestAt, redactions, compacted, overtaken>>

\* RedactField and Compact list first; with nothing listed they return at once.
\* listed is history: what was listed and has not been deleted since.
BeginRedact(p, f) ==
    Begin(p, [op |-> "redact", field |-> f, todo |-> ListVersions, listed |-> Listed, chain |-> 0])

BeginCompact(p) ==
    Begin(p, [op |-> "compact", field |-> Null, todo |-> ListVersions, listed |-> Listed, chain |-> 0])

\* A pass that has returned.
Returned == [op |-> "done", field |-> Null, todo |-> <<>>, listed |-> {}, chain |-> 0]

\* The loop goes on with the next record; behind the last one the pass returns
\* nil, which the histories note.
Advance(p, n) ==
    LET last == Len(job[p].todo) = 1
    IN /\ job' = [job EXCEPT ![p] = IF last THEN Returned
                                    ELSE [job[p] EXCEPT !.todo = Tail(job[p].todo), !.chain = n]]
       /\ redactions' = IF last /\ p \in Redactors
                           THEN redactions \cup {[field |-> job[p].field, versions |-> job[p].listed]}
                           ELSE redactions
       /\ compacted' = IF last /\ p \in Compactors THEN compacted \cup {job[p].listed} ELSE compacted
       /\ UNCHANGED untouched

\* domain.RedactField reads JSON only, and leaves data without the field alone.
Redactable == format = "json"

RedactField(data, f) == [g \in DOMAIN data |-> IF g = f THEN Redacted ELSE data[g]]

\* A redaction that repairs the hash of the record it changes.
RedactedRehashed(r, f) ==
    LET d == RedactField(r.data, f) IN [r EXCEPT !.data = d, !.hash = Hash(r.version, d, r.prev)]

RedactedRecord(r, f) == [r EXCEPT !.data = RedactField(@, f)]

\* One round of the loop of RedactField: data that cannot be read is logged and
\* passed over, unchanged data is not saved.
RedactStep(p) ==
    /\ job[p].op = "redact" /\ job[p].todo # <<>>
    /\ LET r == RedactedRecord(Head(job[p].todo), job[p].field)
       IN \/ /\ ~Redactable
             /\ UNCHANGED store
          \/ /\ Redactable
             /\ r.data = Head(job[p].todo).data
             /\ UNCHANGED store
          \/ /\ Redactable
             /\ r.data # Head(job[p].todo).data
             /\ r.version \in DOMAIN store
             /\ Update(r)
    /\ Advance(p, 0)

\* A chain may have MaxDeltaChain deltas and is compacted beyond that.
TooLongBeyond(n) == n > MaxDeltaChain

TooLong(n) == n >= MaxDeltaChain

\* Compact turns the delta that makes a chain too long into a snapshot; the
\* record it builds for that has no hashes.
CompactionRecord(r) == [r EXCEPT !.strategy = "full", !.prev = Null, !.hash = Null]

\* One round of the loop of Compact.
CompactStep(p) ==
    /\ job[p].op = "compact" /\ job[p].todo # <<>>
    /\ LET r == Head(job[p].todo)
           n == job[p].chain + 1
       IN \/ r.strategy = "full" /\ Advance(p, 0) /\ UNCHANGED store
          \/ r.strategy = "delta" /\ ~TooLong(n) /\ Advance(p, n) /\ UNCHANGED store
          \/ /\ r.strategy = "delta" /\ TooLong(n)
             /\ Unmarshals(r.data)
             /\ r.version \in DOMAIN store
             /\ Update(CompactionRecord(r))
             /\ Advance(p, 0)

\* The round at hand calls Update.
Saves(p) ==
    LET r == Head(job[p].todo)
    IN \/ /\ job[p].op = "redact" /\ Redactable
          /\ RedactedRecord(r, job[p].field).data # r.data
       \/ job[p].op = "compact" /\ r.strategy = "delta" /\ TooLong(job[p].chain + 1)

\* A version that could not be saved is skipped.
UpdateFailsSkipping(p) ==
    /\ job[p].todo # <<>>
    /\ Saves(p)
    /\ Advance(p, 0)
    /\ UNCHANGED store

\* Update returns an error, or the row is gone, or the data of a version to be
\* compacted cannot be decoded: the pass returns the error, with the rest of
\* the list not done.
UpdateFails(p) ==
    /\ job[p].todo # <<>>
    /\ Saves(p)
    /\ job' = [job EXCEPT ![p] = Returned]
    /\ UNCHANGED <<untouched, store, redactions, compacted>>

-----------------------------------------------------------------------------

Init ==
    /\ format \in Formats
    /\ store = [v \in {} |-> Null]
    /\ now = 1
    /\ call = [c \in Callers |-> NoCall]
    /\ job = [p \in Passes |-> [Returned EXCEPT !.op = "none"]]
    /\ versioned = [v \in {} |-> Null]
    /\ latestAt = [t \in {1} |-> NoVersion]
    /\ redactions = {}
    /\ compacted = {}
    /\ overlap = FALSE
    /\ overtaken = FALSE

Write(c) ==
    \/ Draw(c)
    \/ \E s \in {"full", "delta"} : Decide(c, s)
    \/ \E x \in Contents : Stamp(c, x)
    \/ Seal(c)
    \/ SealFails(c)
    \/ Insert(c)
    \/ Abandon(c)

Next ==
    \/ \E c \in Callers : Write(c)
    \/ DeleteBefore
    \/ Tick
    \/ \E p \in Redactors : (\E f \in Paths : BeginRedact(p, f)) \/ RedactStep(p)
    \/ \E p \in Compactors : BeginCompact(p) \/ CompactStep(p)
    \/ \E p \in Passes : UpdateFails(p)

Spec == Init /\ [][Next]_vars

-----------------------------------------------------------------------------
(* Properties *)

\* A redaction of JSON data that returned nil is complete and lasting: as long
\* as passes do not overlap, every version it listed holds "[REDACTED]" in that
\* field until it is deleted.  (A compaction or another redaction that listed
\* earlier writes the value back; versions beyond the list limit are not
\* redacted; of msgpack data RedactField redacts nothing and returns nil.)
RedactionSticks ==
    Redactable /\ ~overlap =>
        \A r \in redactions : \A v \in r.versions :
            r.field \in Fields => store[v].data[r.field] = Redacted

\* After a compaction that returned nil no MaxDeltaChain consecutive versions
\* of those it listed are deltas, whatever is redacted, deleted or written
\* under a number again later, unless passes overlap.
ChainsStayShort ==
    ~overlap =>
        \A S \in compacted : \A a \in S :
            a..(a + MaxDeltaChain - 1) \subseteq S =>
                \E v \in a..(a + MaxDeltaChain - 1) : store[v].strategy = "full"

\* Reconstruct returns, field by field, what was versioned under that number or
\* "[REDACTED]", or fails.
ReconstructFaithful(v) ==
    \A e \in Reconstruct(v) : \A f \in Fields : e[f] \in {versioned[v][f], Redacted}

\* "Reconstruct rebuilds the entity state at the specified version"
\* (domain/reconstruct/engine.go): for every version that is listed, before any
\* pass has changed a row.
ReconstructsAnyVersion ==
    (\A p \in Passes : job[p].op = "none") =>
        \A v \in Listed : ReconstructFaithful(v)

\* When VerifyIntegrity succeeds every listed version holds what was versioned
\* under its number last: no redaction, no overlapping pass and no record
\* written back over a number that retention freed goes unnoticed.
VerifiedMeansVersioned ==
    VerifyIntegrity => \A v \in Listed : store[v].data = versioned[v]

\* GetAtTime(t), asked at any later time, returns the version that was the
\* latest at t, or the one after it, whose call had stamped its record by t and
\* inserted it later; never an older one.  Retention can only make it fail,
\* unless it deletes the version a call under way has numbered itself by.
AtTimeWithinOne ==
    ~overtaken =>
        \A t \in DOMAIN latestAt :
            GetAtTime(t) # NoVersion => GetAtTime(t) \in {latestAt[t], latestAt[t] + 1}
=============================================================================
