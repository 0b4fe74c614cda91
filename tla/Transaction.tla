---------------------------- MODULE Transaction ----------------------------
(***************************************************************************)
(* Auditor.VersionInTx (audit.go) in concurrent transactions of the        *)
(* caller, next to plain synchronous Version calls on the same entities,   *)
(* with the writer behind the StorageRouter of app/router.go.              *)
(*                                                                         *)
(* The version number, the previous version of the diff and the previous   *)
(* hash are read with the Auditor's own reader, outside the transaction:   *)
(* they see committed rows only.  The insert runs inside it.  The          *)
(* subscriber and the OLAP backend are told before the transaction ends.   *)
(*                                                                         *)
(* The database (external): a UNIQUE (entity, version) key inserted by an  *)
(* open transaction blocks other inserts of the key until it ends; an      *)
(* insert of a key that is there fails, and that aborts the transaction    *)
(* (PostgreSQL) or only the statement (MySQL); a cycle of waiting          *)
(* transactions is broken by aborting one of them.                         *)
(***************************************************************************)
EXTENDS Naturals, FiniteSets

CONSTANTS
    Txs,        \* the caller's transactions
    Plain,      \* calls of Version(..., WithSync())
    Entities,   \* (entity type, entity ID) pairs
    MaxOps,     \* VersionInTx calls per transaction (a bound of the model)
    MaxFaults   \* records inserted without a hash or with an error (a bound)

ASSUME TxAssumption ==
    /\ Txs \cap Plain = {}
    /\ MaxOps \in Nat \ {0} /\ MaxFaults \in Nat

Actors == Txs \cup Plain
NoHash == <<>>

VARIABLES
    rows,       \* committed rows of audit_versions
    pend,       \* rows inserted by a transaction that has not ended
    st,         \* "open", "aborted", "committed" or "rolledback"
    pc,         \* where an actor is in VersionInTx; "idle" outside
    rec,        \* the record it is building
    ops,        \* how many versions it has asked for
    notified,   \* records the subscriber was given
    handed      \* records the router gave to a goroutine for the OLAP store

vars == <<rows, pend, st, pc, rec, ops, notified, handed>>
told == <<notified, handed>>

\* Outside VersionInTx there is no record.
None == <<>>

Ops(a) == IF a \in Txs THEN MaxOps ELSE 1

\* A record, with the fields the properties tell apart: who asked for it
\* (which stands for its data), the version its delta starts from (0 for a
\* full version), the link and the hash.  The hash of a record is the nesting
\* of what it covers.
NewRecord(a, n, e) ==
    [by |-> a, op |-> n, entity |-> e, version |-> 0, base |-> 0, prev |-> NoHash, hash |-> NoHash]

Hash(r) == <<r.by, r.op, r.entity, r.version, r.prev>>

Init ==
    /\ rows = {}
    /\ pend = [t \in Txs |-> {}]
    /\ st = [t \in Txs |-> "open"]
    /\ pc = [a \in Actors |-> "idle"]
    /\ rec = [a \in Actors |-> None]
    /\ ops = [a \in Actors |-> 0]
    /\ notified = {}
    /\ handed = {}

-----------------------------------------------------------------------------
(* Reads of committed rows. *)

Of(e) == {r \in rows : r.entity = e}
Latest(e) == CHOOSE r \in Of(e) : \A s \in Of(e) : s.version <= r.version
ByVersion(e, v) == {r \in Of(e) : r.version = v}

\* version.NextVersion with the Auditor's reader.
NextVersion(a, e) == IF Of(e) = {} THEN 1 ELSE Latest(e).version + 1

-----------------------------------------------------------------------------
(* VersionInTx up to the insert.  A transaction that was aborted by the    *)
(* database can still be passed to it.                                     *)

MayCall(a) == a \in Txs => st[a] \in {"open", "aborted"}

\* VersionInTx returns to its caller.
Return(a) ==
    /\ pc' = [pc EXCEPT ![a] = "idle"]
    /\ rec' = [rec EXCEPT ![a] = None]

\* Clone, registry, ID, hook and guardrail let the call through.
VersionInTx(a, e) ==
    /\ pc[a] = "idle"
    /\ MayCall(a)
    /\ ops[a] < Ops(a)
    /\ ops' = [ops EXCEPT ![a] = @ + 1]
    /\ rec' = [rec EXCEPT ![a] = NewRecord(a, ops[a] + 1, e)]
    /\ pc' = [pc EXCEPT ![a] = "sequence"]
    /\ UNCHANGED <<rows, pend, st, told>>

\* An error return before the insert; the transaction is not touched.
VersionInTxRejected(a) ==
    /\ pc[a] \in {"sequence", "diff", "seal"}
    /\ Return(a)
    /\ UNCHANGED <<rows, pend, st, ops, told>>

\* NextVersion, then the strategy: full, or a delta from version 2 on.
Sequence(a) ==
    /\ pc[a] = "sequence"
    /\ LET v == NextVersion(a, rec[a].entity)
       IN /\ rec' = [rec EXCEPT ![a].version = v]
          /\ pc' \in {[pc EXCEPT ![a] = l] : l \in IF v > 1 THEN {"diff", "seal"} ELSE {"seal"}}
    /\ UNCHANGED <<rows, pend, st, ops, told>>

\* GetLatest, Unmarshal and Diff; any of them may fail and leave a full
\* version.  VersionInTx does not validate the delta.
DiffPrevious(a) ==
    /\ pc[a] = "diff"
    /\ \E base \in {0, Latest(rec[a].entity).version} :
           rec' = [rec EXCEPT ![a].base = base]
    /\ pc' = [pc EXCEPT ![a] = "seal"]
    /\ UNCHANGED <<rows, pend, st, ops, told>>

\* Linking to whatever is latest when the record is sealed.
PreviousLatest(r) == Of(r.entity)

\* ComputeAndStore asks for version - 1 by number.
Previous(r) == ByVersion(r.entity, r.version - 1)

Linked(r, p) == LET l == [r EXCEPT !.prev = p] IN [l EXCEPT !.hash = Hash(l)]

Seal(a) ==
    /\ pc[a] = "seal"
    /\ \/ rec[a].version = 1 /\ rec' = [rec EXCEPT ![a] = Linked(@, NoHash)]
       \/ \E p \in Previous(rec[a]) : rec' = [rec EXCEPT ![a] = Linked(@, p.hash)]
    /\ pc' = [pc EXCEPT ![a] = "insert"]
    /\ UNCHANGED <<rows, pend, st, ops, told>>

\* Records inserted without a hash, or with an error reported.
Faulty ==
    {r \in rows \cup handed \cup UNION {pend[t] : t \in Txs} : r.hash = NoHash \/ r \notin handed}

\* A failed hash is only logged.
SealFails(a) ==
    /\ pc[a] = "seal"
    /\ Cardinality(Faulty) < MaxFaults
    /\ pc' = [pc EXCEPT ![a] = "insert"]
    /\ UNCHANGED <<rows, pend, st, rec, ops, told>>

-----------------------------------------------------------------------------
(* Writer.SaveInTx and Writer.Save behind the router. *)

SameKey(r, s) == r.entity = s.entity /\ r.version = s.version

\* Another open transaction holds the key.
Holders(a) == {t \in Txs \ {a} : \E s \in pend[t] : SameKey(s, rec[a])}

\* A check of the transaction's own rows.
DuplicateOwn(a) == a \in Txs /\ \E s \in pend[a] : SameKey(s, rec[a])

\* UNIQUE (entity_type, entity_id, version)
Duplicate(a) ==
    \/ \E s \in rows : SameKey(s, rec[a])
    \/ a \in Txs /\ \E s \in pend[a] : SameKey(s, rec[a])

Insertable(a) == Holders(a) = {} /\ ~Duplicate(a) /\ (a \in Txs => st[a] = "open")

\* The row is pending in the transaction; outside one it is committed.
Put(a) ==
    IF a \in Txs THEN pend' = [pend EXCEPT ![a] = @ \cup {rec[a]}] /\ UNCHANGED rows
                 ELSE rows' = rows \cup {rec[a]} /\ UNCHANGED pend

\* The insert succeeds and the router starts its fire-and-forget goroutine:
\* BatchInsert of the record, at any later time or, its error being dropped,
\* never.  Nothing reads the OLAP store, so the model keeps what it was given.
Insert(a) ==
    /\ pc[a] = "insert"
    /\ Insertable(a)
    /\ Put(a)
    /\ handed' = handed \cup {rec[a]}
    /\ pc' = [pc EXCEPT ![a] = "notify"]
    /\ UNCHANGED <<st, rec, ops, notified>>

\* The insert takes effect, but the writer gets no answer and reports an error:
\* VersionInTx or Version returns it and nobody is told of the row.
InsertUnknown(a) ==
    /\ pc[a] = "insert"
    /\ Cardinality(Faulty) < MaxFaults
    /\ Insertable(a)
    /\ Put(a)
    /\ Return(a)
    /\ UNCHANGED <<st, ops, told>>

\* The database aborts the whole transaction.
Abort(a) ==
    /\ a \in Txs
    /\ st[a] = "open"
    /\ st' = [st EXCEPT ![a] = "aborted"]
    /\ pend' = [pend EXCEPT ![a] = {}]

\* A failed insert that is tried again with the same number.
InsertFailsRetrying(a) ==
    /\ pc[a] = "insert"
    /\ Holders(a) = {}
    /\ UNCHANGED vars

\* ErrDuplicateVersion, the error of an aborted transaction, or any other:
\* VersionInTx returns it, with the transaction aborted or not.
InsertFails(a) ==
    /\ pc[a] = "insert"
    /\ Holders(a) = {}
    /\ Return(a)
    /\ Abort(a) \/ UNCHANGED <<st, pend>>
    /\ UNCHANGED <<rows, ops, told>>

\* t waits for u, directly or through others.
WaitsFor(t, u) ==
    LET Step(S) == S \cup UNION {IF pc[s] = "insert" THEN Holders(s) ELSE {} : s \in S}
        Reach[n \in 0..Cardinality(Txs)] == IF n = 0 THEN Holders(t) ELSE Step(Reach[n - 1])
    IN pc[t] = "insert" /\ u \in Reach[Cardinality(Txs)]

\* The database's deadlock detector: the insert of the victim fails.
DeadlockVictim(t) ==
    /\ WaitsFor(t, t)
    /\ Abort(t)
    /\ Return(t)
    /\ UNCHANGED <<rows, ops, told>>

\* The subscriber is given the record; its error is only logged.
Notify(a) ==
    /\ pc[a] = "notify"
    /\ notified' = notified \cup {rec[a]}
    /\ Return(a)
    /\ UNCHANGED <<rows, pend, st, ops, handed>>

-----------------------------------------------------------------------------
(* The caller ends its transaction. *)

\* A commit that takes effect, whatever the caller is told of it.
Commit(t) ==
    /\ pc[t] = "idle"
    /\ st[t] = "open"
    /\ rows' = rows \cup pend[t]
    /\ pend' = [pend EXCEPT ![t] = {}]
    /\ st' = [st EXCEPT ![t] = "committed"]
    /\ UNCHANGED <<pc, rec, ops, told>>

\* Rollback, a commit that fails, or a commit of an aborted transaction.
Rollback(t) ==
    /\ pc[t] = "idle"
    /\ st[t] \in {"open", "aborted"}
    /\ pend' = [pend EXCEPT ![t] = {}]
    /\ st' = [st EXCEPT ![t] = "rolledback"]
    /\ UNCHANGED <<rows, pc, rec, ops, told>>

-----------------------------------------------------------------------------

Terminated ==
    /\ \A a \in Actors : pc[a] = "idle"
    /\ \A t \in Txs : st[t] \in {"committed", "rolledback"}
    /\ \A a \in Plain : ops[a] = 1
    /\ UNCHANGED vars

Work(a) ==
    \/ VersionInTxRejected(a) \/ Sequence(a) \/ DiffPrevious(a) \/ Seal(a) \/ SealFails(a)
    \/ Insert(a) \/ InsertUnknown(a) \/ InsertFails(a) \/ Notify(a)

End(t) == Commit(t) \/ Rollback(t)

Next ==
    \/ \E a \in Actors : (\E e \in Entities : VersionInTx(a, e)) \/ Work(a)
    \/ \E t \in Txs : End(t) \/ DeadlockVictim(t)
    \/ Terminated

\* VersionInTx returns, callers end their transactions and the database breaks
\* deadlocks: as long as one of these steps is possible, one is taken.  Every
\* transaction asks for a bounded number of versions, so no actor can keep the
\* others from their turn for ever, and this is enough.
Steps == (\E a \in Actors : Work(a)) \/ (\E t \in Txs : End(t) \/ DeadlockVictim(t))

Fairness == WF_vars(Steps)

Spec == Init /\ [][Next]_vars /\ Fairness

-----------------------------------------------------------------------------
(* Properties. *)

\* Whatever transactions and plain calls race on an entity, and however they
\* end, its committed versions are 1..n without repetition.
VersionsGapless ==
    \A e \in Entities :
        /\ \A r, s \in Of(e) : r.version = s.version => r = s
        /\ {r.version : r \in Of(e)} = 1..Cardinality(Of(e))

\* A committed delta starts from the committed version right before it, and
\* a committed hash covers the link to that version, although both were read
\* outside the transaction and the row became visible later.
FoundedOnPrevious ==
    \A r \in rows :
        /\ r.base # 0 => r.base = r.version - 1
        /\ r.hash # NoHash =>
              /\ r.hash = Hash(r)
              /\ \E p \in ByVersion(r.entity, r.version - 1) \cup {[hash |-> NoHash, version |-> 0]} :
                     p.version = r.version - 1 /\ r.prev = p.hash

\* VersionInTx does not see the versions its own transaction has inserted: a
\* transaction never holds two versions of one entity; the second call fails.
OnePerEntityAndTx ==
    \A t \in Txs : \A r, s \in pend[t] : r.entity = s.entity => r = s

\* The subscriber and the OLAP store are told before the commit; what they
\* were told and is not committed belongs to a transaction that is open or
\* was given up.  A committed transaction, and a plain call, committed all of
\* it, and a transaction given up committed nothing.
ToldUnlessRolledBack ==
    \A r \in notified \cup handed :
        \/ r \in rows /\ (r.by \in Txs => st[r.by] = "committed")
        \/ r \notin rows /\ r.by \in Txs /\ st[r.by] # "committed"

\* "OnVersion is called after a version record has been persisted"
\* (domain/port/subscriber.go): what the subscriber was given is committed.
\* VersionInTx gives it the record while the caller's transaction is open.
NotifiedIsPersisted == notified \subseteq rows

\* Inserts that wait for other transactions, also in a circle, return: a time
\* comes when none is waiting.
InsertReturns == (\E a \in Actors : pc[a] = "insert") ~> (\A a \in Actors : pc[a] # "insert")
=============================================================================
