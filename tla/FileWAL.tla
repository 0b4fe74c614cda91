------------------------------ MODULE FileWAL ------------------------------
(***************************************************************************)
(* The file-based write-ahead log of adapter/wal/file/file.go, used the    *)
(* way Auditor.Version uses a WAL: append before the work is enqueued,     *)
(* acknowledge after the version is persisted, replay after a restart.     *)
(*                                                                         *)
(* Every method holds the mutex, so that only a crash can come between     *)
(* its writes.  A failed or interrupted Append leaves a prefix of its      *)
(* bytes in wal.dat, a failed or interrupted Ack a prefix of its line in   *)
(* wal.ack; nothing ever truncates the files, so that later writes go      *)
(* behind such a fragment.                                                 *)
(***************************************************************************)
EXTENDS Naturals, Sequences, FiniteSets

CONSTANTS
    Entries,    \* the calls that log an entry
    MaxClock,   \* last clock reading (a bound of the model)
    MaxCrashes, \* crashes of the process (a bound of the model)
    MaxTorn     \* torn fragments in each file (a bound of the model)

ASSUME WALAssumption == MaxClock \in Nat /\ MaxCrashes \in Nat /\ MaxTorn \in Nat

\* What a line of wal.ack holds when only a part of the ID was written.
Part == 0

VARIABLES
    wal,        \* wal.dat: the fragments left by the appends, in order
    ack,        \* wal.ack: what the acknowledgements wrote, in order
    open,       \* the files are open
    clock,      \* time.Now().UnixNano(), from which generateID makes IDs
    id,         \* the ID an entry was given; Part before that
    pc,         \* where a call is
    replayed,   \* what the last Replay of this process returned
    logged,     \* history: calls whose Append returned nil
    clean,      \* history: calls whose Ack returned nil
    crashes     \* history: number of crashes

vars == <<wal, ack, open, clock, id, pc, replayed, logged, clean, crashes>>

IDs == 1..MaxClock

\* New on an empty directory.
Init ==
    /\ wal = <<>>
    /\ ack = <<>>
    /\ open = TRUE
    /\ clock = 1
    /\ id = [e \in Entries |-> Part]
    /\ pc = [e \in Entries |-> "new"]
    /\ replayed = <<>>
    /\ logged = {}
    /\ clean = {}
    /\ crashes = 0

TornIn(s, torn(_)) == Cardinality({i \in 1..Len(s) : torn(s[i])})

-----------------------------------------------------------------------------
(* Reading. *)

\* The results readEntries can have on a sequence of fragments, from the
\* i-th on.  A whole fragment is an entry.  Behind the length of a torn one
\* the reader takes the bytes of the next fragment for payload and checksum:
\* the checksum does not match, and the reader goes on somewhere behind the
\* beginning of that fragment.  Mostly it then takes bytes of a payload for a
\* length, which is above 100 MB and ends the loop; whether the lengths happen
\* to lead it to the beginning of a later fragment depends on the bytes and is
\* left open, so that only what holds of every result is worth stating.
ReadFrom(file) ==
    LET R[i \in 1..(Len(file) + 1)] ==
            IF i > Len(file) THEN {<<>>}
            ELSE IF file[i].whole
                 THEN {<<[entry |-> file[i].entry, id |-> file[i].id]>> \o s : s \in R[i + 1]}
                 ELSE {<<>>} \cup UNION {R[j] : j \in (i + 2)..(Len(file) + 1)}
    IN R

\* readEntries: seek to the start, read to the end or to a corrupt length.
ReadEntries == LET R == ReadFrom(wal) IN R[1]

\* IDs are clock readings: taking the last acknowledged one for a watermark.
LoadAckedWatermark == {i \in IDs : \E n \in 1..Len(ack) : i <= ack[n].id}

\* loadAcked: a line is an ID of its own when it starts behind a newline and
\* ends at a newline or at the end of the file.
LoadAcked ==
    {ack[i].id : i \in {j \in 1..Len(ack) : /\ j = 1 \/ ack[j - 1].nl
                                            /\ ack[j].nl \/ j = Len(ack)}} \ {Part}

\* Replay: the entries that were read and whose ID is not acknowledged.
Unacked(entries, acked) ==
    LET U[n \in 0..Len(entries)] ==
            IF n = 0 THEN <<>>
            ELSE IF entries[n].id \in acked THEN U[n - 1] ELSE Append(U[n - 1], entries[n])
    IN U[Len(entries)]

ReplayResults == {Unacked(s, LoadAcked) : s \in ReadEntries}

-----------------------------------------------------------------------------
(* Operations. *)

\* Time passes; two calls may still draw the same ID.
Advance ==
    /\ clock < MaxClock
    /\ clock' = clock + 1
    /\ UNCHANGED <<wal, ack, open, id, pc, replayed, logged, clean, crashes>>

\* [4 bytes length][payload][4 bytes CRC32]; a torn fragment is a non-empty
\* proper prefix of that.
Frame(e, w) == [entry |-> e, id |-> clock, whole |-> w]

IsTorn(f) == ~f.whole

\* The bytes Append can leave when it does not finish: nothing, a torn
\* fragment, or everything when only the fsync is missing.
Unfinished(e) ==
    {wal, Append(wal, Frame(e, TRUE))} \cup
    (IF TornIn(wal, IsTorn) < MaxTorn THEN {Append(wal, Frame(e, FALSE))} ELSE {})

\* Append that reports success before the bytes are on the disk.
AppendUnsynced(e) ==
    /\ pc[e] = "new"
    /\ open
    /\ wal' \in Unfinished(e)
    /\ id' = [id EXCEPT ![e] = clock]
    /\ pc' = [pc EXCEPT ![e] = "logged"]
    /\ logged' = logged \cup {e}
    /\ UNCHANGED <<ack, open, clock, replayed, clean, crashes>>

\* Append returns nil and Version goes on to enqueue the work.
AppendOK(e) ==
    /\ pc[e] = "new"
    /\ open
    /\ wal' = Append(wal, Frame(e, TRUE))
    /\ id' = [id EXCEPT ![e] = clock]
    /\ pc' = [pc EXCEPT ![e] = "logged"]
    /\ logged' = logged \cup {e}
    /\ UNCHANGED <<ack, open, clock, replayed, clean, crashes>>

\* A write or the fsync fails, or the files are closed: Version returns the
\* error.
AppendFails(e) ==
    /\ pc[e] = "new"
    /\ wal' \in IF open THEN Unfinished(e) ELSE {wal}
    /\ id' = [id EXCEPT ![e] = clock]
    /\ pc' = [pc EXCEPT ![e] = "refused"]
    /\ UNCHANGED <<ack, open, clock, replayed, logged, clean, crashes>>

\* The worker has stored the version.
Persist(e) ==
    /\ pc[e] = "logged"
    /\ pc' = [pc EXCEPT ![e] = "persisted"]
    /\ UNCHANGED <<wal, ack, open, clock, id, replayed, logged, clean, crashes>>

\* An acknowledgement without its newline.
AckUnterminated(e) ==
    /\ pc[e] = "persisted"
    /\ open
    /\ ack' = Append(ack, [id |-> id[e], nl |-> FALSE])
    /\ pc' = [pc EXCEPT ![e] = "done"]
    /\ clean' = clean \cup {e}
    /\ UNCHANGED <<wal, open, clock, id, replayed, logged, crashes>>

AckOK(e) ==
    /\ pc[e] = "persisted"
    /\ open
    /\ ack' = Append(ack, [id |-> id[e], nl |-> TRUE])
    /\ pc' = [pc EXCEPT ![e] = "done"]
    /\ clean' = clean \cup {e}
    /\ UNCHANGED <<wal, open, clock, id, replayed, logged, crashes>>

IsUnterminated(l) == ~l.nl

\* What an Ack of this ID can leave when it does not finish.
UnfinishedAck(i) ==
    {ack, Append(ack, [id |-> i, nl |-> TRUE])} \cup
    (IF TornIn(ack, IsUnterminated) < MaxTorn
       THEN {Append(ack, [id |-> j, nl |-> FALSE]) : j \in {Part, i}}
       ELSE {})

\* versionSync only logs a failed acknowledgement.
AckFails(e) ==
    /\ pc[e] = "persisted"
    /\ ack' \in IF open THEN UnfinishedAck(id[e]) ELSE {ack}
    /\ pc' = [pc EXCEPT ![e] = "done"]
    /\ UNCHANGED <<wal, open, clock, id, replayed, logged, clean, crashes>>

Replay ==
    /\ open
    /\ replayed' \in ReplayResults
    /\ UNCHANGED <<wal, ack, open, clock, id, pc, logged, clean, crashes>>

\* The application has handled a replayed entry and acknowledges it.
AckReplayed(i) ==
    /\ open
    /\ \E k \in 1..Len(replayed) : replayed[k].id = i
    /\ i \notin LoadAcked
    /\ ack' = Append(ack, [id |-> i, nl |-> TRUE])
    /\ UNCHANGED <<wal, open, clock, id, pc, replayed, logged, clean, crashes>>

Close ==
    /\ open
    /\ open' = FALSE
    /\ UNCHANGED <<wal, ack, clock, id, pc, replayed, logged, clean, crashes>>

\* New opens the files of a closed log again, as they are.
New ==
    /\ ~open
    /\ open' = TRUE
    /\ UNCHANGED <<wal, ack, clock, id, pc, replayed, logged, clean, crashes>>

\* The process dies, possibly inside one Append or Ack, and New opens the
\* files again as they are.
Crash ==
    /\ crashes < MaxCrashes
    /\ crashes' = crashes + 1
    /\ \/ UNCHANGED <<wal, ack, id>>
       \/ \E e \in Entries : /\ open /\ pc[e] = "new"
                             /\ wal' \in Unfinished(e)
                             /\ id' = [id EXCEPT ![e] = clock]
                             /\ UNCHANGED ack
       \/ \E e \in Entries : /\ open /\ pc[e] = "persisted"
                             /\ ack' \in UnfinishedAck(id[e])
                             /\ UNCHANGED <<wal, id>>
    /\ pc' = [e \in Entries |->
                IF pc[e] \in {"logged", "persisted"} \/ id'[e] # id[e] THEN "lost" ELSE pc[e]]
    /\ replayed' = <<>>
    /\ open' = TRUE
    /\ UNCHANGED <<clock, logged, clean>>

Next ==
    \/ Advance
    \/ \E e \in Entries : AppendOK(e) \/ AppendFails(e) \/ Persist(e) \/ AckOK(e) \/ AckFails(e)
    \/ Replay
    \/ \E i \in IDs : AckReplayed(i)
    \/ Close
    \/ New
    \/ Crash

Spec == Init /\ [][Next]_vars

-----------------------------------------------------------------------------
(* Properties of every result Replay could return in the current state. *)

Torn(k) == ~wal[k].whole

\* The k-th fragment is in the file before that of e.
Before(k, e) == \A j \in 1..Len(wal) : wal[j].entry = e => k < j

Returned(s, e) == \E n \in 1..Len(s) : s[n].entry = e

\* Nobody has begun to acknowledge the ID of e, for e or for another entry
\* that drew the same reading of the clock.
NotAcked(e) == \A n \in 1..Len(ack) : ack[n].id # id[e]

\* A logged entry that nobody began to acknowledge is returned by every
\* Replay, before and after crashes, as long as no append before it in the
\* file was torn.  (Behind a torn fragment, and when its ID was drawn twice,
\* an entry whose Append returned nil can be lost.)
LoggedIsReplayed ==
    \A e \in logged :
        NotAcked(e) /\ (\A k \in 1..Len(wal) : Torn(k) => ~Before(k, e))
            => \A s \in ReplayResults : Returned(s, e)

\* An entry whose Ack returned nil is not returned again, unless the line of
\* that Ack was written behind a torn one.
AckedStaysAcked ==
    \A e \in clean :
        \/ \A s \in ReplayResults : ~Returned(s, e)
        \/ \E n \in 2..Len(ack) : ack[n].id = id[e] /\ ~ack[n - 1].nl

\* An acknowledgement hides only its own ID: an entry whose whole fragment is
\* in the file and which every Replay returned is, one step later, still
\* returned by every Replay unless its ID is the one being acknowledged.
AckHidesOwnIDOnly ==
    \A e \in Entries :
        (\A s \in ReplayResults : Returned(s, e)) =>
            \/ \A s \in ReplayResults' : Returned(s, e)
            \/ Len(ack') > Len(ack) /\ ack'[Len(ack')].id = id[e]

AckIsolated == [][AckHidesOwnIDOnly]_vars
=============================================================================
