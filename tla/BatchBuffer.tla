---------------------------- MODULE BatchBuffer ----------------------------
(***************************************************************************)
(* The batch buffer in front of ClickHouse: adapter/clickhouse/batch.go    *)
(* with the BatchInsert of adapter/clickhouse/olap.go as its sink.         *)
(*                                                                         *)
(* Producers call Enqueue one record after another, one goroutine runs     *)
(* loop, and any number of goroutines call Close.  BatchInsert executes    *)
(* one INSERT per record, so that a failed attempt leaves a prefix of its  *)
(* batch in the table and the retry inserts that prefix again.             *)
(***************************************************************************)
EXTENDS Naturals, Sequences, FiniteSets

CONSTANTS
    Producers,  \* goroutines that call Enqueue
    PerProducer,\* how many records each of them enqueues (a bound of the model)
    Closers,    \* the calls of Close
    BatchSize,  \* BatchConfig.BatchSize after defaults
    MaxRetries, \* BatchConfig.MaxRetries after defaults
    MaxFaults   \* failing INSERT statements (a bound of the model)

ASSUME BatchAssumption ==
    /\ BatchSize \in Nat \ {0}
    /\ MaxRetries \in Nat
    /\ PerProducer \in [Producers -> Nat]
    /\ MaxFaults \in Nat

\* make(chan domain.VersionRecord, cfg.BatchSize*2)
Capacity == 2 * BatchSize

VARIABLES
    ch,         \* the buffer of the channel
    closed,     \* the channel has been closed
    buf,        \* the slice of loop; the batch while a flush is under way
    loop,       \* "select", "flush", "final" (the flush on close), "exited"
    pos,        \* index of the next record BatchInsert executes
    attempt,    \* the retry counter of flush
    sink,       \* the rows inserted into ClickHouse, in order
    next,       \* the record a producer enqueues next
    pc,         \* where a producer is: "ready", "sending" or "panicked"
    close,      \* where a caller of Close is
    accepted,   \* history: the records whose Enqueue returned, in order
    settled,    \* history: the records whose flush has returned, in order
    dropped,    \* history: the records of batches given up by flush
    faults      \* history: how many INSERT statements reported an error

vars == <<ch, closed, buf, loop, pos, attempt, sink, next, pc, close,
          accepted, settled, dropped, faults>>
loopVars == <<buf, loop, pos, attempt, sink, settled, dropped, faults>>

\* NewBatchBuffer: an empty channel and a loop goroutine in its select.
Init ==
    /\ ch = <<>>
    /\ closed = FALSE
    /\ buf = <<>>
    /\ loop = "select"
    /\ pos = 1
    /\ attempt = 0
    /\ sink = <<>>
    /\ next = [p \in Producers |-> 1]
    /\ pc = [p \in Producers |-> "ready"]
    /\ close = [c \in Closers |-> "new"]
    /\ accepted = <<>>
    /\ settled = <<>>
    /\ dropped = {}
    /\ faults = 0

-----------------------------------------------------------------------------
(* Enqueue is one channel send. *)

Enqueue(p) ==
    /\ pc[p] = "ready"
    /\ next[p] <= PerProducer[p]
    /\ pc' = [pc EXCEPT ![p] = "sending"]
    /\ UNCHANGED <<ch, closed, next, close, accepted, loopVars>>

\* The record, named by who enqueues it and its position in that order, is in
\* the channel and Enqueue returns.
Deliver(p) ==
    /\ ch' = Append(ch, <<p, next[p]>>)
    /\ accepted' = Append(accepted, <<p, next[p]>>)
    /\ next' = [next EXCEPT ![p] = @ + 1]
    /\ pc' = [pc EXCEPT ![p] = "ready"]
    /\ UNCHANGED <<closed, close, loopVars>>

\* Blocks while the channel is full.
Send(p) == pc[p] = "sending" /\ ~closed /\ Len(ch) < Capacity /\ Deliver(p)

\* A send on a closed channel panics, also when it was already blocked.
SendPanics(p) ==
    /\ pc[p] = "sending"
    /\ closed
    /\ pc' = [pc EXCEPT ![p] = "panicked"]
    /\ UNCHANGED <<ch, closed, next, close, accepted, loopVars>>

-----------------------------------------------------------------------------
(* The loop goroutine. *)

\* flush(buf) starts its first attempt.
StartFlush(label) == loop' = label /\ pos' = 1 /\ attempt' = 0

\* case rec, ok := <-b.ch with a record: append it, flush a full buffer.
Receive ==
    /\ loop = "select"
    /\ ch # <<>>
    /\ ch' = Tail(ch)
    /\ buf' = Append(buf, Head(ch))
    /\ IF Len(buf') >= BatchSize THEN StartFlush("flush")
                                 ELSE UNCHANGED <<loop, pos, attempt>>
    /\ UNCHANGED <<closed, sink, next, pc, close, accepted, settled, dropped, faults>>

\* Without a ticker only full batches are flushed.
TickNever == FALSE /\ UNCHANGED vars

\* case <-ticker.C; a tick with an empty buffer changes nothing.
Tick ==
    /\ loop = "select"
    /\ buf # <<>>
    /\ StartFlush("flush")
    /\ UNCHANGED <<ch, closed, buf, sink, next, pc, close, accepted, settled, dropped, faults>>

\* A break in the select that does not leave the loop.
ChannelClosedBusy ==
    /\ loop = "select"
    /\ closed
    /\ ch = <<>>
    /\ IF buf # <<>> THEN StartFlush("flush") ELSE UNCHANGED <<loop, pos, attempt>>
    /\ UNCHANGED <<ch, closed, buf, sink, next, pc, close, accepted, settled, dropped, faults>>

\* case rec, ok := <-b.ch with ok false: only after the channel is drained.
ChannelClosed ==
    /\ loop = "select"
    /\ closed
    /\ ch = <<>>
    /\ IF buf # <<>> THEN StartFlush("final")
                     ELSE loop' = "exited" /\ UNCHANGED <<pos, attempt>>
    /\ UNCHANGED <<ch, closed, buf, sink, next, pc, close, accepted, settled, dropped, faults>>

Flushing == loop \in {"flush", "final"}

\* flush returns to loop, which empties the buffer or ends.
FlushReturns ==
    /\ settled' = settled \o buf
    /\ buf' = <<>>
    /\ loop' = IF loop = "final" THEN "exited" ELSE "select"

\* BatchInsert executes the INSERT of the next record.
Insert ==
    /\ Flushing
    /\ pos <= Len(buf)
    /\ sink' = Append(sink, buf[pos])
    /\ pos' = pos + 1
    /\ UNCHANGED <<ch, closed, buf, loop, attempt, next, pc, close, accepted, settled, dropped, faults>>

\* BatchInsert returned nil.
FlushSucceeds ==
    /\ Flushing
    /\ pos > Len(buf)
    /\ FlushReturns
    /\ pos' = 1
    /\ UNCHANGED <<ch, closed, attempt, sink, next, pc, close, accepted, dropped, faults>>

\* Retrying behind the record that failed.
RetryPos == IF pos < Len(buf) THEN pos + 1 ELSE pos

\* The retry starts with the first record of the batch again.
Restart == 1

\* The bound tested after the counter has passed it.
RetriesLate == attempt <= MaxRetries

\* attempt < b.cfg.MaxRetries
Retries == attempt < MaxRetries

\* BatchInsert logs the error and goes on with the next record.
InsertFailsSkipping ==
    /\ Flushing
    /\ pos <= Len(buf)
    /\ faults < MaxFaults
    /\ faults' = faults + 1
    /\ pos' = pos + 1
    /\ UNCHANGED <<ch, closed, buf, loop, attempt, sink, next, pc, close, accepted, settled, dropped>>

\* An INSERT reports an error, before or after it took effect: the attempt
\* ends; flush sleeps and tries the whole batch again, or gives it up.
InsertFails ==
    /\ Flushing
    /\ pos <= Len(buf)
    /\ faults < MaxFaults
    /\ faults' = faults + 1
    /\ sink' \in {sink, Append(sink, buf[pos])}
    /\ \/ /\ Retries
          /\ attempt' = attempt + 1
          /\ pos' = Restart
          /\ UNCHANGED <<buf, loop, settled, dropped>>
       \/ /\ ~Retries
          /\ FlushReturns
          /\ dropped' = dropped \cup {buf[i] : i \in 1..Len(buf)}
          /\ pos' = 1
          /\ UNCHANGED attempt
    /\ UNCHANGED <<ch, closed, next, pc, close, accepted>>

-----------------------------------------------------------------------------
(* Close: sync.Once runs the body for one caller, the others wait for it. *)

CloseFirst(c) ==
    /\ close[c] = "new"
    /\ \A d \in Closers : close[d] = "new"
    /\ closed' = TRUE
    /\ close' = [close EXCEPT ![c] = "closing"]
    /\ UNCHANGED <<ch, next, pc, accepted, loopVars>>

CloseAgain(c) ==
    /\ close[c] = "new"
    /\ \E d \in Closers : close[d] # "new"
    /\ close' = [close EXCEPT ![c] = "blocked"]
    /\ UNCHANGED <<ch, closed, next, pc, accepted, loopVars>>

\* wg.Wait and the end of once.Do.
CloseReturns(c) ==
    /\ close[c] = "closing"
    /\ loop = "exited"
    /\ close' = [close EXCEPT ![c] = "returned"]
    /\ UNCHANGED <<ch, closed, next, pc, accepted, loopVars>>

\* A flag instead of sync.Once: the other callers return at once.
OnceReturnsAtOnce(c) ==
    /\ close[c] = "blocked"
    /\ close' = [close EXCEPT ![c] = "returned"]
    /\ UNCHANGED <<ch, closed, next, pc, accepted, loopVars>>

OnceReturns(c) ==
    /\ close[c] = "blocked"
    /\ \E d \in Closers : close[d] = "returned"
    /\ close' = [close EXCEPT ![c] = "returned"]
    /\ UNCHANGED <<ch, closed, next, pc, accepted, loopVars>>

-----------------------------------------------------------------------------

Terminated ==
    /\ loop = "exited"
    /\ \A c \in Closers : close[c] = "returned"
    /\ \A p \in Producers : pc[p] = "panicked" \/ next[p] > PerProducer[p]
    /\ UNCHANGED vars

Loop == Receive \/ Tick \/ ChannelClosed \/ Insert \/ FlushSucceeds \/ InsertFails

Close(c) == CloseFirst(c) \/ CloseAgain(c) \/ CloseReturns(c) \/ OnceReturns(c)

Next ==
    \/ \E p \in Producers : Enqueue(p) \/ Send(p) \/ SendPanics(p)
    \/ Loop
    \/ \E c \in Closers : Close(c)
    \/ Terminated

\* The scheduler runs every goroutine that can take a step, the ticker keeps
\* firing and INSERT statements return.  Nobody has to call Enqueue or Close.
Fairness ==
    /\ \A p \in Producers : SF_vars(Send(p)) /\ WF_vars(SendPanics(p))
    /\ WF_vars(Loop)
    /\ \A c \in Closers : WF_vars(CloseReturns(c)) /\ WF_vars(OnceReturns(c))

Spec == Init /\ [][Next]_vars /\ Fairness

-----------------------------------------------------------------------------
(* Properties. *)

ToSet(s) == {s[i] : i \in 1..Len(s)}

\* No record is lost, doubled or overtaken between Enqueue and flush: what
\* was accepted is, in order, what has been flushed, the buffer of loop and
\* the channel; and a flush that returned without giving its batch up has
\* left every record of it in the table.
Conserved ==
    /\ accepted = settled \o buf \o ch
    /\ ToSet(settled) \subseteq ToSet(sink) \cup dropped

\* The table receives records in the order they were accepted: when a record
\* first appears in it every record accepted before it is already there, or
\* was given up by flush.
SinkInOrder ==
    \A i, j \in 1..Len(accepted) :
        i < j => \A k \in 1..Len(sink) :
            sink[k] = accepted[j] =>
                \/ accepted[i] \in dropped
                \/ \E h \in 1..(k - 1) : sink[h] = accepted[i]

\* Retries insert a record again, but no more often than flush has attempts.
BoundedDuplicates ==
    \A r \in ToSet(sink) :
        Cardinality({k \in 1..Len(sink) : sink[k] = r}) <= MaxRetries + 1

\* Every Close that returned, the first and the repeated ones, returned after
\* the channel and the buffer were drained and the loop was gone.
CloseDrains ==
    (\E c \in Closers : close[c] = "returned") =>
        /\ loop = "exited"
        /\ ToSet(accepted) \subseteq ToSet(sink) \cup dropped

\* Every accepted record reaches the table or is given up, also when it is
\* alone in a buffer below the batch size and nobody calls Close: producers
\* enqueue finitely many records, and from some time on all that were accepted
\* are flushed.
EventuallySettled == <>[](ToSet(accepted) \subseteq ToSet(settled))

\* A call of Close returns, whatever the table answers.
CloseEnds ==
    \A c \in Closers : close[c] # "new" ~> close[c] = "returned"

=============================================================================
