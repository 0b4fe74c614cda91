-------------------------------- MODULE Pool --------------------------------
(***************************************************************************)
(* The bounded worker pool of app/pool.go, together with the only use the  *)
(* library makes of it: Auditor.Version submits one work item per call,    *)
(* the item completes the PendingVersion the call returned.                *)
(*                                                                         *)
(* An item is the Version call that submits it.  Its caller runs Submit,   *)
(* some worker runs its Process function, and any number of goroutines     *)
(* may call Shutdown.  Every step below is one atomic operation of the Go  *)
(* code: an atomic load or swap, a channel operation, a return.            *)
(*                                                                         *)
(* Channel semantics (Go specification): a send on a closed channel        *)
(* panics, also when the sender was already blocked in it; a receive from  *)
(* a closed channel first drains the buffer; closing twice panics.         *)
(***************************************************************************)
EXTENDS Naturals, Sequences, FiniteSets

CONSTANTS
    Items,      \* the background Version calls, one work item each
    Workers,    \* worker goroutines started by NewPool
    Stoppers,   \* the calls of Shutdown
    QueueSize   \* capacity of the work channel

ASSUME WorkersAssumption == Workers # {} /\ IsFiniteSet(Workers)
ASSUME QueueSizeAssumption == QueueSize \in Nat \ {0}

\* What a worker goroutine is doing when it runs no item.
Idle   == "idle"
Exited == "exited"
ASSUME ItemsAssumption == Idle \notin Items /\ Exited \notin Items

VARIABLES
    stopped,    \* Pool.stopped, the atomic flag
    closed,     \* the work channel has been closed
    cancelled,  \* Pool.ctx has been cancelled
    work,       \* the buffer of the work channel
    pc,         \* where the caller of Submit is, per item
    worker,     \* the item a worker processes, Idle in receive, or Exited
    stop,       \* where a caller of Shutdown is
    done        \* how often the item's PendingVersion has been completed

vars == <<stopped, closed, cancelled, work, pc, worker, stop, done>>

CallerStates == {"new", "checked", "full", "accepted", "refused", "panicked"}
StopStates   == {"new", "won", "waiting", "drained", "deadline", "already"}

\* Sanity of the state.  The number of completions is a count, not a flag:
\* completing a PendingVersion twice closes a closed channel.
TypeOK ==
    /\ stopped \in BOOLEAN
    /\ closed \in BOOLEAN
    /\ cancelled \in BOOLEAN
    /\ work \in Seq(Items)
    /\ Len(work) <= QueueSize
    /\ pc \in [Items -> CallerStates]
    /\ worker \in [Workers -> Items \cup {Idle, Exited}]
    /\ stop \in [Stoppers -> StopStates]
    /\ done \in [Items -> Nat]

\* NewPool: the channel is open and empty, every worker waits in receive.
Init ==
    /\ stopped = FALSE
    /\ closed = FALSE
    /\ cancelled = FALSE
    /\ work = <<>>
    /\ pc = [i \in Items |-> "new"]
    /\ worker = [w \in Workers |-> Idle]
    /\ stop = [s \in Stoppers |-> "new"]
    /\ done = [i \in Items |-> 0]

-----------------------------------------------------------------------------
(* Submit, as called by Auditor.Version. *)

Full == Len(work) = QueueSize

\* PendingVersion.Complete: record and error are set, done is closed.
Complete(i) == done' = [done EXCEPT ![i] = @ + 1]

\* Submit returned false: Version completes the pending version with the
\* "pool is shut down" error before it returns it.
Refuse(i) ==
    /\ pc' = [pc EXCEPT ![i] = "refused"]
    /\ Complete(i)
    /\ UNCHANGED <<stopped, closed, cancelled, work, worker, stop>>

\* The item is in the buffer and Submit returns true.
Accept(i) ==
    /\ work' = Append(work, i)
    /\ pc' = [pc EXCEPT ![i] = "accepted"]
    /\ UNCHANGED <<stopped, closed, cancelled, worker, stop, done>>

\* The stopped flag is loaded once, on entry.
CheckStopped(i) ==
    /\ pc[i] = "new"
    /\ \/ stopped /\ Refuse(i)
       \/ /\ ~stopped
          /\ pc' = [pc EXCEPT ![i] = "checked"]
          /\ UNCHANGED <<stopped, closed, cancelled, work, worker, stop, done>>

\* First select: the non-blocking send succeeds.
TrySend(i) == pc[i] = "checked" /\ ~closed /\ ~Full /\ Accept(i)

\* A full buffer makes Submit return false at once.
BackpressureRefuses(i) == pc[i] = "checked" /\ ~closed /\ Full /\ Refuse(i)

\* First select: the buffer is full, OnBackpressure only logs, and the
\* caller enters the second, blocking select.
Backpressure(i) ==
    /\ pc[i] = "checked"
    /\ ~closed
    /\ Full
    /\ pc' = [pc EXCEPT ![i] = "full"]
    /\ UNCHANGED <<stopped, closed, cancelled, work, worker, stop, done>>

\* A send after which Submit reports false all the same.
BlockingSendDenied(i) ==
    /\ pc[i] = "full" /\ ~closed /\ ~Full
    /\ work' = Append(work, i)
    /\ pc' = [pc EXCEPT ![i] = "refused"]
    /\ Complete(i)
    /\ UNCHANGED <<stopped, closed, cancelled, worker, stop>>

\* Second select: room in the buffer.
BlockingSend(i) == pc[i] = "full" /\ ~closed /\ ~Full /\ Accept(i)

\* Second select: the pool context is cancelled.
SubmitCancelled(i) == pc[i] = "full" /\ cancelled /\ Refuse(i)

\* Either select: the send case meets a closed channel.  When the context is
\* cancelled too, the second select chooses between the two ready cases.
SendPanics(i) ==
    /\ pc[i] \in {"checked", "full"}
    /\ closed
    /\ pc' = [pc EXCEPT ![i] = "panicked"]
    /\ UNCHANGED <<stopped, closed, cancelled, work, worker, stop, done>>

Submit(i) ==
    \/ CheckStopped(i) \/ TrySend(i) \/ Backpressure(i)
    \/ BlockingSend(i) \/ SubmitCancelled(i) \/ SendPanics(i)

-----------------------------------------------------------------------------
(* The worker loop: range over the channel, run Process, until closed and empty. *)

Receive(w) ==
    /\ worker[w] = Idle
    /\ work # <<>>
    /\ worker' = [worker EXCEPT ![w] = Head(work)]
    /\ work' = Tail(work)
    /\ UNCHANGED <<stopped, closed, cancelled, pc, stop, done>>

\* Process returned: versionSync has run and the pending version is complete.
Process(w) ==
    /\ worker[w] \in Items
    /\ Complete(worker[w])
    /\ worker' = [worker EXCEPT ![w] = Idle]
    /\ UNCHANGED <<stopped, closed, cancelled, work, pc, stop>>

\* A worker that leaves as soon as the channel is closed.
ExitEarly(w) ==
    /\ worker[w] = Idle
    /\ closed
    /\ worker' = [worker EXCEPT ![w] = Exited]
    /\ UNCHANGED <<stopped, closed, cancelled, work, pc, stop, done>>

\* A worker that waits for the cancellation its own exit would bring.
ExitWhenCancelled(w) ==
    /\ worker[w] = Idle
    /\ cancelled
    /\ work = <<>>
    /\ worker' = [worker EXCEPT ![w] = Exited]
    /\ UNCHANGED <<stopped, closed, cancelled, work, pc, stop, done>>

\* A worker that leaves as soon as it finds the channel empty.
ExitWhenEmpty(w) ==
    /\ worker[w] = Idle
    /\ work = <<>>
    /\ worker' = [worker EXCEPT ![w] = Exited]
    /\ UNCHANGED <<stopped, closed, cancelled, work, pc, stop, done>>

\* The range loop ends and wg.Done runs.
Exit(w) ==
    /\ worker[w] = Idle
    /\ closed
    /\ work = <<>>
    /\ worker' = [worker EXCEPT ![w] = Exited]
    /\ UNCHANGED <<stopped, closed, cancelled, work, pc, stop, done>>

Work(w) == Receive(w) \/ Process(w) \/ Exit(w)

-----------------------------------------------------------------------------
(* Shutdown *)

\* A check of what the first caller does later: two callers can go on.
SwapOnClosed(s) ==
    /\ stop[s] = "new"
    /\ stopped' = TRUE
    /\ stop' = [stop EXCEPT ![s] = IF closed THEN "already" ELSE "won"]
    /\ UNCHANGED <<closed, cancelled, work, pc, worker, done>>

\* stopped.Swap(true): only the first caller goes on, the others return nil.
Swap(s) ==
    /\ stop[s] = "new"
    /\ stopped' = TRUE
    /\ stop' = [stop EXCEPT ![s] = IF stopped THEN "already" ELSE "won"]
    /\ UNCHANGED <<closed, cancelled, work, pc, worker, done>>

\* close(p.work)
CloseWork(s) ==
    /\ stop[s] = "won"
    /\ closed' = TRUE
    /\ stop' = [stop EXCEPT ![s] = "waiting"]
    /\ UNCHANGED <<stopped, cancelled, work, pc, worker, done>>

\* Waiting for the first worker only.
DrainedOne(s) ==
    /\ stop[s] = "waiting"
    /\ \E w \in Workers : worker[w] = Exited
    /\ cancelled' = TRUE
    /\ stop' = [stop EXCEPT ![s] = "drained"]
    /\ UNCHANGED <<stopped, closed, work, pc, worker, done>>

\* wg.Wait returned: Shutdown cancels the context and returns nil.
Drained(s) ==
    /\ stop[s] = "waiting"
    /\ \A w \in Workers : worker[w] = Exited
    /\ cancelled' = TRUE
    /\ stop' = [stop EXCEPT ![s] = "drained"]
    /\ UNCHANGED <<stopped, closed, work, pc, worker, done>>

\* The caller's deadline passed: cancel the context and return ctx.Err().
Deadline(s) ==
    /\ stop[s] = "waiting"
    /\ cancelled' = TRUE
    /\ stop' = [stop EXCEPT ![s] = "deadline"]
    /\ UNCHANGED <<stopped, closed, work, pc, worker, done>>

Shutdown(s) == Swap(s) \/ CloseWork(s) \/ Drained(s) \/ Deadline(s)

-----------------------------------------------------------------------------

Returned(i) == pc[i] \in {"accepted", "refused", "panicked"}

\* Nothing is left to do: every call has returned, every worker has left.
Terminated ==
    /\ \A i \in Items : Returned(i)
    /\ \A w \in Workers : worker[w] = Exited
    /\ \A s \in Stoppers : stop[s] \in {"drained", "deadline", "already"}
    /\ UNCHANGED vars

Next ==
    \/ \E i \in Items : Submit(i)
    \/ \E w \in Workers : Work(w)
    \/ \E s \in Stoppers : Shutdown(s)
    \/ Terminated

\* Goroutines that have something to do are scheduled, and a Process function
\* returns: versionSync only calls the store, the WAL and the subscriber.
\* Nobody is obliged to call Version or Shutdown, and no deadline must pass.
Fairness ==
    /\ \A i \in Items : WF_vars(pc[i] # "new" /\ Submit(i))
    /\ \A w \in Workers : WF_vars(Work(w))
    /\ \A s \in Stoppers : WF_vars(CloseWork(s) \/ Drained(s))

Spec == Init /\ [][Next]_vars /\ Fairness

-----------------------------------------------------------------------------
(* Properties *)

Queued(i) == \E k \in 1..Len(work) : work[k] = i
Running(i) == \E w \in Workers : worker[w] = i

\* An accepted item is in exactly one place: once in the buffer, with one
\* worker, or finished with its PendingVersion completed exactly once; a
\* refused one is completed by its caller and reaches no worker
\* ("Must be called exactly once", domain/types.go Complete).
ExactlyOnce ==
    /\ \A j, k \in 1..Len(work) : work[j] = work[k] => j = k
    /\ \A v, w \in Workers : worker[v] = worker[w] /\ worker[v] \in Items => v = w
    /\ \A i \in Items :
        /\ Queued(i) => pc[i] = "accepted" /\ done[i] = 0 /\ ~Running(i)
        /\ Running(i) => pc[i] = "accepted" /\ done[i] = 0
        /\ pc[i] = "accepted" => Queued(i) \/ Running(i) \/ done[i] = 1
        /\ pc[i] = "refused" => done[i] = 1
        /\ pc[i] \in {"new", "checked", "full", "panicked"} => done[i] = 0

\* The Shutdown call that returns nil after waiting leaves nothing behind:
\* every worker has left, and every item that Submit accepted, before or
\* during the shutdown, has been processed.
GracefulDrain ==
    (\E s \in Stoppers : stop[s] = "drained") =>
        /\ \A w \in Workers : worker[w] = Exited
        /\ \A i \in Items : pc[i] = "accepted" => done[i] = 1

\* Concurrent Shutdown calls never close the work channel twice, which would
\* panic: whoever is about to close it finds it open, and is alone.
ClosedOnce ==
    \A s \in Stoppers : stop[s] = "won" =>
        /\ ~closed
        /\ \A t \in Stoppers : stop[t] \notin {"new", "already"} => t = s

\* Whatever Submit accepted is completed, also when a Shutdown deadline
\* passes first: the workers go on draining the channel after it.
AcceptedCompletes ==
    \A i \in Items : pc[i] = "accepted" ~> done[i] = 1

\* A caller blocked by backpressure does not stay blocked.
SubmitReturns ==
    \A i \in Items : pc[i] = "full" ~> Returned(i)

\* Once the channel is closed every worker leaves (no goroutine leak).
WorkersExit ==
    closed ~> \A w \in Workers : worker[w] = Exited

\* Where the promise of the pool, WorkQueue, finds an item: a call that has
\* not returned from Submit is still outside.
PlaceOf(i) ==
    CASE Queued(i) -> "queued"
      [] Running(i) -> "running"
      [] pc[i] = "accepted" /\ ~Queued(i) /\ ~Running(i) -> "ended"
      [] pc[i] \in {"refused", "panicked"} -> pc[i]
      [] OTHER -> "outside"

Queue == INSTANCE WorkQueue WITH
    NumWorkers <- Cardinality(Workers),
    queue <- work,
    place <- [i \in Items |-> PlaceOf(i)]

\* Whatever the interleaving of the callers' selects, the workers' receives
\* and the steps of racing Shutdown calls, the pool is a bounded FIFO queue
\* with that many workers, which refuses nothing while it is open ("Submit
\* blocks until space is available or the pool is shut down", app/pool.go).
ImplementsQueue == Queue!Spec

\* Submit "is safe to call from multiple goroutines" (app/pool.go) and the
\* library never panics (docs/ARCHITECTURE.md, resilience guarantees).
SubmitNeverPanics == \A i \in Items : pc[i] # "panicked"

=============================================================================
