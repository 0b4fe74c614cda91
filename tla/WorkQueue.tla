----------------------------- MODULE WorkQueue ------------------------------
(***************************************************************************)
(* What the worker pool promises to Auditor.Version, without goroutines,   *)
(* channels and contexts: a bounded queue that hands every item it accepts *)
(* to one of a bounded number of workers, oldest first, exactly once.      *)
(*                                                                         *)
(* Shutting down takes two steps.  Between them (stopped, not yet closed)  *)
(* the pool accepts one item and refuses another; it refuses nothing       *)
(* before the first, accepts nothing after the second, and only after the  *)
(* second may a submission panic.                                          *)
(***************************************************************************)
EXTENDS Naturals, Sequences, FiniteSets

CONSTANTS Items, NumWorkers, QueueSize

VARIABLES
    stopped,    \* submissions may be refused
    closed,     \* nothing is accepted any more
    queue,      \* accepted items no worker has taken yet
    place       \* where an item is

vars == <<stopped, closed, queue, place>>

Running == {i \in Items : place[i] = "running"}

Move(i, to) == place' = [place EXCEPT ![i] = to]

Init ==
    /\ stopped = FALSE
    /\ closed = FALSE
    /\ queue = <<>>
    /\ place = [i \in Items |-> "outside"]

\* Submit returns true; with a full queue it waits for room.
Accept(i) ==
    /\ place[i] = "outside"
    /\ ~closed
    /\ Len(queue) < QueueSize
    /\ queue' = Append(queue, i)
    /\ Move(i, "queued")
    /\ UNCHANGED <<stopped, closed>>

\* Submit returns false.
Refuse(i) ==
    /\ place[i] = "outside"
    /\ stopped
    /\ Move(i, "refused")
    /\ UNCHANGED <<stopped, closed, queue>>

\* Submit panics.
Panic(i) ==
    /\ place[i] = "outside"
    /\ closed
    /\ Move(i, "panicked")
    /\ UNCHANGED <<stopped, closed, queue>>

\* The client never submits the item.
Skip(i) ==
    /\ place[i] = "outside"
    /\ Move(i, "ended")
    /\ UNCHANGED <<stopped, closed, queue>>

\* A free worker takes the oldest item.
Take(i) ==
    /\ queue # <<>>
    /\ i = Head(queue)
    /\ place[i] = "queued"
    /\ Cardinality(Running) < NumWorkers
    /\ queue' = Tail(queue)
    /\ Move(i, "running")
    /\ UNCHANGED <<stopped, closed>>

\* Its Process function returns.
Finish(i) ==
    /\ place[i] = "running"
    /\ Move(i, "ended")
    /\ UNCHANGED <<stopped, closed, queue>>

Stop  == ~stopped /\ stopped' = TRUE /\ UNCHANGED <<closed, queue, place>>
Close == stopped /\ ~closed /\ closed' = TRUE /\ UNCHANGED <<stopped, queue, place>>

Next ==
    \/ \E i \in Items : \/ Accept(i) \/ Refuse(i) \/ Panic(i) \/ Skip(i)
                        \/ Take(i) \/ Finish(i)
    \/ Stop
    \/ Close

\* The process dies and a new pool is started: the items inside the old one
\* are gone, and some of those outside are never submitted.
Restart ==
    /\ stopped' = FALSE
    /\ closed' = FALSE
    /\ queue' = <<>>
    /\ \E S \in SUBSET {i \in Items : place[i] = "outside"} :
        place' = [i \in Items |-> IF i \in S \/ place[i] \in {"queued", "running"}
                                  THEN "ended" ELSE place[i]]

Spec == Init /\ [][Next]_vars

\* The pools of successive lives of the process.
RestartSpec == Init /\ [][Next \/ Restart]_vars

=============================================================================
