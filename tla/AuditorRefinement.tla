-------------------------- MODULE AuditorRefinement -------------------------
(* The pipeline of Auditor implements AuditLog, and uses the pool as the   *)
(* WorkQueue that Pool implements.                                         *)
EXTENDS Auditor

\* The log of an entity: its rows by version.
LogOf(e) ==
    [v \in {r.version : r \in Rows(e)} |-> (CHOOSE r \in Rows(e) : r.version = v).id]

OutcomeOf(c) ==
    CASE pc[c] = "ok" -> "ok"
      [] pc[c] \in Final \ {"ok"} -> "error"
      [] OTHER -> "open"

Abstract == INSTANCE AuditLog WITH
    log <- [e \in Entities |-> LogOf(e)],
    outcome <- [c \in Calls |-> OutcomeOf(c)]

\* Every step of the racing, failing and crashing calls is a step of an
\* append-only log that reports success only for what it holds.
ImplementsAuditLog == Abstract!Spec

-----------------------------------------------------------------------------

\* Where a call is for the pool.  A synchronous call never enters it.
PlaceOf(c) ==
    CASE pc[c] = "queued" -> "queued"
      [] c \in Busy -> "running"
      [] pc[c] \in {"refused", "panicked"} -> pc[c]
      [] pc[c] \in {"ok", "failed", "lost"} -> "ended"
      [] OTHER -> "outside"

Queue == INSTANCE WorkQueue WITH
    Items <- Calls,
    place <- [c \in Calls |-> PlaceOf(c)]

\* What the calls see of the pool, across crashes, is what WorkQueue allows:
\* no call is queued twice, more than NumWorkers never run, a worker takes the
\* oldest, and a call is refused only once the pool is stopped.
UsesQueue == Queue!RestartSpec

=============================================================================
