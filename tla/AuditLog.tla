------------------------------ MODULE AuditLog ------------------------------
(***************************************************************************)
(* What Version promises, without its pipeline: per entity an append-only  *)
(* log in which every call appears at most once and which no later step    *)
(* changes, and outcomes that report success only for a call in the log.   *)
(* An error promises nothing: the version may exist all the same.          *)
(***************************************************************************)
EXTENDS Naturals, Sequences

CONSTANTS Calls, Entities

VARIABLES
    log,        \* per entity, the calls in version order
    outcome     \* what the caller knows: "open", "ok" or "error"

Logged(c) == \E e \in Entities : \E v \in DOMAIN log[e] : log[e][v] = c

Init ==
    /\ log = [e \in Entities |-> <<>>]
    /\ outcome = [c \in Calls |-> "open"]

\* The version of a call gets the next number of its entity.  The caller may
\* be told an error at the same time.
Record(c, e) ==
    /\ outcome[c] = "open"
    /\ ~Logged(c)
    /\ log' = [log EXCEPT ![e] = Append(@, c)]
    /\ outcome' \in {outcome, [outcome EXCEPT ![c] = "error"]}

\* A recorded call succeeds.
Succeed(c) ==
    /\ outcome[c] = "open"
    /\ Logged(c)
    /\ outcome' = [outcome EXCEPT ![c] = "ok"]
    /\ UNCHANGED log

\* Calls fail, one by one or many at once in a crash.
GiveUp(S) ==
    /\ \A c \in S : outcome[c] = "open"
    /\ outcome' = [c \in Calls |-> IF c \in S THEN "error" ELSE outcome[c]]
    /\ UNCHANGED log

Next ==
    \/ \E c \in Calls, e \in Entities : Record(c, e)
    \/ \E c \in Calls : Succeed(c)
    \/ \E S \in SUBSET Calls : GiveUp(S)

Spec == Init /\ [][Next]_<<log, outcome>>

=============================================================================
