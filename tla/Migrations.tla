----------------------------- MODULE Migrations -----------------------------
(***************************************************************************)
(* MigrationRegistry of domain/reconstruct/migration.go for one entity     *)
(* type.  Register writes under the write lock.  Migrate takes the read    *)
(* lock for the outer map only and then reads the inner one, which         *)
(* Register changes in place, without a lock: reads that meet a write are  *)
(* a data race, on which the Go runtime may also stop the program.         *)
(* Nothing in the repository calls Migrate on a read.                      *)
(***************************************************************************)
EXTENDS Integers, Sequences, FiniteSets

CONSTANTS
    Registrars, \* goroutines that call Register once
    Migrators,  \* goroutines that call Migrate once
    SchemaVersions, \* schema versions: 1..n
    None        \* no migration

VARIABLES
    migrations, \* from version -> the registrar whose function is registered
    outer,      \* whether the inner map of the type exists
    reg,        \* registrar -> [from, at]
    mig,        \* migrator -> [from, to, at, current, data]
    halted      \* the runtime stopped the program on a concurrent map access

vars == <<migrations, outer, reg, mig, halted>>

\* The write lock is taken; an existing migration is replaced.
RegisterReplacing(r, v) ==
    /\ reg[r].at = "new"
    /\ \A q \in Registrars : reg[q].at # "writing"
    /\ outer' = TRUE
    /\ reg' = [reg EXCEPT ![r] = [from |-> v, at |-> "writing"]]
    /\ UNCHANGED <<migrations, mig, halted>>

\* Register(v, v + 1): the write lock is taken; a conflict is refused.  A nil
\* function, a gap and a version below 1 are refused before.
Register(r, v) ==
    /\ reg[r].at = "new"
    /\ \A q \in Registrars : reg[q].at # "writing"
    /\ outer' = TRUE
    /\ reg' = [reg EXCEPT ![r] =
           [from |-> v, at |-> IF migrations[v] # None THEN "error" ELSE "writing"]]
    /\ UNCHANGED <<migrations, mig, halted>>

\* The entry is in the map and the lock is released.
Written(r) ==
    /\ reg[r].at = "writing"
    /\ migrations' = [migrations EXCEPT ![reg[r].from] = r]
    /\ reg' = [reg EXCEPT ![r].at = "nil"]
    /\ UNCHANGED <<outer, mig, halted>>

\* Migrate: nothing to do, no inner map, or its reference is kept.  The read
\* lock waits for a Register that is writing.
Begin(m, a, b) ==
    /\ mig[m].at = "new"
    /\ \A q \in Registrars : reg[q].at # "writing"
    /\ mig' = [mig EXCEPT ![m] =
           [from |-> a, to |-> b, current |-> a, data |-> <<>>,
            at |-> IF a >= b THEN "ok" ELSE IF outer THEN "loop" ELSE "error"]]
    /\ UNCHANGED <<migrations, outer, reg, halted>>

\* What a read of the map may find: during a write of the same key either.
Found(v) ==
    {migrations[v]} \cup {r \in Registrars : reg[r].at = "writing" /\ reg[r].from = v}

\* One round of the loop: the function found for the current version is called.
Apply(m) ==
    /\ mig[m].at = "loop"
    /\ \E f \in Found(mig[m].current) :
           mig' = [mig EXCEPT ![m] =
               IF f = None THEN [@ EXCEPT !.at = "error"]
               ELSE [from |-> @.from, to |-> @.to, current |-> @.current + 1,
                     data |-> Append(@.data, f),
                     at |-> IF @.current + 1 = @.to THEN "ok" ELSE "loop"]]
    /\ UNCHANGED <<migrations, outer, reg, halted>>

\* The migration function returns an error.
FnFails(m) ==
    /\ mig[m].at = "loop"
    /\ \E f \in Found(mig[m].current) : f # None
    /\ mig' = [mig EXCEPT ![m].at = "error"]
    /\ UNCHANGED <<migrations, outer, reg, halted>>

\* fatal error: concurrent map read and map write.
Halt(m) ==
    /\ mig[m].at = "loop"
    /\ \E r \in Registrars : reg[r].at = "writing"
    /\ halted' = TRUE
    /\ UNCHANGED <<migrations, outer, reg, mig>>

Targets == SchemaVersions \cup {Cardinality(SchemaVersions) + 1}

Init ==
    /\ migrations = [v \in SchemaVersions |-> None]
    /\ outer = FALSE
    /\ reg = [r \in Registrars |-> [from |-> 0, at |-> "new"]]
    /\ mig = [m \in Migrators |-> [from |-> 0, to |-> 0, current |-> 0, data |-> <<>>, at |-> "new"]]
    /\ halted = FALSE

Next ==
    /\ ~halted
    /\ \/ \E r \in Registrars : (\E v \in SchemaVersions : Register(r, v)) \/ Written(r)
       \/ \E m \in Migrators : \/ \E a \in SchemaVersions, b \in Targets : Begin(m, a, b)
                              \/ Apply(m) \/ FnFails(m) \/ Halt(m)

Spec == Init /\ [][Next]_vars

-----------------------------------------------------------------------------
(* Properties *)

\* The highest version a registered migration leads to; versions below it may
\* be missing.
LatestSchemaVersion ==
    LET to == {v + 1 : v \in {w \in SchemaVersions : migrations[w] # None}}
    IN IF to = {} THEN 1 ELSE CHOOSE v \in to : \A w \in to : w <= v

\* A Migrate that succeeded went through every version from its start to its
\* target, by the function registered for each and by no other, although it
\* read the map while others registered; and it never leads above
\* LatestSchemaVersion, except through an entry that is just being written.
MigratesEveryStep ==
    \A m \in Migrators : mig[m].at = "ok" /\ mig[m].from < mig[m].to =>
        /\ Len(mig[m].data) = mig[m].to - mig[m].from
        /\ \A i \in 1..Len(mig[m].data) :
               LET v == mig[m].from + i - 1
                   r == mig[m].data[i]
               IN /\ reg[r].from = v
                  /\ migrations[v] = r \/ (reg[r].at = "writing" /\ migrations[v] = None)
        /\ \/ mig[m].to <= LatestSchemaVersion
           \/ \E r \in Registrars : reg[r].at = "writing" /\ reg[r].from < mig[m].to
=============================================================================
