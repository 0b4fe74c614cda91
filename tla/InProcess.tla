----------------------------- MODULE InProcess -----------------------------
(***************************************************************************)
(* The helpers an Auditor holds in its process and that goroutines share:  *)
(* the cache, the type cache of the diff engine, the entity registry and   *)
(* the migration registry, side by side.  They share no state and do not   *)
(* call each other.                                                        *)
(***************************************************************************)
EXTENDS Integers, Sequences

CONSTANTS
    Ids, Versions, Vals, Capacity,              \* LRU
    Differs, Walks, MaxTypes,                   \* TypeCache
    Callers, Structs, Strict, MaxBytes,         \* EntityRegistry
    Registrars, Migrators, SchemaVersions,      \* Migrations
    Nil                                         \* nil

VARIABLES
    cache, got,
    metas, walk, step,
    entities, arg, at,
    migrations, outer, reg, mig, halted

cacheVars == <<cache, got>>
typeVars == <<metas, walk, step>>
entityVars == <<entities, arg, at>>
migrationVars == <<migrations, outer, reg, mig, halted>>

L == INSTANCE LRU
T == INSTANCE TypeCache
E == INSTANCE EntityRegistry WITH NoConfig <- Nil
M == INSTANCE Migrations WITH None <- Nil

-----------------------------------------------------------------------------
(* Properties: those of the modules, under their names there. *)

\* The linked list and the map of the cache are one sequence in order of last
\* use, of bounded length (LRU).
ImplementsRecency == L!ImplementsRecency

\* The cache never exceeds its capacity and never holds a record twice (LRU).
CacheBounded == L!Bounded

\* A type is refused only by a cache that is full of others (TypeCache).
RefusedOnlyWhenFull == T!RefusedOnlyWhenFull

\* A Register that returned nil holds its name for good (EntityRegistry).
NilHoldsTheName == E!NilHoldsTheName

\* A Migrate that succeeded went through every step by the registered
\* functions, while others registered (Migrations).
MigratesEveryStep == M!MigratesEveryStep
=============================================================================
