--------------------------- MODULE EntityRegistry ---------------------------
(***************************************************************************)
(* Registry.Register of domain/registry: the configuration of an entity    *)
(* type, read from its tags, under the lowercased name of its struct.      *)
(* Goroutines register at the same time; structs of different packages or  *)
(* of different case share a name.                                         *)
(***************************************************************************)
EXTENDS Naturals, Sequences, FiniteSets

CONSTANTS
    Callers,    \* goroutines that call Register
    Structs,    \* struct -> [name: lowercased, fields: sequence, size]
    Strict,     \* GuardrailConfig.StrictRegistration
    MaxBytes,   \* GuardrailConfig.MaxEntityBytes
    NoConfig    \* not registered

VARIABLES
    entities,   \* name -> EntityConfig
    arg,        \* the struct a call registers
    at          \* where the call is: "new", "store", "nil" or "error"

vars == <<entities, arg, at>>

FieldSet(s) == {Structs[s].fields[i] : i \in 1..Len(Structs[s].fields)}

\* parseFieldConfig keeps the tags it knows.
KnownTags == {"id", "tracked", "ignore", "normalized", "redactable"}
ParseFieldConfig(f) == [name |-> f.name, tags |-> f.tags \cap KnownTags]

\* buildEntityConfig needs exactly one exported field with the id tag.
IDFields(s) == {f \in FieldSet(s) : "id" \in f.tags}
Builds(s) == Cardinality(IDFields(s)) = 1

BuildEntityConfig(s) ==
    [struct |-> s,
     idField |-> (CHOOSE f \in IDFields(s) : TRUE).name,
     fields |-> [i \in 1..Len(Structs[s].fields) |-> ParseFieldConfig(Structs[s].fields[i])],
     hasTracked |-> \E f \in FieldSet(s) : "tracked" \in f.tags]

\* checkGuardrails: []byte fields that are not ignored, when strict; the size.
PassesGuardrails(s) ==
    /\ Strict => \A f \in FieldSet(s) : f.bytes => "ignore" \in f.tags
    /\ Structs[s].size <= MaxBytes

Registered(s) == entities[Structs[s].name] # NoConfig

\* Read lock, then the checks that need none.
Check(c, s) ==
    /\ at[c] = "new"
    /\ arg' = [arg EXCEPT ![c] = s]
    /\ at' = [at EXCEPT ![c] =
           IF ~Registered(s) /\ Builds(s) /\ PassesGuardrails(s) THEN "store" ELSE "error"]
    /\ UNCHANGED entities

\* Stores under the write lock without looking again.
StoreUnchecked(c) ==
    /\ at[c] = "store"
    /\ entities' = [entities EXCEPT ![Structs[arg[c]].name] = BuildEntityConfig(arg[c])]
    /\ at' = [at EXCEPT ![c] = "nil"]
    /\ UNCHANGED arg

\* Write lock: another call may have stored the name since the check.
Store(c) ==
    /\ at[c] = "store"
    /\ IF Registered(arg[c])
         THEN at' = [at EXCEPT ![c] = "error"] /\ UNCHANGED entities
         ELSE /\ entities' = [entities EXCEPT ![Structs[arg[c]].name] = BuildEntityConfig(arg[c])]
              /\ at' = [at EXCEPT ![c] = "nil"]
    /\ UNCHANGED arg

Init ==
    /\ entities = [n \in {Structs[s].name : s \in DOMAIN Structs} |-> NoConfig]
    /\ arg = [c \in Callers |-> NoConfig]
    /\ at = [c \in Callers |-> "new"]

Next == \E c \in Callers : (\E s \in DOMAIN Structs : Check(c, s)) \/ Store(c)

Spec == Init /\ [][Next]_vars

-----------------------------------------------------------------------------
(* Properties *)

\* A Register that returned nil holds its name for good: what Get returns for
\* it is the configuration of the struct that call registered, so that
\* versions are decoded into that struct; and every registered name is held
\* by one such call, whose struct passed every check.
NilHoldsTheName ==
    /\ \A c \in Callers : at[c] = "nil" =>
           entities[Structs[arg[c]].name] = BuildEntityConfig(arg[c])
    /\ \A n \in DOMAIN entities : entities[n] # NoConfig =>
           \E c \in Callers :
               /\ {d \in Callers : at[d] = "nil" /\ Structs[arg[d]].name = n} = {c}
               /\ Builds(arg[c]) /\ PassesGuardrails(arg[c])
=============================================================================
