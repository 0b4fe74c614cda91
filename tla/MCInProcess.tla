---------------------------- MODULE MCInProcess ----------------------------
(***************************************************************************)
(* The helpers inside the process, the diff engine and the file WAL, for   *)
(* TLC.  The steps of two of them commute: each behaviour moves one of     *)
(* them, and the others stay where they start.                             *)
(***************************************************************************)
EXTENDS FileWAL, InProcess, TLC

CONSTANTS Schema, Instances, Absent, NaN, Err, Panic

VARIABLES type, prev, curr, delta, applied

diffVars == <<type, prev, curr, delta, applied>>
allVars == <<vars, cacheVars, diffVars, typeVars, entityVars, migrationVars>>

D == INSTANCE DiffEngine

MCInit == Init /\ L!Init /\ D!Init /\ T!Init /\ E!Init /\ M!Init

MCNext ==
    \/ /\ L!Init /\ D!Init /\ T!Init /\ E!Init /\ M!Init
       /\ Next /\ UNCHANGED <<cacheVars, diffVars, typeVars, entityVars, migrationVars>>
    \/ /\ Init /\ D!Init /\ T!Init /\ E!Init /\ M!Init
       /\ L!Next /\ UNCHANGED <<vars, diffVars, typeVars, entityVars, migrationVars>>
    \/ /\ Init /\ L!Init /\ T!Init /\ E!Init /\ M!Init
       /\ D!Next /\ UNCHANGED <<vars, cacheVars, typeVars, entityVars, migrationVars>>
    \/ /\ Init /\ L!Init /\ D!Init /\ E!Init /\ M!Init
       /\ T!Next /\ UNCHANGED <<vars, cacheVars, diffVars, entityVars, migrationVars>>
    \/ /\ Init /\ L!Init /\ D!Init /\ T!Init /\ M!Init
       /\ E!Next /\ UNCHANGED <<vars, cacheVars, diffVars, typeVars, migrationVars>>
    \/ /\ Init /\ L!Init /\ D!Init /\ T!Init /\ E!Init
       /\ M!Next /\ UNCHANGED <<vars, cacheVars, diffVars, typeVars, entityVars>>

MCSpec == MCInit /\ [][MCNext]_allVars

\* The calls of the file WAL are interchangeable.
Symmetry == Permutations(Entries)


-----------------------------------------------------------------------------
(* Values of the constants *)

\* Two entities, one of which has an ID that continues the other's.
MCIds == {<<"a">>, <<"a", "b">>, <<"c">>}

F(name, kind, of, tags) == [name |-> name, kind |-> kind, type |-> of, tags |-> tags]

\* One type with a map and ignored fields; one with tracked fields, an
\* embedded struct, a nested one, a pointer and a normalized slice.
MCSchema == [
    doc   |-> <<F("ID", "leaf", "", {"id"}), F("Note", "leaf", "", {"ignore"}),
                F("Meta", "map", "", {})>>,
    place |-> <<F("Name", "leaf", "", {}), F("Base", "embedded", "base", {}),
                F("Addr", "struct", "addr", {"tracked"}), F("Geo", "pointer", "addr", {"tracked"}),
                F("Tags", "slice", "", {"tracked", "normalized"})>>,
    base  |-> <<F("Mark", "leaf", "", {"tracked"}), F("Hidden", "leaf", "", {})>>,
    addr  |-> <<F("City", "leaf", "", {})>>,
    pipe  |-> <<F("Out", "chan", "", {})>>]

Str(x) == [kind |-> "string", val |-> x]
Whole(n) == [kind |-> "int", val |-> 2 * n]
Float(h) == [kind |-> "float", val |-> h]
Null == [kind |-> "null", val |-> Nil]

\* Strings, 1, 1.0, 1.5, NaN, null and maps with each of these.
Inner == {Str(1), Whole(1), Float(3), Float(NaN), Null}
MapVals == {Str(1), Str(2), Whole(1), Float(2), Float(3), Float(NaN), Null}
             \cup {[kind |-> "map", val |-> m] : m \in [{"k"} -> Inner] \cup {[k \in {} |-> Nil]}}
Metas == {Nil} \cup UNION {{m \in [K -> MapVals] : "l" \in K => m["l"] \in {Str(1), Whole(1)}} :
                              K \in SUBSET {"k", "l"}}
Addrs == [City : {1, 2}]

MCInstances == [
    doc   |-> [ID : {1}, Note : {1, 2}, Meta : Metas],
    place |-> [Name : {1, 2}, Base : [Mark : {1, 2}, Hidden : {1, 2}], Addr : Addrs,
               Geo : Addrs \cup {Nil, [City |-> NaN]}, Tags : {<<1, 2>>, <<2, 1>>, <<1>>}],
    pipe  |-> [Out : {1}]]

MCWalks == {<<"t">>, <<"t", "u">>, <<"u", "v">>}

Plain(name, tags) == [name |-> name, tags |-> tags, bytes |-> FALSE]

\* Two structs of one name; one without and one with two IDs; one with bytes
\* that are not ignored; one that is too large.
MCStructs == [
    User  |-> [name |-> "user", size |-> 1, fields |-> <<Plain("ID", {"id"}), Plain("Name", {"tracked"})>>],
    USER  |-> [name |-> "user", size |-> 1, fields |-> <<Plain("Key", {"id"})>>],
    Order |-> [name |-> "order", size |-> 1, fields |-> <<Plain("Key", {"id"}),
                   [name |-> "Blob", tags |-> {"ignore"}, bytes |-> TRUE]>>],
    NoID  |-> [name |-> "noid", size |-> 1, fields |-> <<Plain("Name", {})>>],
    TwoID |-> [name |-> "twoid", size |-> 1, fields |-> <<Plain("A", {"id"}), Plain("B", {"id"})>>],
    Blob  |-> [name |-> "blob", size |-> 1, fields |-> <<Plain("ID", {"id"}),
                   [name |-> "Data", tags |-> {}, bytes |-> TRUE]>>],
    Large |-> [name |-> "large", size |-> 2, fields |-> <<Plain("ID", {"id"})>>]]
=============================================================================
