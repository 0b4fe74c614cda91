----------------------------- MODULE DiffEngine -----------------------------
(***************************************************************************)
(* Engine.Diff and Engine.Apply of domain/diff/engine.go: a walk over two  *)
(* structs of one type that lists the fields that changed by their dotted  *)
(* paths, and the walk along those paths that sets them.  Tags, embedded   *)
(* structs, pointers, maps of type map[string]any and normalized slices.   *)
(*                                                                         *)
(* A path is a sequence of names.  Map keys hold no dot: one that does is  *)
(* split by applyChange and its value ends up in a nested map.  Names      *)
(* promoted from an embedded struct are not shadowed by the outer one.     *)
(* Integers are ones a float64 holds exactly; NaN stands for whatever      *)
(* json.Marshal refuses.  Apply returns a shallow copy: it writes through  *)
(* the maps and pointees of prev, which the model keeps as it was given.   *)
(* The metadata cache is the subject of TypeCache.                         *)
(***************************************************************************)
EXTENDS Integers, Sequences, SequencesExt, FiniteSets, TLC

CONSTANTS
    Schema,     \* type -> sequence of its exported fields: [name, kind, type, tags]
    Instances,  \* type -> the values Diff is called with
    Nil,        \* a nil pointer or map
    Absent,     \* a json.RawMessage that is nil
    NaN,        \* a value that is not equal to itself and has no encoding
    Err,        \* an error is returned
    Panic       \* the call panics

VARIABLES
    type,       \* the type of the entity; Nil before the call
    prev,       \* the previous entity
    curr,       \* the current one
    delta,      \* what Diff returned: a sequence of changes, Err or Panic
    applied     \* what Apply(prev, delta) returned

vars == <<type, prev, curr, delta, applied>>

Failed(x) == x \in {Err, Panic}

-----------------------------------------------------------------------------
(* Types *)

FieldsOf(T) == {Schema[T][i] : i \in 1..Len(Schema[T])}

HasTracked(T) == \E f \in FieldsOf(T) : "tracked" \in f.tags

Compared(f, tracked) ==
    /\ "id" \notin f.tags /\ "ignore" \notin f.tags
    /\ tracked => "tracked" \in f.tags \/ f.kind = "embedded"

\* An embedded struct without tracked fields of its own inherits the filter.
ChildTracked(f, tracked) == HasTracked(f.type) \/ (f.kind = "embedded" /\ tracked)

\* A map value is a record whose kind is the Go type behind the interface: an
\* int or a float (counted in halves), a string, a map; "null" is a nil
\* interface.  A map behind an interface is not a nil map.
IsMap(x) == x.kind = "map"
IsNumber(x) == x.kind \in {"int", "float"}

KeysOf(m) == IF m = Nil THEN {} ELSE DOMAIN m

Sorted(s) == SortSeq(s, <)

\* What is compared and, when it differs, sent: a normalized slice is sorted.
Normal(f, x) == IF f.kind = "slice" /\ "normalized" \in f.tags THEN Sorted(x) ELSE x

-----------------------------------------------------------------------------
(* Diff *)

Change(path, new) == <<[path |-> path, new |-> new]>>

\* Appends the result of a step, or keeps the first failure.
Join(acc, x) == IF Failed(acc) THEN acc ELSE IF Failed(x) THEN x ELSE acc \o x

RECURSIVE Encodes(_)
RECURSIVE DiffMap(_, _, _)
RECURSIVE DiffFields(_, _, _, _, _)
RECURSIVE SetField(_, _, _, _)
RECURSIVE Decoded(_)
RECURSIVE SetMapPath(_, _, _)
RECURSIVE Agree(_, _, _, _)
RECURSIVE NullMet(_, _)
RECURSIVE KindChanged(_, _)
RECURSIVE MapContents(_)

\* json.Marshal of a map value succeeds.
Encodes(x) == IF IsMap(x) THEN \A k \in KeysOf(x.val) : Encodes(x.val[k]) ELSE x.val # NaN

\* A nil interface has no value to compare or to encode: reflect panics.
DiffKey(old, new, k, path) ==
    LET both == k \in KeysOf(old) /\ k \in KeysOf(new)
        present == {m[k] : m \in {x \in {old, new} : k \in KeysOf(x)}}
    IN IF both /\ IsMap(old[k]) /\ IsMap(new[k]) THEN DiffMap(old[k].val, new[k].val, path)
       ELSE IF \E x \in present : x.kind = "null" THEN Panic
       ELSE IF both /\ old[k] = new[k] /\ old[k].val # NaN THEN <<>>
       ELSE IF \E x \in present : ~Encodes(x) THEN Err
       ELSE Change(path, IF k \in KeysOf(new) THEN new[k] ELSE Absent)

DiffMap(old, new, prefix) ==
    FoldLeft(LAMBDA acc, k : Join(acc, DiffKey(old, new, k, Append(prefix, k))),
             <<>>, SetToSeq(KeysOf(old) \cup KeysOf(new)))

\* What differs is encoded, both ways, or the call fails.
DiffLeaf(f, a, b, path) ==
    IF a = NaN \/ b = NaN THEN Err
    ELSE IF Normal(f, a) = Normal(f, b) THEN <<>>
    ELSE Change(path, Normal(f, b))

\* The struct behind a pointer, all of its fields, has an encoding.
StructEncodes(x) == \A n \in DOMAIN x : x[n] # NaN


\* A nil transition sends the whole value; two pointers recurse.
DiffPointer(f, a, b, path) ==
    IF a = Nil /\ b = Nil THEN <<>>
    ELSE IF a # Nil /\ b # Nil THEN DiffFields(f.type, HasTracked(f.type), a, b, path)
    ELSE IF ~StructEncodes(IF a = Nil THEN b ELSE a) THEN Err
    ELSE Change(path, IF b = Nil THEN Absent ELSE b)

DiffField(f, tracked, a, b, prefix) ==
    LET path == Append(prefix, f.name)
    IN IF f.kind = "chan" THEN Err
       ELSE IF f.kind = "struct" THEN DiffFields(f.type, ChildTracked(f, tracked), a, b, path)
       ELSE IF f.kind = "embedded" THEN DiffFields(f.type, ChildTracked(f, tracked), a, b, prefix)
       ELSE IF f.kind = "map" THEN DiffMap(a, b, path)
       ELSE IF f.kind = "pointer" THEN DiffPointer(f, a, b, path)
       ELSE DiffLeaf(f, a, b, path)

DiffFields(T, tracked, a, b, prefix) ==
    FoldLeft(LAMBDA acc, f :
                 IF Compared(f, tracked)
                   THEN Join(acc, DiffField(f, tracked, a[f.name], b[f.name], prefix))
                   ELSE acc,
             <<>>, Schema[T])

Diff(T, a, b) == DiffFields(T, HasTracked(T), a, b, <<>>)

-----------------------------------------------------------------------------
(* Apply *)

\* json.Unmarshal into an interface{}: every number becomes a float64, also
\* inside a map.
Decoded(x) ==
    IF IsNumber(x) THEN [x EXCEPT !.kind = "float"]
    ELSE IF IsMap(x) THEN [x EXCEPT !.val = [k \in DOMAIN x.val |-> Decoded(x.val[k])]]
    ELSE x

\* json.Unmarshal into the Go type of an existing value: a float64 takes every
\* number, an int those without a fraction, any other type only its own.
FromJSON(kind, x) ==
    IF kind = "any" THEN Decoded(x)
    ELSE IF IsNumber(x) /\ (kind = "float" \/ (kind = "int" /\ x.val % 2 = 0)) THEN [x EXCEPT !.kind = kind]
    ELSE IF kind = x.kind /\ ~IsNumber(x) THEN Decoded(x)
    ELSE Err

\* applyMapPath: the type of an existing value decides what can be decoded; a
\* missing map on the way is created.
SetMapPath(m, path, new) ==
    LET k == Head(path)
        x == FromJSON(IF k \in KeysOf(m) THEN m[k].kind ELSE "any", new)
        child == SetMapPath(IF k \in KeysOf(m) THEN m[k].val ELSE [j \in {} |-> Nil], Tail(path), new)
        Put(y) == IF m = Nil THEN Panic ELSE [j \in DOMAIN m \cup {k} |-> IF j = k THEN y ELSE m[j]]
    IN IF Len(path) = 1
         THEN IF new = Absent THEN (IF m = Nil THEN Nil ELSE [j \in DOMAIN m \ {k} |-> m[j]])
              ELSE IF k \in KeysOf(m) /\ m[k].kind = "null" THEN Panic
              ELSE IF x = Err THEN Err ELSE Put(x)
         ELSE IF k \in KeysOf(m) /\ ~IsMap(m[k]) THEN Err
              ELSE IF Failed(child) THEN child ELSE Put([kind |-> "map", val |-> child])

\* The zero value of a field.
Zero(f) == IF f.kind \in {"pointer", "map"} THEN Nil ELSE IF f.kind = "slice" THEN <<>> ELSE 0

\* FieldByName: a field of the struct, or of one embedded in it.
HasField(T, n) == \E f \in FieldsOf(T) : f.name = n
Holder(T, n) ==
    IF HasField(T, n) THEN CHOOSE f \in FieldsOf(T) : f.name = n
    ELSE CHOOSE f \in FieldsOf(T) : f.kind = "embedded" /\ HasField(f.type, n)

\* The struct s with the field at the path set: applyChange.  Diff sends paths
\* through a pointer only when it is set in the previous entity.
SetField(T, s, path, new) ==
    LET n == Head(path)
        f == Holder(T, n)
        x == IF f.name # n THEN SetField(f.type, s[f.name], path, new)
             ELSE IF Len(path) = 1 THEN (IF new = Absent THEN Zero(f) ELSE new)
             ELSE IF f.kind = "map" THEN SetMapPath(s[n], Tail(path), new)
             ELSE SetField(f.type, s[n], Tail(path), new)
    IN IF Failed(x) THEN x ELSE [s EXCEPT ![f.name] = x]

Apply(T, a, d) ==
    FoldLeft(LAMBDA acc, c : IF Failed(acc) THEN acc ELSE SetField(T, acc, c.path, c.new), a, d)

-----------------------------------------------------------------------------

Init == type = Nil /\ prev = Nil /\ curr = Nil /\ delta = Nil /\ applied = Nil

\* One call of Diff, and Apply of what it returned.
DiffAndApply(T, a, b) ==
    /\ type' = T /\ prev' = a /\ curr' = b
    /\ delta' = Diff(T, a, b)
    /\ applied' = IF Failed(delta') THEN delta' ELSE Apply(T, a, delta')

Next ==
    /\ type = Nil
    /\ \E T \in DOMAIN Instances : \E a, b \in Instances[T] : DiffAndApply(T, a, b)

Spec == Init /\ [][Next]_vars

-----------------------------------------------------------------------------
(* Properties *)

\* What a map encodes to: numbers without their Go type.
MapContents(m) ==
    {<<k, IF IsMap(m[k]) THEN MapContents(m[k].val)
          ELSE IF IsNumber(m[k]) THEN <<"number", m[k].val>> ELSE <<m[k].kind, m[k].val>>>> : k \in KeysOf(m)}

\* Two values agree in what Diff compares: normalized slices up to order, a
\* nil map with an empty one, an int with a float64 of the same value.
Agree(T, tracked, a, b) ==
    \A f \in FieldsOf(T) : Compared(f, tracked) =>
        LET x == a[f.name]
            y == b[f.name]
        IN \/ f.kind \in {"struct", "embedded"} /\ Agree(f.type, ChildTracked(f, tracked), x, y)
           \/ f.kind = "pointer" /\ (x = Nil \/ y = Nil) /\ x = y
           \/ f.kind = "pointer" /\ x # Nil /\ y # Nil /\ Agree(f.type, HasTracked(f.type), x, y)
           \/ f.kind = "map" /\ MapContents(x) = MapContents(y)
           \/ f.kind = "slice" /\ Normal(f, x) = Normal(f, y)
           \/ f.kind = "leaf" /\ x = y

\* A nil interface is met in the maps, nested ones that both have included.
NullMet(a, b) ==
    \E k \in KeysOf(a) \cup KeysOf(b) :
        \/ k \in KeysOf(a) /\ a[k].kind = "null"
        \/ k \in KeysOf(b) /\ b[k].kind = "null"
        \/ /\ k \in KeysOf(a) \cap KeysOf(b) /\ IsMap(a[k]) /\ IsMap(b[k])
           /\ NullMet(a[k].val, b[k].val)

\* A key that stays has a value that its old Go type cannot hold.
KindChanged(a, b) ==
    \E k \in KeysOf(a) \cap KeysOf(b) :
        \/ IsMap(a[k]) /\ IsMap(b[k]) /\ KindChanged(a[k].val, b[k].val)
        \/ ~IsNumber(a[k]) /\ a[k].kind # b[k].kind
        \/ IsNumber(a[k]) /\ ~IsNumber(b[k])
        \/ a[k].kind = "int" /\ b[k].kind = "float" /\ b[k].val # NaN /\ b[k].val % 2 # 0

\* A value without an encoding is in one of the entities.
Unencodable(e) ==
    \/ \E f \in FieldsOf(type) : f.kind = "map" /\ \E k \in KeysOf(e[f.name]) : ~Encodes(e[f.name][k])
    \/ \E f \in FieldsOf(type) : f.kind = "pointer" /\ e[f.name] # Nil /\ ~StructEncodes(e[f.name])

Maps == {f \in FieldsOf(type) : f.kind = "map"}

=============================================================================
