-------------------------- MODULE InProcessProofs ---------------------------
(***************************************************************************)
(* Proofs about the helpers inside the process that goroutines share: the  *)
(* type cache of the diff engine, the entity registry, the migration       *)
(* registry and the record cache, for every number of goroutines, types,   *)
(* structs, versions and records.                                          *)
(*                                                                         *)
(* The first three arguments are alike.  A map entry is written once,      *)
(* under the write lock and after a second look, and never changed or      *)
(* removed; so what a call concluded from an entry stays true, and what it *)
(* concluded from a missing one is looked at again before it writes.       *)
(*                                                                         *)
(* The record cache: the keys met from head along next are those of the    *)
(* map, each once, tail is the last of them and prev leads back (Full).    *)
(* Every method keeps some of them in their order (SubList), puts at most  *)
(* one in front, and leaves at most Capacity.                              *)
(***************************************************************************)
EXTENDS InProcess, FiniteSetTheorems, SequenceTheorems, WellFoundedInduction, TLAPS

-----------------------------------------------------------------------------
(* The type cache *)

\* The operator of FiniteSets that the instance brought along is the same.
LEMMA TypesCardinality ==
    ASSUME NEW S
    PROVE  T!Cardinality(S) = Cardinality(S)
BY DEF T!Cardinality, Cardinality, T!IsFiniteSet, IsFiniteSet

TypesInv ==
    /\ IsFiniteSet(metas)
    /\ walk = [d \in Differs |-> walk[d]]
    /\ step \in [Differs -> {"idle", "look", "build", "refused"}]
    /\ T!RefusedOnlyWhenFull

\* getOrBuildMeta: the cache keeps its bound, and a type is refused only by a
\* cache that is full of others and stays so, for every number of goroutines
\* that diff, every set of types and every bound.
THEOREM TypeCacheRefusedOnlyWhenFull ==
    ASSUME MaxTypes \in Nat
    PROVE  T!Spec => []RefusedOnlyWhenFull
<1>1. T!Init => TypesInv
  <2> SUFFICES ASSUME T!Init PROVE TypesInv
    OBVIOUS
  <2>1. IsFiniteSet(metas) /\ Cardinality(metas) = 0
    BY FS_EmptySet DEF T!Init
  <2> QED
    BY <2>1, TypesCardinality DEF T!Init, TypesInv, T!RefusedOnlyWhenFull
<1>2. TypesInv /\ [T!Next]_T!vars => TypesInv'
  <2> SUFFICES ASSUME TypesInv, [T!Next]_T!vars PROVE TypesInv'
    OBVIOUS
  <2>0. /\ Cardinality(metas) \in Nat
        /\ T!Cardinality(metas) = Cardinality(metas)
        /\ T!Cardinality(metas') = Cardinality(metas')
    BY FS_CardinalityType, TypesCardinality DEF TypesInv
  <2>1. ASSUME NEW d \in Differs, NEW w \in Walks, T!Diff(d, w) PROVE TypesInv'
    BY <2>0, <2>1 DEF T!Diff, TypesInv, T!RefusedOnlyWhenFull, T!Full
  <2>2. ASSUME NEW d \in Differs, T!Look(d) PROVE TypesInv'
    BY <2>0, <2>2 DEF T!Look, TypesInv, T!RefusedOnlyWhenFull, T!Full
  <2>3. ASSUME NEW d \in Differs, T!Insert(d) PROVE TypesInv'
    <3>1. CASE T!Full /\ Head(walk[d]) \notin metas
      <4>1. UNCHANGED <<metas, walk>> /\ step' = [step EXCEPT ![d] = "refused"]
        BY <2>3, <3>1 DEF T!Insert
      <4>2. T!Full'
        BY <3>1, <4>1 DEF T!Full
      <4>3. \A e \in Differs : step'[e] = "refused" => Head(walk'[e]) \notin metas'
        BY <3>1, <4>1 DEF TypesInv, T!RefusedOnlyWhenFull
      <4>4. (MaxTypes > 0 => T!Cardinality(metas) <= MaxTypes)'
        BY <4>1 DEF TypesInv, T!RefusedOnlyWhenFull
      <4>5. T!RefusedOnlyWhenFull'
        BY <4>2, <4>3, <4>4 DEF T!RefusedOnlyWhenFull
      <4> QED
        BY <4>1, <4>5 DEF TypesInv
    <3>2. CASE Head(walk[d]) \in metas
      <4>1. metas' = metas
        BY <2>3, <3>2 DEF T!Insert
      <4> QED
        BY <2>0, <2>3, <3>2, <4>1 DEF T!Insert, TypesInv, T!RefusedOnlyWhenFull, T!Full
    <3>3. CASE ~T!Full /\ Head(walk[d]) \notin metas
      <4>1. metas' = metas \cup {Head(walk[d])}
        BY <2>3, <3>3 DEF T!Insert
      <4>2. IsFiniteSet(metas') /\ Cardinality(metas') = Cardinality(metas) + 1
        BY <3>3, <4>1, FS_AddElement DEF TypesInv
      <4>3. MaxTypes > 0 => Cardinality(metas') <= MaxTypes
        BY <2>0, <3>3, <4>2 DEF T!Full
      <4>4. \A e \in Differs : step[e] # "refused"
        BY <3>3 DEF TypesInv, T!RefusedOnlyWhenFull
      <4>5. \A e \in Differs : step'[e] # "refused"
        BY <2>3, <3>3, <4>4 DEF T!Insert, TypesInv
      <4> QED
        BY <2>0, <2>3, <3>3, <4>2, <4>3, <4>5 DEF T!Insert, TypesInv, T!RefusedOnlyWhenFull
    <3> QED
      BY <3>1, <3>2, <3>3
  <2>4. CASE UNCHANGED T!vars
    BY <2>0, <2>4 DEF T!vars, TypesInv, T!RefusedOnlyWhenFull, T!Full
  <2> QED
    BY <2>1, <2>2, <2>3, <2>4 DEF T!Next
<1>3. TypesInv => RefusedOnlyWhenFull
  BY DEF TypesInv, RefusedOnlyWhenFull
<1> QED
  BY <1>1, <1>2, <1>3, PTL DEF T!Spec

-----------------------------------------------------------------------------
(* The entity registry *)

StructNames == {Structs[s].name : s \in DOMAIN Structs}

\* A call that is about to store, or has stored, passed every check.
EntitiesInv ==
    /\ entities = [n \in StructNames |-> entities[n]]
    /\ arg = [c \in Callers |-> arg[c]]
    /\ at \in [Callers -> {"new", "store", "nil", "error"}]
    /\ \A c \in Callers : at[c] \in {"store", "nil"} =>
           arg[c] \in DOMAIN Structs /\ E!Builds(arg[c]) /\ E!PassesGuardrails(arg[c])
    /\ E!NilHoldsTheName

\* As long as no call returns nil, the names stay with those that hold them.
LEMMA HoldersKept ==
    ASSUME E!NilHoldsTheName, entities' = entities,
           \A d \in Callers : /\ at'[d] = "nil" <=> at[d] = "nil"
                              /\ at[d] = "nil" => arg'[d] = arg[d]
    PROVE  E!NilHoldsTheName'
<1>1. \A d \in Callers : at'[d] = "nil" =>
         entities'[Structs[arg'[d]].name] = E!BuildEntityConfig(arg'[d])
  BY DEF E!NilHoldsTheName
<1>2. ASSUME NEW n \in DOMAIN entities', entities'[n] # Nil
      PROVE  \E d \in Callers :
               /\ {e \in Callers : at'[e] = "nil" /\ Structs[arg'[e]].name = n} = {d}
               /\ E!Builds(arg'[d]) /\ E!PassesGuardrails(arg'[d])
  <2>1. PICK d \in Callers :
           /\ {e \in Callers : at[e] = "nil" /\ Structs[arg[e]].name = n} = {d}
           /\ E!Builds(arg[d]) /\ E!PassesGuardrails(arg[d])
    BY <1>2, Zenon DEF E!NilHoldsTheName
  <2>2. {e \in Callers : at'[e] = "nil" /\ Structs[arg'[e]].name = n}
          = {e \in Callers : at[e] = "nil" /\ Structs[arg[e]].name = n}
    OBVIOUS
  <2>3. arg'[d] = arg[d]
    BY <2>1
  <2> QED
    BY <2>1, <2>2, <2>3
<1> QED
  BY <1>1, <1>2 DEF E!NilHoldsTheName

\* Registry.Register: a call that returned nil holds its name for good, and
\* a registered name is held by exactly one such call, whatever calls race for
\* it.  The hypothesis says that a configuration can be told from none.
THEOREM RegisterHoldsTheName ==
    ASSUME \A s \in DOMAIN Structs : E!BuildEntityConfig(s) # Nil
    PROVE  E!Spec => []NilHoldsTheName
<1>1. E!Init => EntitiesInv
  BY DEF E!Init, EntitiesInv, E!NilHoldsTheName, StructNames
<1>2. EntitiesInv /\ [E!Next]_E!vars => EntitiesInv'
  <2> SUFFICES ASSUME EntitiesInv, [E!Next]_E!vars PROVE EntitiesInv'
    OBVIOUS
  <2>1. ASSUME NEW c \in Callers, NEW s \in DOMAIN Structs, E!Check(c, s) PROVE EntitiesInv'
    <3>1. /\ UNCHANGED entities
          /\ arg' = [arg EXCEPT ![c] = s]
          /\ at[c] = "new" /\ at' = [at EXCEPT ![c] = at'[c]]
          /\ at'[c] \in {"store", "error"}
          /\ at'[c] = "store" => E!Builds(s) /\ E!PassesGuardrails(s)
      BY <2>1 DEF E!Check, EntitiesInv
    <3>2. \A d \in Callers : /\ at'[d] = "nil" <=> at[d] = "nil"
                             /\ at[d] = "nil" => arg'[d] = arg[d]
      BY <3>1 DEF EntitiesInv
    <3>3. E!NilHoldsTheName'
      BY <3>1, <3>2, HoldersKept DEF EntitiesInv
    <3>4. \A d \in Callers : at'[d] \in {"store", "nil"} =>
             arg'[d] \in DOMAIN Structs /\ E!Builds(arg'[d]) /\ E!PassesGuardrails(arg'[d])
      BY <3>1 DEF EntitiesInv
    <3>5. at' \in [Callers -> {"new", "store", "nil", "error"}]
      BY <3>1 DEF EntitiesInv
    <3>6. arg' = [d \in Callers |-> arg'[d]]
      BY <3>1 DEF EntitiesInv
    <3> QED
      BY <3>1, <3>3, <3>4, <3>5, <3>6 DEF EntitiesInv
  <2>2. ASSUME NEW c \in Callers, E!Store(c) PROVE EntitiesInv'
    <3>1. CASE E!Registered(arg[c])
      <4>1. UNCHANGED <<entities, arg>> /\ at[c] = "store" /\ at' = [at EXCEPT ![c] = "error"]
        BY <2>2, <3>1 DEF E!Store
      <4>2. \A d \in Callers : at'[d] = "nil" <=> at[d] = "nil"
        BY <4>1 DEF EntitiesInv
      <4>3. E!NilHoldsTheName'
        BY <4>1, <4>2, HoldersKept DEF EntitiesInv
      <4> QED
        BY <4>1, <4>3 DEF EntitiesInv
    <3>2. CASE ~E!Registered(arg[c])
      <4> DEFINE name == Structs[arg[c]].name
      <4>1. /\ UNCHANGED arg /\ at[c] = "store" /\ at' = [at EXCEPT ![c] = "nil"]
            /\ entities' = [entities EXCEPT ![name] = E!BuildEntityConfig(arg[c])]
        BY <2>2, <3>2 DEF E!Store
      <4>2. /\ arg[c] \in DOMAIN Structs /\ name \in StructNames
            /\ E!Builds(arg[c]) /\ E!PassesGuardrails(arg[c])
            /\ entities[name] = Nil
            /\ E!BuildEntityConfig(arg[c]) # Nil
        BY <4>1, <3>2 DEF EntitiesInv, StructNames, E!Registered
      <4>3. \A d \in Callers : at[d] = "nil" => Structs[arg[d]].name # name
        <5>1. SUFFICES ASSUME NEW d \in Callers, at[d] = "nil", Structs[arg[d]].name = name
                       PROVE  FALSE
          OBVIOUS
        <5>2. entities[name] = E!BuildEntityConfig(arg[d])
          BY <5>1 DEF EntitiesInv, E!NilHoldsTheName
        <5>3. arg[d] \in DOMAIN Structs
          BY <5>1 DEF EntitiesInv
        <5> QED
          BY <4>2, <5>2, <5>3
      <4>4. \A d \in Callers : at'[d] = "nil" <=> at[d] = "nil" \/ d = c
        BY <4>1 DEF EntitiesInv
      <4>5. \A n \in StructNames : entities'[n] = IF n = name THEN E!BuildEntityConfig(arg[c]) ELSE entities[n]
        BY <4>1, <4>2 DEF EntitiesInv
      <4>6. DOMAIN entities' = StructNames /\ DOMAIN entities = StructNames
        BY <4>1 DEF EntitiesInv
      <4>7. ASSUME NEW d \in Callers, at'[d] = "nil"
            PROVE  entities'[Structs[arg'[d]].name] = E!BuildEntityConfig(arg'[d])
        <5>1. CASE d = c
          BY <4>1, <4>2, <4>5, <5>1
        <5>2. CASE d # c
          <6>1. arg[d] \in DOMAIN Structs /\ Structs[arg[d]].name \in StructNames
            BY <4>4, <4>7, <5>2 DEF EntitiesInv, StructNames
          <6>2. entities[Structs[arg[d]].name] = E!BuildEntityConfig(arg[d])
            BY <4>4, <4>7, <5>2 DEF EntitiesInv, E!NilHoldsTheName
          <6> QED
            BY <4>1, <4>3, <4>4, <4>5, <4>7, <5>2, <6>1, <6>2
        <5> QED
          BY <5>1, <5>2
      <4>8. ASSUME NEW n \in DOMAIN entities', entities'[n] # Nil
            PROVE  \E d \in Callers :
                     /\ {e \in Callers : at'[e] = "nil" /\ Structs[arg'[e]].name = n} = {d}
                     /\ E!Builds(arg'[d]) /\ E!PassesGuardrails(arg'[d])
        <5>1. CASE n = name
          <6>1. {e \in Callers : at'[e] = "nil" /\ Structs[arg'[e]].name = n} = {c}
            BY <4>1, <4>3, <4>4, <5>1
          <6> QED
            BY <4>1, <4>2, <6>1
        <5>2. CASE n # name
          <6>1. PICK d \in Callers :
                   /\ {e \in Callers : at[e] = "nil" /\ Structs[arg[e]].name = n} = {d}
                   /\ E!Builds(arg[d]) /\ E!PassesGuardrails(arg[d])
            <7>1. n \in DOMAIN entities /\ entities[n] # Nil
              BY <4>5, <4>6, <4>8, <5>2
            <7> QED
              BY <7>1, Zenon DEF EntitiesInv, E!NilHoldsTheName
          <6>2. {e \in Callers : at'[e] = "nil" /\ Structs[arg'[e]].name = n}
                  = {e \in Callers : at[e] = "nil" /\ Structs[arg[e]].name = n}
            BY <4>1, <4>4, <5>2
          <6> QED
            BY <4>1, <6>1, <6>2
        <5> QED
          BY <5>1, <5>2
      <4>9. E!NilHoldsTheName'
        BY <4>7, <4>8 DEF E!NilHoldsTheName
      <4> QED
        BY <4>1, <4>2, <4>9 DEF EntitiesInv
    <3> QED
      BY <3>1, <3>2
  <2>3. CASE UNCHANGED E!vars
    <3>1. E!NilHoldsTheName'
      BY <2>3, HoldersKept DEF E!vars, EntitiesInv
    <3> QED
      BY <2>3, <3>1 DEF E!vars, EntitiesInv
  <2> QED
    BY <2>1, <2>2, <2>3 DEF E!Next
<1>3. EntitiesInv => NilHoldsTheName
  BY DEF EntitiesInv, NilHoldsTheName
<1> QED
  BY <1>1, <1>2, <1>3, PTL DEF E!Spec

-----------------------------------------------------------------------------
(* The migration registry *)

\* The cardinality that Migrations counts with is the one of the theorems.
LEMMA VersionsCardinality ==
    ASSUME NEW S
    PROVE  M!Cardinality(S) = Cardinality(S)
BY DEF M!Cardinality, Cardinality, M!IsFiniteSet, IsFiniteSet

\* The least-number principle.
LEMMA LeastNatural ==
    ASSUME NEW S \in SUBSET Nat, S # {}
    PROVE  \E x \in S : \A y \in S : x <= y
<1> DEFINE R == {p \in Nat \X Nat : p[1] < p[2]}
<1>1. IsWellFoundedOn(R, Nat)
  BY NatLessThanWellFounded DEF OpToRel
<1>2. \A x, y \in Nat : x < y => <<x, y>> \in R
  OBVIOUS
<1> HIDE DEF R
<1>3. PICK x \in S : \A y \in S : ~(<<y, x>> \in R)
  BY <1>1, WFMin
<1>4. \A y \in S : ~(y < x)
  BY <1>2, <1>3
<1> QED
  BY <1>4

\* Induction upwards from 0 to n ...
LEMMA Upward ==
    ASSUME NEW n \in Nat, NEW P, 0 \in P, \A m \in 0..(n - 1) : m \in P => m + 1 \in P
    PROVE  \A m \in 0..n : m \in P
<1> DEFINE S == {m \in 0..n : m \notin P}
<1>1. SUFFICES ASSUME S # {} PROVE FALSE
  OBVIOUS
<1>2. S \in SUBSET Nat
  OBVIOUS
<1>3. PICK x \in S : \A y \in S : x <= y
  BY <1>1, <1>2, LeastNatural
<1>4. x # 0 /\ x - 1 \in 0..(n - 1)
  BY <1>3
<1>5. x - 1 \notin P
  <2>1. (x - 1) + 1 = x /\ x \notin P
    BY <1>3, <1>4
  <2> QED
    BY <1>4, <2>1
<1>6. x - 1 \in S
  BY <1>4, <1>5
<1> QED
  BY <1>3, <1>4, <1>6

\* LatestSchemaVersion is above every version that has a migration.
LEMMA LatestAboveAll ==
    ASSUME NEW n \in Nat, SchemaVersions = 1..n,
           NEW v \in SchemaVersions, migrations[v] # Nil
    PROVE  M!LatestSchemaVersion \in Nat /\ v + 1 <= M!LatestSchemaVersion
<1> DEFINE to == {w + 1 : w \in {u \in SchemaVersions : migrations[u] # Nil}}
           below == {n + 1 - t : t \in to}
<1>1. to \subseteq 2..(n + 1) /\ v + 1 \in to
  OBVIOUS
<1> HIDE DEF to
<1>2. below \in SUBSET Nat /\ below # {}
  BY <1>1
<1>3. /\ \A t \in to : n + 1 - t \in below
      /\ \A b \in below : \E t \in to : b = n + 1 - t
  OBVIOUS
<1> HIDE DEF below
<1>4. PICK b \in below : \A c \in below : b <= c
  BY <1>2, LeastNatural
<1>5. PICK t \in to : b = n + 1 - t
  BY <1>4, <1>3
<1>6. \A w \in to : w <= t
  <2>1. SUFFICES ASSUME NEW w \in to PROVE w <= t
    OBVIOUS
  <2>2. b <= n + 1 - w
    BY <1>3, <1>4
  <2> QED
    BY <1>1, <1>5, <2>2
<1> DEFINE max == CHOOSE u \in to : \A w \in to : w <= u
<1>7. M!LatestSchemaVersion = IF to = {} THEN 1 ELSE max
  BY DEF M!LatestSchemaVersion, to
<1>8. max \in to /\ \A w \in to : w <= max
  BY <1>6
<1> HIDE DEF max
<1> QED
  BY <1>1, <1>7, <1>8

\* The function of version v that a Migrate has called: it is registered, or
\* is just being written where nothing was.
Called(ms, rs, r, v) ==
    /\ r \in Registrars /\ v \in SchemaVersions
    /\ rs[r].from = v
    /\ ms[v] = r \/ (rs[r].at = "writing" /\ ms[v] = Nil)

RegistryInv ==
    /\ migrations \in [SchemaVersions -> Registrars \cup {Nil}]
    /\ reg \in [Registrars -> [from : Nat, at : {"new", "writing", "nil", "error"}]]
    /\ \A r \in Registrars : reg[r].at = "writing" =>
           /\ reg[r].from \in SchemaVersions /\ migrations[reg[r].from] = Nil
           /\ \A q \in Registrars : reg[q].at = "writing" => q = r
    /\ \A v \in SchemaVersions : migrations[v] # Nil =>
           reg[migrations[v]].from = v /\ reg[migrations[v]].at = "nil"

MigrationRecord ==
    [from : Nat, to : Nat, current : Nat, data : Seq(Registrars),
     at : {"new", "loop", "ok", "error"}]

\* The steps that a Migrate has made: one function for each version.
Walked(ms, rs, g, n) ==
    /\ g.at = "loop" => g.from < g.to
    /\ g.at \in {"loop", "ok"} /\ g.from < g.to =>
           /\ g.from \in 1..n /\ g.to <= n + 1
           /\ g.current = g.from + Len(g.data)
           /\ g.at = "ok" => g.current = g.to
           /\ g.at = "loop" => g.current < g.to
           /\ \A i \in 1..Len(g.data) : Called(ms, rs, g.data[i], g.from + i - 1)

WalkInv(n) ==
    /\ mig \in [Migrators -> MigrationRecord]
    /\ \A m \in Migrators : Walked(migrations, reg, mig[m], n)

\* What a Migrate has called stays what is registered: an entry is written
\* once, where there was none.
LEMMA CalledKept ==
    ASSUME RegistryInv, Nil \notin Registrars, SchemaVersions \subseteq Nat,
           \/ \E q \in Registrars, w \in SchemaVersions : M!Register(q, w)
           \/ \E q \in Registrars : M!Written(q)
           \/ UNCHANGED <<migrations, reg>>
    PROVE  /\ RegistryInv'
           /\ \A r, v : Called(migrations, reg, r, v) => Called(migrations', reg', r, v)
<1>1. ASSUME NEW q \in Registrars, NEW w \in SchemaVersions, M!Register(q, w)
      PROVE  RegistryInv' /\ \A r, v : Called(migrations, reg, r, v) => Called(migrations', reg', r, v)
  <2>1. RegistryInv'
    <3>1. /\ UNCHANGED migrations /\ reg[q].at = "new"
          /\ reg' = [reg EXCEPT ![q] = reg'[q]]
          /\ reg'[q] \in [from : Nat, at : {"error", "writing"}]
          /\ reg'[q].from = w
          /\ reg'[q].at = "writing" => migrations[w] = Nil
          /\ \A r \in Registrars : reg[r].at # "writing"
      BY <1>1 DEF M!Register, RegistryInv
    <3>2. \A r \in Registrars : r # q => reg'[r] = reg[r]
      BY <3>1 DEF RegistryInv
    <3>3. \A v \in SchemaVersions : migrations[v] # Nil => migrations[v] # q
      BY <3>1 DEF RegistryInv
    <3>4. reg' \in [Registrars -> [from : Nat, at : {"new", "writing", "nil", "error"}]]
      BY <3>1 DEF RegistryInv
    <3> QED
      BY <3>1, <3>2, <3>3, <3>4 DEF RegistryInv
  <2>2. \A r, v : Called(migrations, reg, r, v) => q # r
    BY <1>1 DEF M!Register, Called, RegistryInv
  <2> QED
    BY <1>1, <2>1, <2>2 DEF M!Register, Called, RegistryInv
<1>2. ASSUME NEW q \in Registrars, M!Written(q)
      PROVE  RegistryInv' /\ \A r, v : Called(migrations, reg, r, v) => Called(migrations', reg', r, v)
  <2>1. RegistryInv'
    BY <1>2 DEF M!Written, RegistryInv
  <2>2. ASSUME NEW r, NEW v, Called(migrations, reg, r, v) PROVE Called(migrations', reg', r, v)
    <3>1. CASE q = r
      BY <1>2, <2>2, <3>1 DEF M!Written, Called, RegistryInv
    <3>2. CASE q # r
      <4>1. migrations[v] = r /\ r # Nil /\ reg[q].from # v
        BY <1>2, <2>2, <3>2 DEF M!Written, Called, RegistryInv
      <4> QED
        BY <1>2, <2>2, <3>2, <4>1 DEF M!Written, Called, RegistryInv
    <3> QED
      BY <3>1, <3>2
  <2> QED
    BY <2>1, <2>2
<1>3. CASE UNCHANGED <<migrations, reg>>
  BY <1>3 DEF Called, RegistryInv
<1> QED
  BY <1>1, <1>2, <1>3

\* A read of the inner map without the lock finds nothing, or a function that
\* is registered for the version or is just being written.
LEMMA FoundIsCalled ==
    ASSUME RegistryInv, NEW v \in SchemaVersions, NEW f \in M!Found(v), f # Nil
    PROVE  Called(migrations, reg, f, v)
BY DEF M!Found, RegistryInv, Called

\* MigrationRegistry: a Migrate that succeeded went through every version by
\* the function registered for it, although it reads the inner map without a
\* lock while others register; for every number of goroutines and versions.
THEOREM MigrateEveryStep ==
    ASSUME NEW n \in Nat, SchemaVersions = 1..n, Nil \notin Registrars
    PROVE  M!Spec => []MigratesEveryStep
<1> DEFINE Inv == RegistryInv /\ WalkInv(n)
<1>0. M!Targets = 1..(n + 1)
  <2>1. Cardinality(SchemaVersions) = n
    BY FS_Interval
  <2> QED
    BY <2>1, VersionsCardinality DEF M!Targets
<1>1. M!Init => Inv
  BY DEF M!Init, RegistryInv, WalkInv, Walked, MigrationRecord
<1>2. Inv /\ [M!Next]_M!vars => Inv'
  <2> SUFFICES ASSUME Inv, [M!Next]_M!vars PROVE Inv'
    OBVIOUS
  <2>1. ASSUME \A r, v : Called(migrations, reg, r, v) => Called(migrations', reg', r, v),
               NEW g, Walked(migrations, reg, g, n)
        PROVE  Walked(migrations', reg', g, n)
    BY <2>1 DEF Walked
  <2>2. ASSUME NEW m \in Migrators, NEW g \in MigrationRecord, Walked(migrations, reg, g, n),
               mig' = [mig EXCEPT ![m] = g], UNCHANGED <<migrations, reg>>
        PROVE  Inv'
    <3>1. RegistryInv' /\ \A r, v : Called(migrations, reg, r, v) => Called(migrations', reg', r, v)
      BY <2>2, CalledKept
    <3>2. \A k \in Migrators : mig'[k] = g \/ mig'[k] = mig[k]
      BY <2>2 DEF WalkInv
    <3>3. \A k \in Migrators : Walked(migrations', reg', mig'[k], n)
      BY <2>1, <2>2, <3>1, <3>2 DEF WalkInv
    <3> QED
      BY <2>2, <3>1, <3>3 DEF WalkInv
  <2>3. ASSUME UNCHANGED mig,
               \/ \E q \in Registrars, w \in SchemaVersions : M!Register(q, w)
               \/ \E q \in Registrars : M!Written(q)
               \/ UNCHANGED <<migrations, reg>>
        PROVE  Inv'
    <3>1. RegistryInv' /\ \A r, v : Called(migrations, reg, r, v) => Called(migrations', reg', r, v)
      BY <2>3, CalledKept
    <3>2. \A k \in Migrators : Walked(migrations', reg', mig'[k], n)
      BY <2>1, <2>3, <3>1 DEF WalkInv
    <3> QED
      BY <2>3, <3>1, <3>2 DEF WalkInv
  <2>4. ASSUME NEW r \in Registrars, NEW v \in SchemaVersions, M!Register(r, v) PROVE Inv'
    BY <2>3, <2>4 DEF M!Register
  <2>5. ASSUME NEW r \in Registrars, M!Written(r) PROVE Inv'
    BY <2>3, <2>5 DEF M!Written
  <2>6. ASSUME NEW m \in Migrators, NEW a \in SchemaVersions, NEW b \in M!Targets, M!Begin(m, a, b)
        PROVE  Inv'
    <3> DEFINE g == [from |-> a, to |-> b, current |-> a, data |-> <<>>,
                     at |-> IF a >= b THEN "ok" ELSE IF outer THEN "loop" ELSE "error"]
    <3>1. g \in MigrationRecord /\ Walked(migrations, reg, g, n)
      BY <1>0 DEF MigrationRecord, Walked
    <3>2. mig' = [mig EXCEPT ![m] = g] /\ UNCHANGED <<migrations, reg>>
      BY <2>6 DEF M!Begin
    <3> HIDE DEF g
    <3> QED
      BY <2>2, <3>1, <3>2
  <2>7. ASSUME NEW m \in Migrators, M!Apply(m) PROVE Inv'
    <3> DEFINE s == mig[m]
    <3>1. /\ s \in MigrationRecord /\ s.at = "loop" /\ Walked(migrations, reg, s, n)
          /\ UNCHANGED <<migrations, reg>>
      BY <2>7 DEF M!Apply, WalkInv
    <3>2. PICK f \in M!Found(s.current) :
             mig' = [mig EXCEPT ![m] =
                 IF f = Nil THEN [s EXCEPT !.at = "error"]
                 ELSE [from |-> s.from, to |-> s.to, current |-> s.current + 1,
                       data |-> Append(s.data, f),
                       at |-> IF s.current + 1 = s.to THEN "ok" ELSE "loop"]]
      BY <2>7 DEF M!Apply
    <3> HIDE DEF s
    <3>3. CASE f = Nil
      <4>1. [s EXCEPT !.at = "error"] \in MigrationRecord /\ Walked(migrations, reg, [s EXCEPT !.at = "error"], n)
        BY <3>1 DEF MigrationRecord, Walked
      <4> QED
        BY <2>2, <3>1, <3>2, <3>3, <4>1
    <3>4. CASE f # Nil
      <4> DEFINE g == [from |-> s.from, to |-> s.to, current |-> s.current + 1,
                       data |-> Append(s.data, f),
                       at |-> IF s.current + 1 = s.to THEN "ok" ELSE "loop"]
      <4>1. g \in MigrationRecord /\ Walked(migrations, reg, g, n)
        <5>1. /\ s.current \in SchemaVersions /\ s.data \in Seq(Registrars)
              /\ s.current = s.from + Len(s.data) /\ s.from \in 1..n
              /\ s.to \in Nat /\ s.to <= n + 1 /\ s.current < s.to
              /\ \A i \in 1..Len(s.data) : Called(migrations, reg, s.data[i], s.from + i - 1)
          BY <3>1 DEF Walked, MigrationRecord
        <5>2. Called(migrations, reg, f, s.current) /\ f \in Registrars
          BY <3>2, <3>4, <5>1, FoundIsCalled DEF Called
        <5>3. g \in MigrationRecord
          BY <3>1, <5>1, <5>2 DEF MigrationRecord
        <5>4. /\ g.data = Append(s.data, f) /\ g.from = s.from /\ g.to = s.to
              /\ g.current = s.current + 1
              /\ g.at = IF s.current + 1 = s.to THEN "ok" ELSE "loop"
          BY <3>1 DEF MigrationRecord
        <5> HIDE DEF g
        <5>5. /\ Len(g.data) = Len(s.data) + 1
              /\ \A i \in 1..Len(g.data) : Called(migrations, reg, g.data[i], g.from + i - 1)
          BY <5>1, <5>2, <5>4
        <5>6. /\ g.from \in 1..n /\ g.to <= n + 1 /\ g.from < g.to
              /\ g.current = g.from + Len(g.data)
              /\ g.at = "ok" => g.current = g.to
              /\ g.at = "loop" => g.current < g.to
          <6>1. s.current \in Nat /\ Len(s.data) \in Nat /\ s.from \in Nat
            BY <5>1
          <6>2. s.current + 1 <= s.to /\ s.from < s.to
            BY <5>1, <6>1
          <6>3. s.current + 1 = s.from + (Len(s.data) + 1)
            BY <5>1, <6>1
          <6> QED
            BY <5>1, <5>4, <5>5, <6>1, <6>2, <6>3
        <5> QED
          BY <5>3, <5>5, <5>6 DEF Walked
      <4>2. mig' = [mig EXCEPT ![m] = g]
        BY <3>2, <3>4
      <4> HIDE DEF g
      <4> QED
        BY <2>2, <3>1, <4>1, <4>2
    <3> QED
      BY <3>3, <3>4
  <2>8. ASSUME NEW m \in Migrators, M!FnFails(m) PROVE Inv'
    <3> DEFINE g == [mig[m] EXCEPT !.at = "error"]
    <3>1. g \in MigrationRecord /\ Walked(migrations, reg, g, n)
      BY DEF MigrationRecord, Walked, WalkInv
    <3>2. mig' = [mig EXCEPT ![m] = g] /\ UNCHANGED <<migrations, reg>>
      BY <2>8 DEF M!FnFails
    <3> HIDE DEF g
    <3> QED
      BY <2>2, <3>1, <3>2
  <2>9. ASSUME NEW m \in Migrators, M!Halt(m) PROVE Inv'
    BY <2>3, <2>9 DEF M!Halt
  <2>10. CASE UNCHANGED M!vars
    BY <2>3, <2>10 DEF M!vars
  <2> QED
    BY <2>4, <2>5, <2>6, <2>7, <2>8, <2>9, <2>10 DEF M!Next
<1>3. Inv => M!MigratesEveryStep
  <2> SUFFICES ASSUME Inv, NEW m \in Migrators, mig[m].at = "ok", mig[m].from < mig[m].to
               PROVE  /\ Len(mig[m].data) = mig[m].to - mig[m].from
                      /\ \A i \in 1..Len(mig[m].data) :
                           LET v == mig[m].from + i - 1
                               r == mig[m].data[i]
                           IN /\ reg[r].from = v
                              /\ migrations[v] = r \/ (reg[r].at = "writing" /\ migrations[v] = Nil)
                      /\ \/ mig[m].to <= M!LatestSchemaVersion
                         \/ \E r \in Registrars : reg[r].at = "writing" /\ reg[r].from < mig[m].to
    BY DEF M!MigratesEveryStep
  <2> DEFINE k == Len(mig[m].data)
             last == mig[m].data[k]
             from == mig[m].from
             to == mig[m].to
  <2>1. /\ mig[m].from \in Nat /\ mig[m].to \in Nat /\ k \in Nat
        /\ k = mig[m].to - mig[m].from
        /\ \A i \in 1..k : Called(migrations, reg, mig[m].data[i], mig[m].from + i - 1)
    BY DEF WalkInv, Walked, MigrationRecord
  <2>2. Called(migrations, reg, last, mig[m].to - 1)
    <3>1. k \in 1..k /\ mig[m].from + k - 1 = mig[m].to - 1
      <4>1. from \in Nat /\ to \in Nat /\ from < to /\ k \in Nat /\ k = to - from
        BY <2>1
      <4> HIDE DEF from, to, k
      <4>2. k \in 1..k /\ from + k - 1 = to - 1
        BY <4>1
      <4> QED
        BY <4>2 DEF from, to
    <3>2. Called(migrations, reg, mig[m].data[k], mig[m].from + k - 1)
      BY <2>1, <3>1, Zenon
    <3> QED
      BY <3>1, <3>2
  <2>3. \/ mig[m].to <= M!LatestSchemaVersion
        \/ \E r \in Registrars : reg[r].at = "writing" /\ reg[r].from < mig[m].to
    <3>1. CASE migrations[mig[m].to - 1] = last
      <4>1. /\ to - 1 \in SchemaVersions /\ migrations[to - 1] # Nil
            /\ to \in Nat
        BY <2>1, <2>2, <3>1 DEF Called
      <4>2. M!LatestSchemaVersion \in Nat /\ to - 1 + 1 <= M!LatestSchemaVersion
        BY <4>1, LatestAboveAll
      <4> HIDE DEF to
      <4>3. to <= M!LatestSchemaVersion
        BY <4>1, <4>2
      <4> QED
        BY <4>3 DEF to
    <3>2. CASE reg[last].at = "writing"
      BY <2>1, <2>2, <3>2 DEF Called
    <3> QED
      BY <2>2, <3>1, <3>2 DEF Called
  <2> QED
    BY <2>1, <2>3 DEF Called
<1> QED
  BY <1>1, <1>2, <1>3, PTL DEF M!Spec, MigratesEveryStep

-----------------------------------------------------------------------------
(* The cache *)

\* What prev, next, head and tail may hold, and the entries.
Links == L!Keys \cup {Nil}

Entry == [val : Vals, prev : Links, next : Links]

\* A value of the variable cache: a map of entries and two pointers.
Shape(c) ==
    /\ c = [node |-> c.node, head |-> c.head, tail |-> c.tail]
    /\ c.node \in [DOMAIN c.node -> Entry]
    /\ DOMAIN c.node \subseteq L!Keys
    /\ c.head \in Links /\ c.tail \in Links

\* d has the entries of c with the values they had there.
SameValues(c, d) ==
    /\ DOMAIN d.node = DOMAIN c.node
    /\ \A x \in DOMAIN c.node : d.node[x].val = c.node[x].val

\* d is c with p assigned to prev, or to next, of the entry k.
PrevSet(c, k, p, d) ==
    /\ Shape(d) /\ SameValues(c, d) /\ d.head = c.head /\ d.tail = c.tail
    /\ \A x \in DOMAIN c.node :
           /\ d.node[x].next = c.node[x].next
           /\ d.node[x].prev = IF x = k THEN p ELSE c.node[x].prev

NextSet(c, k, p, d) ==
    /\ Shape(d) /\ SameValues(c, d) /\ d.head = c.head /\ d.tail = c.tail
    /\ \A x \in DOMAIN c.node :
           /\ d.node[x].prev = c.node[x].prev
           /\ d.node[x].next = IF x = k THEN p ELSE c.node[x].next

\* An assignment to prev changes nothing else.
LEMMA SetPrevFacts ==
    ASSUME Nil \notin L!Keys, NEW c, Shape(c),
           NEW k \in DOMAIN c.node \cup {Nil}, NEW p \in Links
    PROVE  PrevSet(c, k, p, L!SetPrev(c, k, p))
<1> DEFINE d == L!SetPrev(c, k, p)
<1> SUFFICES PrevSet(c, k, p, d)
  OBVIOUS
<1>1. CASE k = Nil
  BY <1>1 DEF PrevSet, Shape, SameValues, L!SetPrev
<1>2. CASE k # Nil
  <2>1. d = [c EXCEPT !.node[k].prev = p]
    BY <1>2 DEF L!SetPrev
  <2> HIDE DEF d
  <2>2. /\ d.head = c.head /\ d.tail = c.tail
        /\ d.node = [c.node EXCEPT ![k].prev = p]
        /\ d = [node |-> d.node, head |-> d.head, tail |-> d.tail]
    BY <2>1 DEF Shape
  <2>3. /\ DOMAIN d.node = DOMAIN c.node
        /\ d.node[k] = [c.node[k] EXCEPT !.prev = p]
        /\ \A x \in DOMAIN c.node \ {k} : d.node[x] = c.node[x]
    BY <2>2, <1>2 DEF Shape
  <2>4. \A x \in DOMAIN c.node : c.node[x] \in Entry
    BY DEF Shape
  <2>5. /\ d.node[k] \in Entry /\ d.node[k].prev = p
        /\ d.node[k].next = c.node[k].next /\ d.node[k].val = c.node[k].val
    BY <2>3, <2>4, <1>2 DEF Entry
  <2>6. d.node \in [DOMAIN d.node -> Entry]
    BY <2>2, <2>3, <2>4, <2>5 DEF Shape
  <2> QED
    BY <2>2, <2>3, <2>5, <2>6 DEF Shape, SameValues, PrevSet
<1> QED
  BY <1>1, <1>2

\* An assignment to next changes nothing else.
LEMMA SetNextFacts ==
    ASSUME Nil \notin L!Keys, NEW c, Shape(c),
           NEW k \in DOMAIN c.node \cup {Nil}, NEW p \in Links
    PROVE  NextSet(c, k, p, L!SetNext(c, k, p))
<1> DEFINE d == L!SetNext(c, k, p)
<1> SUFFICES NextSet(c, k, p, d)
  OBVIOUS
<1>1. CASE k = Nil
  BY <1>1 DEF NextSet, Shape, SameValues, L!SetNext
<1>2. CASE k # Nil
  <2>1. d = [c EXCEPT !.node[k].next = p]
    BY <1>2 DEF L!SetNext
  <2> HIDE DEF d
  <2>2. /\ d.head = c.head /\ d.tail = c.tail
        /\ d.node = [c.node EXCEPT ![k].next = p]
        /\ d = [node |-> d.node, head |-> d.head, tail |-> d.tail]
    BY <2>1 DEF Shape
  <2>3. /\ DOMAIN d.node = DOMAIN c.node
        /\ d.node[k] = [c.node[k] EXCEPT !.next = p]
        /\ \A x \in DOMAIN c.node \ {k} : d.node[x] = c.node[x]
    BY <2>2, <1>2 DEF Shape
  <2>4. \A x \in DOMAIN c.node : c.node[x] \in Entry
    BY DEF Shape
  <2>5. /\ d.node[k] \in Entry /\ d.node[k].next = p
        /\ d.node[k].prev = c.node[k].prev /\ d.node[k].val = c.node[k].val
    BY <2>3, <2>4, <1>2 DEF Entry
  <2>6. d.node \in [DOMAIN d.node -> Entry]
    BY <2>2, <2>3, <2>4, <2>5 DEF Shape
  <2> QED
    BY <2>2, <2>3, <2>5, <2>6 DEF Shape, SameValues, NextSet
<1> QED
  BY <1>1, <1>2

\* d is c with other ends.
EndsSet(c, h, t, d) ==
    /\ Shape(d) /\ SameValues(c, d) /\ d.node = c.node /\ d.head = h /\ d.tail = t

\* Assignments to head and tail change nothing else.
LEMMA EndsFacts ==
    ASSUME NEW c, Shape(c), NEW h \in Links, NEW t \in Links
    PROVE  EndsSet(c, h, t, [c EXCEPT !.head = h, !.tail = t])
<1> SUFFICES ASSUME NEW d, d = [c EXCEPT !.head = h, !.tail = t]
             PROVE  EndsSet(c, h, t, d)
  OBVIOUS
<1>1. d = [node |-> c.node, head |-> h, tail |-> t]
  BY DEF Shape
<1> QED
  BY <1>1 DEF Shape, SameValues, EndsSet

\* removeEntry: what it leaves of the list around the entry.
LEMMA RemoveEntryFacts ==
    ASSUME Nil \notin L!Keys, NEW c, Shape(c), NEW k \in DOMAIN c.node,
           c.node[k].prev \in DOMAIN c.node \cup {Nil}, c.node[k].next \in DOMAIN c.node \cup {Nil},
           c.node[k].prev # k, c.node[k].next # k,
           NEW d, d = L!RemoveEntry(c, k)
    PROVE  /\ Shape(d) /\ SameValues(c, d)
           /\ d.head = IF c.node[k].prev = Nil THEN c.node[k].next ELSE c.head
           /\ d.tail = IF c.node[k].next = Nil THEN c.node[k].prev ELSE c.tail
           /\ \A x \in DOMAIN c.node :
                  /\ d.node[x].next = IF x = k THEN Nil ELSE IF x = c.node[k].prev THEN c.node[k].next
                                      ELSE c.node[x].next
                  /\ d.node[x].prev = IF x = k THEN Nil ELSE IF x = c.node[k].next THEN c.node[k].prev
                                      ELSE c.node[x].prev
<1> DEFINE e == c.node[k]
           c1 == L!SetNext(c, e.prev, e.next)
           c2 == L!SetPrev(c1, e.next, e.prev)
           c3 == [c2 EXCEPT !.head = IF e.prev = Nil THEN e.next ELSE @,
                            !.tail = IF e.next = Nil THEN e.prev ELSE @]
           c4 == L!SetPrev(c3, k, Nil)
<1>0. e.prev \in Links /\ e.next \in Links /\ Nil \in Links
  BY DEF Shape, Entry, Links
<1>1. /\ Shape(c1) /\ SameValues(c, c1) /\ c1.head = c.head /\ c1.tail = c.tail
      /\ \A x \in DOMAIN c.node :
             /\ c1.node[x].prev = c.node[x].prev
             /\ c1.node[x].next = IF x = e.prev THEN e.next ELSE c.node[x].next
  <2>1. NextSet(c, e.prev, e.next, c1)
    BY <1>0, SetNextFacts, Zenon
  <2> QED BY <2>1 DEF NextSet
<1>2. /\ Shape(c2) /\ SameValues(c1, c2) /\ c2.head = c1.head /\ c2.tail = c1.tail
      /\ \A x \in DOMAIN c1.node :
             /\ c2.node[x].next = c1.node[x].next
             /\ c2.node[x].prev = IF x = e.next THEN e.prev ELSE c1.node[x].prev
  <2>1. e.next \in DOMAIN c1.node \cup {Nil}
    BY <1>1 DEF SameValues
  <2>2. PrevSet(c1, e.next, e.prev, c2)
    <3> HIDE DEF c1
    <3> QED BY <1>0, <1>1, <2>1, SetPrevFacts, Zenon
  <2> QED BY <2>2 DEF PrevSet
<1>3. /\ Shape(c3) /\ SameValues(c2, c3) /\ c3.node = c2.node
      /\ c3.head = IF e.prev = Nil THEN e.next ELSE c2.head
      /\ c3.tail = IF e.next = Nil THEN e.prev ELSE c2.tail
  <2> DEFINE h == IF e.prev = Nil THEN e.next ELSE c2.head
             t == IF e.next = Nil THEN e.prev ELSE c2.tail
  <2>1. h \in Links /\ t \in Links
    BY <1>0, <1>2 DEF Shape
  <2>2. c3 = [c2 EXCEPT !.head = h, !.tail = t]
    OBVIOUS
  <2> HIDE DEF e, c2, c3, h, t
  <2>3. EndsSet(c2, h, t, c3)
    BY <1>2, <2>1, <2>2, EndsFacts
  <2> QED BY <2>3 DEF EndsSet, h, t
<1>4. /\ Shape(c4) /\ SameValues(c3, c4) /\ c4.head = c3.head /\ c4.tail = c3.tail
      /\ \A x \in DOMAIN c3.node :
             /\ c4.node[x].next = c3.node[x].next
             /\ c4.node[x].prev = IF x = k THEN Nil ELSE c3.node[x].prev
  <2>1. k \in DOMAIN c3.node
    BY <1>1, <1>2, <1>3 DEF SameValues
  <2>2. PrevSet(c3, k, Nil, c4)
    <3> HIDE DEF c3
    <3> QED BY <1>0, <1>3, <2>1, SetPrevFacts, Zenon
  <2> HIDE DEF c3, c4
  <2> QED BY <2>2 DEF PrevSet
<1>5. /\ Shape(d) /\ SameValues(c4, d) /\ d.head = c4.head /\ d.tail = c4.tail
      /\ \A x \in DOMAIN c4.node :
             /\ d.node[x].prev = c4.node[x].prev
             /\ d.node[x].next = IF x = k THEN Nil ELSE c4.node[x].next
  <2>1. k \in DOMAIN c4.node
    BY <1>1, <1>2, <1>3, <1>4 DEF SameValues
  <2>2. d = L!SetNext(c4, k, Nil)
    BY Zenon DEF L!RemoveEntry
  <2> HIDE DEF e, c3, c4
  <2>3. NextSet(c4, k, Nil, d)
    <3>1. Shape(c4)
      BY <1>4
    <3> QED BY ONLY Nil \notin L!Keys, <1>0, <2>1, <2>2, <3>1, SetNextFacts, Zenon
  <2> QED BY <2>3 DEF NextSet
<1> HIDE DEF e, c1, c2, c3, c4
<1>6. SameValues(c, d)
  BY <1>1, <1>2, <1>3, <1>4, <1>5 DEF SameValues
<1> QED
  BY <1>1, <1>2, <1>3, <1>4, <1>5, <1>6 DEF SameValues, e

\* pushFront: what it makes of the list behind the entry.
LEMMA PushFrontFacts ==
    ASSUME Nil \notin L!Keys, NEW c, Shape(c), NEW k \in DOMAIN c.node,
           c.head \in DOMAIN c.node \cup {Nil}, c.head # k, NEW d, d = L!PushFront(c, k)
    PROVE  /\ Shape(d) /\ SameValues(c, d)
           /\ d.head = k
           /\ d.tail = IF c.tail = Nil THEN k ELSE c.tail
           /\ \A x \in DOMAIN c.node :
                  /\ d.node[x].next = IF x = k THEN c.head ELSE c.node[x].next
                  /\ d.node[x].prev = IF x = k THEN Nil ELSE IF x = c.head THEN k ELSE c.node[x].prev
<1> DEFINE c1 == L!SetPrev(c, k, Nil)
           c2 == L!SetNext(c1, k, c.head)
           c3 == L!SetPrev(c2, c.head, k)
<1>0. c.head \in Links /\ k \in Links /\ Nil \in Links
  BY DEF Shape, Links
<1>1. /\ Shape(c1) /\ SameValues(c, c1) /\ c1.head = c.head /\ c1.tail = c.tail
      /\ \A x \in DOMAIN c.node :
             /\ c1.node[x].next = c.node[x].next
             /\ c1.node[x].prev = IF x = k THEN Nil ELSE c.node[x].prev
  <2>1. PrevSet(c, k, Nil, c1)
    BY <1>0, SetPrevFacts, Zenon
  <2> QED BY <2>1 DEF PrevSet
<1>2. /\ Shape(c2) /\ SameValues(c1, c2) /\ c2.head = c1.head /\ c2.tail = c1.tail
      /\ \A x \in DOMAIN c1.node :
             /\ c2.node[x].prev = c1.node[x].prev
             /\ c2.node[x].next = IF x = k THEN c.head ELSE c1.node[x].next
  <2>1. k \in DOMAIN c1.node
    BY <1>1 DEF SameValues
  <2>2. NextSet(c1, k, c.head, c2)
    <3> HIDE DEF c1
    <3> QED BY <1>0, <1>1, <2>1, SetNextFacts, Zenon
  <2> QED BY <2>2 DEF NextSet
<1>3. /\ Shape(c3) /\ SameValues(c2, c3) /\ c3.head = c2.head /\ c3.tail = c2.tail
      /\ \A x \in DOMAIN c2.node :
             /\ c3.node[x].next = c2.node[x].next
             /\ c3.node[x].prev = IF x = c.head THEN k ELSE c2.node[x].prev
  <2>1. c.head \in DOMAIN c2.node \cup {Nil}
    BY <1>1, <1>2 DEF SameValues
  <2>2. PrevSet(c2, c.head, k, c3)
    <3> HIDE DEF c2
    <3> QED BY <1>0, <1>2, <2>1, SetPrevFacts, Zenon
  <2> QED BY <2>2 DEF PrevSet
<1>4. d = [c3 EXCEPT !.head = k, !.tail = IF @ = Nil THEN k ELSE @]
  BY Zenon DEF L!PushFront
<1> HIDE DEF c1, c2, c3
<1>5. /\ Shape(d) /\ SameValues(c3, d) /\ d.node = c3.node
      /\ d.head = k /\ d.tail = IF c3.tail = Nil THEN k ELSE c3.tail
  BY <1>0, <1>3, <1>4 DEF Shape, SameValues
<1>6. SameValues(c, d)
  BY <1>1, <1>2, <1>3, <1>5 DEF SameValues
<1> QED
  BY <1>1, <1>2, <1>3, <1>5, <1>6 DEF SameValues

-----------------------------------------------------------------------------
(* The list as a sequence s of n keys *)

\* head, tail, next and prev link the keys of s in their order.
Linked(c, n, s) ==
    /\ n \in Nat /\ s \in [1..n -> DOMAIN c.node]
    /\ \A i, j \in 1..n : s[i] = s[j] => i = j
    /\ c.head = IF n = 0 THEN Nil ELSE s[1]
    /\ c.tail = IF n = 0 THEN Nil ELSE s[n]
    /\ \A i \in 1..n : c.node[s[i]].next = IF i = n THEN Nil ELSE s[i + 1]
    /\ \A i \in 1..n : c.node[s[i]].prev = IF i = 1 THEN Nil ELSE s[i - 1]

\* s without its element at i, and s behind k.
Without(n, s, i) == [j \in 1..(n - 1) |-> IF j < i THEN s[j] ELSE s[j + 1]]
Behind(n, s, k) == [j \in 1..(n + 1) |-> IF j = 1 THEN k ELSE s[j - 1]]

\* d is c without the list element i, or with k before the list.
Removed(c, n, s, i, d) ==
    /\ Shape(d) /\ SameValues(c, d) /\ Linked(d, n - 1, Without(n, s, i))

Pushed(c, n, s, k, d) ==
    /\ Shape(d) /\ SameValues(c, d) /\ Linked(d, n + 1, Behind(n, s, k))

\* removeEntry takes an entry out of the list, wherever it is.
LEMMA RemoveLinked ==
    ASSUME Nil \notin L!Keys, NEW c, Shape(c), NEW n, NEW s, Linked(c, n, s), NEW i \in 1..n
    PROVE  Removed(c, n, s, i, L!RemoveEntry(c, s[i]))
<1> SUFFICES ASSUME NEW d, d = L!RemoveEntry(c, s[i]), NEW t, t = Without(n, s, i)
             PROVE  Shape(d) /\ SameValues(c, d) /\ Linked(d, n - 1, t)
  BY DEF Removed
<1> DEFINE e == c.node[s[i]]
<1>0. /\ n \in Nat /\ i \in Nat /\ 1 <= i /\ i <= n /\ n - 1 \in Nat
      /\ \A j \in 1..n : s[j] \in DOMAIN c.node /\ s[j] # Nil
      /\ \A j, m \in 1..n : s[j] = s[m] => j = m
  BY DEF Linked, Shape
<1>1. /\ e.next = IF i = n THEN Nil ELSE s[i + 1]
      /\ e.prev = IF i = 1 THEN Nil ELSE s[i - 1]
  BY DEF Linked
<1>2. /\ i # n => i + 1 \in 1..n /\ i + 1 # i
      /\ i # 1 => i - 1 \in 1..n /\ i - 1 # i
  BY <1>0
<1>3. /\ e.prev \in DOMAIN c.node \cup {Nil} /\ e.next \in DOMAIN c.node \cup {Nil}
      /\ e.prev # s[i] /\ e.next # s[i] /\ s[i] \in DOMAIN c.node
  BY <1>0, <1>1, <1>2
<1>4. /\ Shape(d) /\ SameValues(c, d)
      /\ d.head = IF e.prev = Nil THEN e.next ELSE c.head
      /\ d.tail = IF e.next = Nil THEN e.prev ELSE c.tail
      /\ \A x \in DOMAIN c.node :
             /\ d.node[x].next = IF x = s[i] THEN Nil ELSE IF x = e.prev THEN e.next ELSE c.node[x].next
             /\ d.node[x].prev = IF x = s[i] THEN Nil ELSE IF x = e.next THEN e.prev ELSE c.node[x].prev
  BY <1>3, RemoveEntryFacts
<1> HIDE DEF e
<1>5. /\ t \in [1..(n - 1) -> DOMAIN c.node]
      /\ \A j \in 1..(n - 1) : t[j] = IF j < i THEN s[j] ELSE s[j + 1]
  BY <1>0 DEF Without
<1>6. \A j \in 1..(n - 1) : \E m \in 1..n : m = (IF j < i THEN j ELSE j + 1) /\ t[j] = s[m] /\ m # i
  BY <1>0, <1>5
<1>7. \A j, m \in 1..(n - 1) : t[j] = t[m] => j = m
  BY <1>0, <1>6
<1>8. /\ d.head = IF n - 1 = 0 THEN Nil ELSE t[1]
  <2>1. CASE i = 1
    BY <2>1, <1>0, <1>1, <1>2, <1>4, <1>5
  <2>2. CASE i # 1
    BY <2>2, <1>0, <1>1, <1>2, <1>4, <1>5 DEF Linked
  <2> QED BY <2>1, <2>2
<1>9. /\ d.tail = IF n - 1 = 0 THEN Nil ELSE t[n - 1]
  <2>1. CASE i = n
    BY <2>1, <1>0, <1>1, <1>2, <1>4, <1>5
  <2>2. CASE i # n
    <3>1. d.tail = s[n] /\ n - 1 # 0 /\ n - 1 \in 1..(n - 1) /\ ~(n - 1 < i) /\ (n - 1) + 1 = n
      BY <2>2, <1>0, <1>1, <1>2, <1>4 DEF Linked
    <3> QED BY <3>1, <1>5
  <2> QED BY <2>1, <2>2
<1>10. ASSUME NEW j \in 1..(n - 1)
       PROVE  d.node[t[j]].next = IF j = n - 1 THEN Nil ELSE t[j + 1]
  <2>1. CASE j < i - 1
    <3>1. j \in 1..n /\ j + 1 \in 1..n /\ j < i /\ j + 1 < i /\ j # i /\ j # n /\ j # n - 1 /\ j + 1 \in 1..(n - 1)
      BY <2>1, <1>0
    <3>2. t[j] = s[j] /\ t[j + 1] = s[j + 1] /\ c.node[s[j]].next = s[j + 1]
      BY <3>1, <1>5 DEF Linked
    <3>3. s[j] # s[i] /\ s[j] # e.prev
      BY <3>1, <1>0, <1>1, <1>2, <2>1
    <3> QED BY <3>1, <3>2, <3>3, <1>0, <1>4
  <2>2. CASE j = i - 1
    <3>1. j \in 1..n /\ j < i /\ i # 1 /\ j # i /\ t[j] = s[j] /\ e.prev = s[j]
      BY <2>2, <1>0, <1>1, <1>2, <1>5
    <3>2. d.node[t[j]].next = e.next
      BY <3>1, <1>0, <1>4
    <3>3. CASE i = n
      BY <3>3, <3>2, <1>1, <2>2
    <3>4. CASE i # n
      <4>1. j + 1 \in 1..(n - 1) /\ ~(j + 1 < i) /\ j # n - 1 /\ (j + 1) + 1 = i + 1
        BY <3>4, <2>2, <1>0
      <4> QED BY <4>1, <3>2, <3>4, <1>1, <1>5
    <3> QED BY <3>3, <3>4
  <2>3. CASE j > i - 1
    <3>1. j + 1 \in 1..n /\ ~(j < i) /\ j + 1 # i /\ t[j] = s[j + 1]
      BY <2>3, <1>0, <1>5
    <3>2. s[j + 1] # s[i] /\ s[j + 1] # e.prev
      BY <3>1, <1>0, <1>1, <1>2, <2>3
    <3>3. d.node[t[j]].next = c.node[s[j + 1]].next
      BY <3>1, <3>2, <1>0, <1>4
    <3>4. c.node[s[j + 1]].next = IF j + 1 = n THEN Nil ELSE s[(j + 1) + 1]
      BY <3>1 DEF Linked
    <3>5. CASE j = n - 1
      BY <3>5, <3>3, <3>4, <1>0
    <3>6. CASE j # n - 1
      <4>1. j + 1 \in 1..(n - 1) /\ ~(j + 1 < i) /\ j + 1 # n
        BY <3>6, <2>3, <1>0
      <4>2. t[j + 1] = s[(j + 1) + 1]
        BY <4>1, <1>5
      <4> QED BY <4>1, <4>2, <3>3, <3>4, <3>6
    <3> QED BY <3>5, <3>6
  <2> QED BY <2>1, <2>2, <2>3, <1>0
<1>11. ASSUME NEW j \in 1..(n - 1)
       PROVE  d.node[t[j]].prev = IF j = 1 THEN Nil ELSE t[j - 1]
  <2>1. CASE j < i
    <3>1. j \in 1..n /\ j # i /\ t[j] = s[j] /\ s[j] # s[i]
      BY <2>1, <1>0, <1>5
    <3>2. s[j] # e.next
      BY <3>1, <1>0, <1>1, <1>2, <2>1
    <3>3. c.node[s[j]].prev = IF j = 1 THEN Nil ELSE s[j - 1]
      BY <3>1 DEF Linked
    <3>5. d.node[t[j]].prev = c.node[s[j]].prev
      BY <3>1, <3>2, <1>0, <1>4
    <3>4. j # 1 => j - 1 \in 1..(n - 1) /\ j - 1 < i
      BY <2>1, <1>0
    <3> QED BY <3>3, <3>4, <3>5, <1>5
  <2>2. CASE j = i
    <3>1. i + 1 \in 1..n /\ i # n /\ t[j] = s[i + 1] /\ e.next = s[i + 1] /\ s[i + 1] # s[i]
      BY <2>2, <1>0, <1>1, <1>2, <1>5
    <3>2. d.node[t[j]].prev = e.prev
      BY <3>1, <1>0, <1>4
    <3>3. j # 1 => j - 1 \in 1..(n - 1) /\ j - 1 < i
      BY <2>2, <1>0
    <3> QED BY <3>2, <3>3, <1>1, <1>5, <2>2
  <2>3. CASE j > i
    <3>1. j + 1 \in 1..n /\ j + 1 # i /\ ~(j < i) /\ t[j] = s[j + 1] /\ s[j + 1] # s[i]
      BY <2>3, <1>0, <1>5
    <3>2. s[j + 1] # e.next
      BY <3>1, <1>0, <1>1, <1>2, <2>3
    <3>3. d.node[t[j]].prev = s[(j + 1) - 1]
      BY <3>1, <3>2, <1>0, <1>4 DEF Linked
    <3>4. j # 1 /\ j - 1 \in 1..(n - 1) /\ ~(j - 1 < i) /\ (j - 1) + 1 = (j + 1) - 1
      BY <2>3, <1>0
    <3>5. t[j - 1] = s[(j - 1) + 1]
      BY <3>4, <1>5
    <3> QED BY <3>3, <3>4, <3>5
  <2> QED BY <2>1, <2>2, <2>3, <1>0
<1>12. DOMAIN d.node = DOMAIN c.node
  BY <1>4 DEF SameValues
<1> QED
  BY <1>0, <1>4, <1>5, <1>7, <1>8, <1>9, <1>10, <1>11, <1>12 DEF Linked

\* pushFront puts an entry that is not in the list at its front.
LEMMA PushLinked ==
    ASSUME Nil \notin L!Keys, NEW c, Shape(c), NEW n, NEW s, Linked(c, n, s),
           NEW k \in DOMAIN c.node, \A i \in 1..n : s[i] # k
    PROVE  Pushed(c, n, s, k, L!PushFront(c, k))
<1> SUFFICES ASSUME NEW d, d = L!PushFront(c, k), NEW t, t = Behind(n, s, k)
             PROVE  Shape(d) /\ SameValues(c, d) /\ Linked(d, n + 1, t)
  BY DEF Pushed
<1>0. /\ n \in Nat /\ n + 1 \in Nat /\ (n + 1) - 1 = n
      /\ \A j \in 1..n : s[j] \in DOMAIN c.node /\ s[j] # Nil
      /\ \A j, m \in 1..n : s[j] = s[m] => j = m
  BY DEF Linked, Shape
<1>1. c.head \in DOMAIN c.node \cup {Nil} /\ c.head # k /\ k # Nil
  BY <1>0 DEF Linked, Shape
<1>2. /\ Shape(d) /\ SameValues(c, d) /\ d.head = k
      /\ d.tail = IF c.tail = Nil THEN k ELSE c.tail
      /\ \A x \in DOMAIN c.node :
             /\ d.node[x].next = IF x = k THEN c.head ELSE c.node[x].next
             /\ d.node[x].prev = IF x = k THEN Nil ELSE IF x = c.head THEN k ELSE c.node[x].prev
  BY <1>1, PushFrontFacts
<1>3. /\ t \in [1..(n + 1) -> DOMAIN c.node] /\ t[1] = k
      /\ \A j \in 1..(n + 1) : j # 1 => j - 1 \in 1..n /\ t[j] = s[j - 1]
  BY <1>0 DEF Behind
<1>4. \A j, m \in 1..(n + 1) : t[j] = t[m] => j = m
  BY <1>0, <1>3
<1>5. d.tail = t[n + 1]
  <2>1. CASE n = 0
    BY <2>1, <1>2, <1>3 DEF Linked
  <2>2. CASE n # 0
    <3>1. n + 1 \in 1..(n + 1) /\ n + 1 # 1 /\ n \in 1..n
      BY <2>2, <1>0
    <3> QED BY <2>2, <3>1, <1>0, <1>2, <1>3 DEF Linked
  <2> QED BY <2>1, <2>2
<1>6. ASSUME NEW j \in 1..(n + 1)
      PROVE  d.node[t[j]].next = IF j = n + 1 THEN Nil ELSE t[j + 1]
  <2>1. CASE j = 1
    <3>1. d.node[t[j]].next = c.head
      BY <2>1, <1>2, <1>3
    <3>2. n # 0 => 2 \in 1..(n + 1) /\ 2 - 1 = 1 /\ 2 # n + 2
      BY <1>0
    <3>3. c.head = IF n = 0 THEN Nil ELSE t[2]
      BY <3>2, <1>3 DEF Linked
    <3> QED BY <3>1, <3>3, <2>1, <1>0
  <2>2. CASE j # 1
    <3>1. j - 1 \in 1..n /\ t[j] = s[j - 1] /\ s[j - 1] # k
      BY <2>2, <1>3
    <3>2. d.node[t[j]].next = IF j - 1 = n THEN Nil ELSE s[(j - 1) + 1]
      BY <3>1, <1>0, <1>2 DEF Linked
    <3>3. j # n + 1 => j + 1 \in 1..(n + 1) /\ j + 1 # 1 /\ (j + 1) - 1 = (j - 1) + 1
      BY <2>2, <1>0
    <3>4. j # n + 1 => t[j + 1] = s[(j + 1) - 1]
      BY <3>3, <1>3
    <3>5. j - 1 = n <=> j = n + 1
      BY <1>0
    <3> QED BY <3>2, <3>3, <3>4, <3>5
  <2> QED BY <2>1, <2>2
<1>7. ASSUME NEW j \in 1..(n + 1)
      PROVE  d.node[t[j]].prev = IF j = 1 THEN Nil ELSE t[j - 1]
  <2>1. CASE j = 1
    BY <2>1, <1>2, <1>3
  <2>2. CASE j # 1
    <3>1. j - 1 \in 1..n /\ t[j] = s[j - 1] /\ s[j - 1] # k /\ n # 0 /\ 1 \in 1..n
      BY <2>2, <1>0, <1>3
    <3>2. CASE j = 2
      <4>1. c.head = s[1] /\ j - 1 = 1
        BY <3>1, <3>2 DEF Linked
      <4> QED BY <3>1, <4>1, <2>2, <1>0, <1>2, <1>3
    <3>3. CASE j # 2
      <4>1. j - 1 # 1 /\ j - 1 \in 1..(n + 1) /\ s[j - 1] # c.head
        BY <3>1, <3>3, <1>0 DEF Linked
      <4>2. d.node[t[j]].prev = s[(j - 1) - 1]
        <5>1. c.node[s[j - 1]].prev = s[(j - 1) - 1]
          BY <3>1, <4>1 DEF Linked
        <5> QED BY <5>1, <3>1, <4>1, <1>0, <1>2
      <4>3. t[j - 1] = s[(j - 1) - 1]
        BY <4>1, <1>3
      <4> QED BY <4>2, <4>3, <2>2
    <3> QED BY <3>2, <3>3
  <2> QED BY <2>1, <2>2
<1>8. DOMAIN d.node = DOMAIN c.node
  BY <1>2 DEF SameValues
<1>9. d.head = IF n + 1 = 0 THEN Nil ELSE t[1]
  BY <1>0, <1>2, <1>3
<1>10. d.tail = IF n + 1 = 0 THEN Nil ELSE t[n + 1]
  BY <1>0, <1>5
<1> QED
  BY <1>0, <1>2, <1>3, <1>4, <1>6, <1>7, <1>8, <1>9, <1>10 DEF Linked

\* The list links all entries of the map.
Full(c, n, s) == Shape(c) /\ Linked(c, n, s) /\ \A k \in DOMAIN c.node : \E i \in 1..n : s[i] = k

\* From a position on, t is what s has outside K, in the order of s.
SubList(n, s, m, t, from, K) ==
    /\ \A i \in from..m : \E f \in 1..n : t[i] = s[f] /\ s[f] \notin K
    /\ \A f \in 1..n : s[f] \notin K => \E i \in from..m : t[i] = s[f]
    /\ \A i, j \in from..m : i < j => \E a, b \in 1..n : a < b /\ s[a] = t[i] /\ s[b] = t[j]

\* No key is in the list twice.
Injective(n, s) == n \in Nat /\ \A i, j \in 1..n : s[i] = s[j] => i = j

\* Taking out one element keeps the others in their order.
LEMMA SubWithout ==
    ASSUME NEW n, NEW s, Injective(n, s), NEW i \in 1..n
    PROVE  SubList(n, s, n - 1, Without(n, s, i), 1, {s[i]})
<1> SUFFICES ASSUME NEW t, t = Without(n, s, i) PROVE SubList(n, s, n - 1, t, 1, {s[i]})
  OBVIOUS
<1>0. n \in Nat /\ i \in Nat /\ 1 <= i /\ i <= n
  BY DEF Injective
<1>1. \A j \in 1..(n - 1) : t[j] = IF j < i THEN s[j] ELSE s[j + 1]
  BY DEF Without
<1>2. ASSUME NEW j \in 1..(n - 1) PROVE \E f \in 1..n : t[j] = s[f] /\ s[f] \notin {s[i]}
  <2>1. CASE j < i
    BY <2>1, <1>0, <1>1 DEF Injective
  <2>2. CASE ~(j < i)
    <3>1. j + 1 \in 1..n /\ j + 1 # i /\ t[j] = s[j + 1]
      BY <2>2, <1>0, <1>1
    <3> QED BY <3>1 DEF Injective
  <2> QED BY <2>1, <2>2
<1>3. ASSUME NEW f \in 1..n, s[f] \notin {s[i]} PROVE \E j \in 1..(n - 1) : t[j] = s[f]
  <2>1. f # i
    BY <1>3
  <2>2. CASE f < i
    BY <2>2, <1>0, <1>1
  <2>3. CASE f > i
    <3>1. f - 1 \in 1..(n - 1) /\ ~(f - 1 < i) /\ (f - 1) + 1 = f
      BY <2>3, <1>0
    <3>2. t[f - 1] = s[(f - 1) + 1]
      BY <3>1, <1>1
    <3> QED BY <3>1, <3>2
  <2> QED BY <2>1, <2>2, <2>3, <1>0
<1>4. ASSUME NEW j \in 1..(n - 1), NEW m \in 1..(n - 1), j < m
      PROVE  \E a, b \in 1..n : a < b /\ s[a] = t[j] /\ s[b] = t[m]
  <2>1. \E a \in 1..n : a = (IF j < i THEN j ELSE j + 1) /\ s[a] = t[j]
    BY <1>0, <1>1
  <2>2. \E b \in 1..n : b = (IF m < i THEN m ELSE m + 1) /\ s[b] = t[m]
    BY <1>0, <1>1
  <2> QED BY <2>1, <2>2, <1>4
<1> QED
  BY <1>2, <1>3, <1>4 DEF SubList

\* So does putting one before them,
LEMMA SubBehind ==
    ASSUME NEW n \in Nat, NEW s, NEW k, NEW K, \A f \in 1..n : s[f] \notin K
    PROVE  SubList(n, s, n + 1, Behind(n, s, k), 2, K)
<1> SUFFICES ASSUME NEW t, t = Behind(n, s, k) PROVE SubList(n, s, n + 1, t, 2, K)
  OBVIOUS
<1>1. \A j \in 2..(n + 1) : j - 1 \in 1..n /\ t[j] = s[j - 1]
  BY DEF Behind
<1>2. \A f \in 1..n : \E j \in 2..(n + 1) : t[j] = s[f]
  <2> TAKE f \in 1..n
  <2>1. f + 1 \in 2..(n + 1) /\ (f + 1) - 1 = f
    OBVIOUS
  <2> QED BY <2>1, <1>1
<1>3. \A i, j \in 2..(n + 1) : i < j => i - 1 < j - 1
  OBVIOUS
<1> QED
  BY <1>1, <1>2, <1>3 DEF SubList

\* so do two such changes, one after the other,
LEMMA SubTrans ==
    ASSUME NEW n, NEW s, NEW m, NEW t, NEW p, NEW u, NEW from, NEW K1, NEW K2,
           n \in Nat, Injective(m, t),
           SubList(n, s, m, t, 1, K1), SubList(m, t, p, u, from, K2)
    PROVE  SubList(n, s, p, u, from, K1 \cup K2)
<1>1. ASSUME NEW i \in from..p PROVE \E f \in 1..n : u[i] = s[f] /\ s[f] \notin K1 \cup K2
  <2>1. PICK g \in 1..m : u[i] = t[g] /\ t[g] \notin K2
    BY DEF SubList
  <2>2. PICK f \in 1..n : t[g] = s[f] /\ s[f] \notin K1
    BY DEF SubList
  <2> QED BY <2>1, <2>2
<1>2. ASSUME NEW f \in 1..n, s[f] \notin K1 \cup K2 PROVE \E i \in from..p : u[i] = s[f]
  <2>1. PICK g \in 1..m : t[g] = s[f]
    BY <1>2 DEF SubList
  <2>2. PICK i \in from..p : u[i] = t[g]
    BY <1>2, <2>1 DEF SubList
  <2> QED BY <2>1, <2>2
<1>3. ASSUME NEW i \in from..p, NEW j \in from..p, i < j
      PROVE  \E a, b \in 1..n : a < b /\ s[a] = u[i] /\ s[b] = u[j]
  <2>1. PICK g \in 1..m, h \in 1..m : g < h /\ t[g] = u[i] /\ t[h] = u[j]
    BY <1>3 DEF SubList
  <2>2. PICK a \in 1..n, b \in 1..n : a < b /\ s[a] = t[g] /\ s[b] = t[h]
    BY <2>1 DEF SubList
  <2> QED BY <2>1, <2>2
<1> QED
  BY <1>1, <1>2, <1>3 DEF SubList

\* and so does no change: behind the first element are the others.
LEMMA SubSelf ==
    ASSUME NEW n, NEW s, Injective(n, s), n # 0
    PROVE  SubList(n, s, n, s, 2, {s[1]})
<1>0. n \in Nat /\ 1 \in 1..n /\ \A i \in 2..n : i \in 1..n /\ i # 1
  BY DEF Injective
<1>1. \A i \in 2..n : s[i] # s[1]
  BY <1>0 DEF Injective
<1>2. \A f \in 1..n : s[f] # s[1] => f \in 2..n
  BY <1>0
<1> QED
  BY <1>0, <1>1, <1>2 DEF SubList

\* d has some of the entries of c, with the values they had there.
Carried(c, d) ==
    /\ DOMAIN d.node \subseteq DOMAIN c.node
    /\ \A x \in DOMAIN d.node : d.node[x].val = c.node[x].val

\* d is c without the entry at i.
Deleted(c, n, s, i, d) ==
    /\ Full(d, n - 1, Without(n, s, i)) /\ Carried(c, d) /\ DOMAIN d.node = DOMAIN c.node \ {s[i]}

\* removeEntry and delete take an entry out of both the list and the map.
LEMMA DeleteFacts ==
    ASSUME Nil \notin L!Keys, NEW c, NEW n, NEW s, Full(c, n, s), NEW i \in 1..n
    PROVE  Deleted(c, n, s, i, L!Delete(c, s[i]))
<1> SUFFICES ASSUME NEW d, d = L!Delete(c, s[i]) PROVE Deleted(c, n, s, i, d)
  OBVIOUS
<1>0. /\ Shape(c) /\ Linked(c, n, s) /\ Injective(n, s) /\ s[i] \in DOMAIN c.node
      /\ \A k \in DOMAIN c.node : \E j \in 1..n : s[j] = k
  BY DEF Full, Linked, Injective
<1>1. PICK r : r = L!RemoveEntry(c, s[i]) /\ Removed(c, n, s, i, r)
  BY <1>0, RemoveLinked, Zenon
<1>2. PICK t : t = Without(n, s, i)
  OBVIOUS
<1>3. Shape(r) /\ SameValues(c, r) /\ Linked(r, n - 1, t)
  BY <1>1, <1>2 DEF Removed
<1>4. SubList(n, s, n - 1, t, 1, {s[i]})
  BY <1>0, <1>2, SubWithout, Zenon
<1>5. d = [r EXCEPT !.node = [x \in DOMAIN r.node \ {s[i]} |-> r.node[x]]]
  BY <1>1, Zenon DEF L!Delete
<1>6. /\ d = [node |-> d.node, head |-> d.head, tail |-> d.tail]
      /\ d.head = r.head /\ d.tail = r.tail
      /\ d.node = [x \in DOMAIN r.node \ {s[i]} |-> r.node[x]]
  BY <1>3, <1>5 DEF Shape
<1>7. Shape(d)
  BY <1>3, <1>6 DEF Shape
<1>8. DOMAIN d.node = DOMAIN c.node \ {s[i]}
  BY <1>3, <1>6 DEF SameValues
<1>9. Carried(c, d)
  BY <1>3, <1>6, <1>8 DEF SameValues, Carried
<1>10. \A j \in 1..(n - 1) : t[j] \in DOMAIN d.node
  BY <1>3, <1>4, <1>8 DEF SubList, Linked, SameValues
<1>11. Linked(d, n - 1, t)
  <2>1. t \in [1..(n - 1) -> DOMAIN d.node]
    BY <1>3, <1>10 DEF Linked
  <2>2. \A j \in 1..(n - 1) : d.node[t[j]] = r.node[t[j]]
    BY <1>3, <1>6, <1>8, <1>10 DEF SameValues
  <2> QED BY <2>1, <2>2, <1>3, <1>6 DEF Linked
<1>12. \A k \in DOMAIN d.node : \E j \in 1..(n - 1) : t[j] = k
  <2> TAKE k \in DOMAIN d.node
  <2>1. PICK f \in 1..n : s[f] = k /\ s[f] \notin {s[i]}
    BY <1>0, <1>8
  <2> QED BY <2>1, <1>4 DEF SubList
<1> QED
  BY <1>2, <1>7, <1>8, <1>9, <1>11, <1>12 DEF Deleted, Full

\* d is c with k at the front, and t its list.
Moved(c, n, s, k, d, t) ==
    /\ Full(d, n, t) /\ n # 0 /\ t[1] = k /\ SameValues(c, d) /\ SubList(n, s, n, t, 2, {k})

\* moveToFront puts an entry first and keeps the others in their order.
LEMMA MoveFacts ==
    ASSUME Nil \notin L!Keys, NEW c, NEW n, NEW s, Full(c, n, s), NEW k \in DOMAIN c.node
    PROVE  \E t : Moved(c, n, s, k, L!MoveToFront(c, k), t)
<1> SUFFICES ASSUME NEW d, d = L!MoveToFront(c, k) PROVE \E t : Moved(c, n, s, k, d, t)
  OBVIOUS
<1>0. /\ Shape(c) /\ Linked(c, n, s) /\ Injective(n, s) /\ n \in Nat
      /\ \A x \in DOMAIN c.node : \E j \in 1..n : s[j] = x
  BY DEF Full, Linked, Injective
<1>1. PICK i \in 1..n : s[i] = k
  BY <1>0
<1>2. n # 0 /\ n - 1 \in Nat /\ (n - 1) + 1 = n
  BY <1>0
<1>3. CASE c.head = k
  <2>1. d = c
    BY <1>3 DEF L!MoveToFront
  <2>2. s[1] = k
    BY <1>0, <1>2, <1>3 DEF Linked
  <2>3. SubList(n, s, n, s, 2, {s[1]})
    BY <1>0, <1>2, SubSelf, Zenon
  <2> QED BY <1>2, <2>1, <2>2, <2>3 DEF Moved, SameValues
<1>4. CASE c.head # k
  <2>1. PICK r : r = L!RemoveEntry(c, s[i]) /\ Removed(c, n, s, i, r)
    BY <1>0, RemoveLinked, Zenon
  <2>2. d = L!PushFront(r, k)
    BY <1>1, <1>4, <2>1 DEF L!MoveToFront
  <2>3. PICK u : u = Without(n, s, i)
    OBVIOUS
  <2>4. Shape(r) /\ SameValues(c, r) /\ Linked(r, n - 1, u) /\ Injective(n - 1, u)
    BY <2>1, <2>3 DEF Removed, Linked, Injective
  <2>5. SubList(n, s, n - 1, u, 1, {k})
    BY <1>0, <1>1, <2>3, SubWithout
  <2>6. \A j \in 1..(n - 1) : u[j] # k /\ u[j] \notin {k}
    BY <2>5 DEF SubList
  <2>7. k \in DOMAIN r.node
    BY <2>4 DEF SameValues
  <2>8. Pushed(r, n - 1, u, k, d)
    BY <2>2, <2>4, <2>6, <2>7, PushLinked
  <2>9. PICK t : t = Behind(n - 1, u, k)
    OBVIOUS
  <2>10. Shape(d) /\ SameValues(r, d) /\ Linked(d, n, t)
    BY <2>8, <2>9, <1>2 DEF Pushed
  <2>11. SubList(n - 1, u, n, t, 2, {k})
    BY <1>2, <2>6, <2>9, SubBehind
  <2>12. SubList(n, s, n, t, 2, {k} \cup {k})
    BY <1>0, <2>4, <2>5, <2>11, SubTrans, Zenon
  <2>13. SubList(n, s, n, t, 2, {k}) /\ SameValues(c, d)
    <3>1. {k} \cup {k} = {k}
      OBVIOUS
    <3> QED BY <3>1, <2>4, <2>10, <2>12 DEF SameValues
  <2>14. t[1] = k
    BY <1>2, <2>9 DEF Behind
  <2>15. \A x \in DOMAIN d.node : \E j \in 1..n : t[j] = x
    <3> TAKE x \in DOMAIN d.node
    <3>1. PICK f \in 1..n : s[f] = x
      BY <1>0, <2>13 DEF SameValues
    <3>2. CASE x = k
      BY <3>2, <2>14, <1>2
    <3>3. CASE x # k
      <4>1. PICK j \in 2..n : t[j] = s[f]
        BY <3>1, <3>3, <2>13 DEF SubList
      <4> QED BY <3>1, <4>1, <1>0
    <3> QED BY <3>2, <3>3
  <2> QED BY <1>2, <2>10, <2>13, <2>14, <2>15 DEF Moved, Full
<1> QED
  BY <1>3, <1>4

\* d is c with a new record at the front, and t its list.
Inserted(c, n, s, k, x, d, t) ==
    /\ Full(d, n + 1, t) /\ t[1] = k /\ d.node[k].val = x
    /\ DOMAIN d.node = DOMAIN c.node \cup {k}
    /\ \A y \in DOMAIN c.node : d.node[y].val = c.node[y].val
    /\ SubList(n, s, n + 1, t, 2, {k})

\* A new entry enters the map and the front of the list.
LEMMA InsertFacts ==
    ASSUME Nil \notin L!Keys, NEW c, NEW n, NEW s, Full(c, n, s),
           NEW k \in L!Keys, k \notin DOMAIN c.node, NEW x \in Vals
    PROVE  \E t : Inserted(c, n, s, k, x, L!PushFront(L!Insert(c, k, x), k), t)
<1>0. Shape(c) /\ Linked(c, n, s) /\ n \in Nat /\ n + 1 \in Nat
  BY DEF Full, Linked
<1>1. PICK r : r = L!Insert(c, k, x)
  OBVIOUS
<1>2. PICK e : e = [val |-> x, prev |-> Nil, next |-> Nil]
  OBVIOUS
<1>3. e \in Entry /\ e.val = x
  BY <1>2 DEF Entry, Links
<1>4. r = [c EXCEPT !.node = [y \in DOMAIN c.node \cup {k} |-> IF y = k THEN e ELSE c.node[y]]]
  BY <1>1, <1>2 DEF L!Insert
<1>5. /\ r = [node |-> r.node, head |-> r.head, tail |-> r.tail]
      /\ r.head = c.head /\ r.tail = c.tail
      /\ r.node = [y \in DOMAIN c.node \cup {k} |-> IF y = k THEN e ELSE c.node[y]]
  BY <1>0, <1>4 DEF Shape
<1>6. /\ DOMAIN r.node = DOMAIN c.node \cup {k} /\ r.node[k] = e
      /\ \A y \in DOMAIN c.node : r.node[y] = c.node[y]
  BY <1>5
<1>7. Shape(r)
  BY <1>0, <1>3, <1>5, <1>6 DEF Shape
<1>8. Linked(r, n, s)
  <2>1. s \in [1..n -> DOMAIN r.node]
    BY <1>0, <1>6 DEF Linked
  <2>2. \A i \in 1..n : r.node[s[i]] = c.node[s[i]]
    BY <1>0, <1>6 DEF Linked
  <2> QED BY <2>1, <2>2, <1>0, <1>5 DEF Linked
<1>9. \A i \in 1..n : s[i] # k /\ s[i] \notin {k}
  BY <1>0 DEF Linked
<1>10. PICK d : d = L!PushFront(r, k) /\ Pushed(r, n, s, k, d)
  BY <1>6, <1>7, <1>8, <1>9, PushLinked
<1>11. PICK t : t = Behind(n, s, k)
  OBVIOUS
<1>12. Shape(d) /\ SameValues(r, d) /\ Linked(d, n + 1, t)
  BY <1>10, <1>11 DEF Pushed
<1>13. SubList(n, s, n + 1, t, 2, {k})
  BY <1>0, <1>9, <1>11, SubBehind
<1>14. t[1] = k
  BY <1>0, <1>11 DEF Behind
<1>15. \A y \in DOMAIN d.node : \E j \in 1..(n + 1) : t[j] = y
  <2> TAKE y \in DOMAIN d.node
  <2>1. CASE y = k
    BY <2>1, <1>0, <1>14
  <2>2. CASE y # k
    <3>1. PICK f \in 1..n : s[f] = y
      BY <2>2, <1>6, <1>12 DEF SameValues, Full
    <3>2. PICK j \in 2..(n + 1) : t[j] = s[f]
      BY <1>9, <1>13 DEF SubList
    <3> QED BY <3>1, <3>2, <1>0
  <2> QED BY <2>1, <2>2
<1>16. Full(d, n + 1, t)
  BY <1>12, <1>15 DEF Full
<1>17. Inserted(c, n, s, k, x, d, t)
  BY <1>3, <1>6, <1>12, <1>13, <1>14, <1>16 DEF Inserted, SameValues
<1> QED
  BY <1>1, <1>10, <1>17

\* The operator of FiniteSets that the instance brought along is the same.
LEMMA CacheCardinality ==
    ASSUME NEW S
    PROVE  L!Cardinality(S) = Cardinality(S)
BY DEF L!Cardinality, Cardinality, L!IsFiniteSet, IsFiniteSet

\* The map has as many entries as the list.
LEMMA FullCardinality ==
    ASSUME NEW c, NEW n, NEW s, Full(c, n, s)
    PROVE  IsFiniteSet(DOMAIN c.node) /\ L!Cardinality(DOMAIN c.node) = n /\ n \in Nat
<1>1. n \in Nat /\ s \in Bijection(1..n, DOMAIN c.node)
  BY DEF Full, Linked, Bijection, Injection, Surjection, IsInjective
<1>2. ExistsBijection(1..n, DOMAIN c.node)
  BY <1>1 DEF ExistsBijection
<1>3. Cardinality(DOMAIN c.node) = n
  BY <1>1, <1>2, FS_CountingElements
<1>4. IsFiniteSet(DOMAIN c.node)
  BY <1>1, <1>2, FS_Interval, FS_Bijection
<1> QED
  BY <1>1, <1>3, <1>4, CacheCardinality

-----------------------------------------------------------------------------
(* Invalidate *)

\* A range over the map meets each of the keys once.
LEMMA OrdersFacts ==
    ASSUME NEW S, IsFiniteSet(S), NEW ks \in L!Orders(S)
    PROVE  /\ Len(ks) \in Nat /\ ks \in [1..Len(ks) -> S]
           /\ \A i, j \in 1..Len(ks) : ks[i] = ks[j] => i = j
           /\ \A k \in S : \E i \in 1..Len(ks) : ks[i] = k
<1>1. L!Cardinality(S) \in Nat /\ L!Cardinality(S) = Cardinality(S)
  BY FS_CardinalityType, CacheCardinality
<1>2. PICK n \in Nat : n = L!Cardinality(S)
  BY <1>1
<1>3. /\ ks \in [1..n -> S] /\ DOMAIN ks = 1..n
      /\ \A i, j \in 1..n : ks[i] = ks[j] => i = j
  BY <1>2 DEF L!Orders
<1>4. Len(ks) = n
  <2>1. ks \in Seq(S)
    BY <1>3
  <2> QED BY <1>3, <2>1, LenProperties
<1>5. ks \in Injection(1..n, S)
  BY <1>3 DEF Injection, IsInjective
<1>6. IsFiniteSet(1..n) /\ Cardinality(1..n) = n
  BY FS_Interval
<1>7. ks \in Surjection(1..n, S)
  BY <1>1, <1>2, <1>5, <1>6, FS_Injection
<1> QED
  BY <1>3, <1>4, <1>7 DEF Surjection

\* One round of the loop.
Round(c, ks, u, n) == IF n = 0 THEN c ELSE L!Delete(u[n - 1], ks[n])

\* The cache after each round.
Deletions(c, ks, u) == u = [n \in 0..Len(ks) |-> Round(c, ks, u, n)] /\ L!DeleteAll(c, ks) = u[Len(ks)]

\* The loop is defined for every order.
LEMMA DeleteAllUnfolds ==
    ASSUME NEW c, NEW ks, Len(ks) \in Nat
    PROVE  \E u : Deletions(c, ks, u)
<1> DEFINE P == {m \in Nat : \E u : u = [i \in 0..m |-> Round(c, ks, u, i)]}
<1>1. 0 \in P
  <2>1. PICK u : u = [i \in 0..0 |-> c]
    OBVIOUS
  <2>2. \A i \in 0..0 : Round(c, ks, u, i) = c
    BY DEF Round
  <2>3. u = [i \in 0..0 |-> Round(c, ks, u, i)]
    BY <2>1, <2>2
  <2> QED BY <2>3
<1>2. ASSUME NEW m \in 0..(Len(ks) - 1), m \in P PROVE m + 1 \in P
  <2>1. PICK u : u = [i \in 0..m |-> Round(c, ks, u, i)]
    BY <1>2
  <2>2. PICK w : w = [i \in 0..(m + 1) |-> IF i = m + 1 THEN Round(c, ks, u, i) ELSE u[i]]
    OBVIOUS
  <2>3. \A i \in 0..m : i \in 0..(m + 1) /\ i # m + 1 /\ w[i] = u[i]
    BY <2>2
  <2>4. \A i \in 0..(m + 1) : i = 0 \/ i - 1 \in 0..m
    OBVIOUS
  <2>5. \A i \in 0..(m + 1) : Round(c, ks, w, i) = Round(c, ks, u, i)
    BY <2>3, <2>4 DEF Round
  <2>6. ASSUME NEW i \in 0..(m + 1) PROVE w[i] = Round(c, ks, u, i)
    <3>1. CASE i = m + 1
      BY <2>2, <3>1
    <3>2. CASE i # m + 1
      <4>1. i \in 0..m
        BY <3>2
      <4> QED BY <2>1, <2>3, <4>1
    <3> QED BY <3>1, <3>2
  <2>7. w = [i \in 0..(m + 1) |-> w[i]]
    BY <2>2
  <2>8. w = [i \in 0..(m + 1) |-> Round(c, ks, w, i)]
    BY <2>5, <2>6, <2>7
  <2> QED BY <2>8
<1>3. Len(ks) \in P
  <2>1. \A m \in 0..Len(ks) : m \in P
    <3> HIDE DEF P
    <3> QED BY <1>1, <1>2, Upward
  <2> QED BY <2>1
<1>4. PICK u : u = [i \in 0..Len(ks) |-> Round(c, ks, u, i)]
  BY <1>3
<1> DEFINE C == CHOOSE f : f = [i \in 0..Len(ks) |-> Round(c, ks, f, i)]
<1>5. C = [i \in 0..Len(ks) |-> Round(c, ks, C, i)]
  BY <1>4
<1>6. L!DeleteAll(c, ks) = C[Len(ks)]
  BY DEF L!DeleteAll, Round
<1>7. Deletions(c, ks, C)
  <2> HIDE DEF C
  <2> QED BY <1>5, <1>6 DEF Deletions
<1> QED
  BY <1>7

\* d is c without the keys in K, and t its list of m keys.
Shrunk(c, n, s, K, d, m, t) ==
    /\ Full(d, m, t) /\ Carried(c, d) /\ DOMAIN d.node = DOMAIN c.node \ K /\ SubList(n, s, m, t, 1, K)

\* Deleting one entry more.
LEMMA DeleteMore ==
    ASSUME Nil \notin L!Keys, NEW c, NEW n \in Nat, NEW s, NEW K, NEW d, NEW m, NEW t,
           Shrunk(c, n, s, K, d, m, t), NEW k \in DOMAIN d.node
    PROVE  \E u : Shrunk(c, n, s, K \cup {k}, L!Delete(d, k), m - 1, u)
<1>1. PICK i \in 1..m : t[i] = k
  BY DEF Shrunk, Full
<1>2. Full(d, m, t) /\ Injective(m, t)
  BY DEF Shrunk, Full, Linked, Injective
<1>3. PICK e : e = L!Delete(d, t[i]) /\ Deleted(d, m, t, i, e)
  BY <1>2, DeleteFacts, Zenon
<1>4. PICK u : u = Without(m, t, i)
  OBVIOUS
<1>5. Full(e, m - 1, u) /\ Carried(d, e) /\ DOMAIN e.node = DOMAIN d.node \ {k}
  BY <1>1, <1>3, <1>4 DEF Deleted
<1>6. SubList(m, t, m - 1, u, 1, {k})
  BY <1>1, <1>2, <1>4, SubWithout
<1>7. SubList(n, s, m, t, 1, K)
  BY DEF Shrunk
<1>8. SubList(n, s, m - 1, u, 1, K \cup {k})
  BY <1>2, <1>6, <1>7, SubTrans, Zenon
<1>9. Carried(c, e) /\ DOMAIN e.node = DOMAIN c.node \ (K \cup {k})
  BY <1>5 DEF Shrunk, Carried
<1> QED
  BY <1>1, <1>3, <1>5, <1>8, <1>9 DEF Shrunk

\* Without any deletion everything is there.
LEMMA ShrunkNot ==
    ASSUME NEW c, NEW n, NEW s, Full(c, n, s)
    PROVE  Shrunk(c, n, s, {}, c, n, s)
<1>1. SubList(n, s, n, s, 1, {})
  BY DEF SubList, Full, Linked
<1> QED
  BY <1>1 DEF Shrunk, Carried

\* d is c without the keys in S.
Invalidated(c, n, s, S, d) == \E m, t : Shrunk(c, n, s, S, d, m, t)

\* Invalidate takes the keys it met out of the list and the map, whatever the
\* order in which it met them.
LEMMA DeleteAllFacts ==
    ASSUME Nil \notin L!Keys, NEW c, NEW n, NEW s, Full(c, n, s),
           NEW S \in SUBSET DOMAIN c.node, NEW ks \in L!Orders(S)
    PROVE  Invalidated(c, n, s, S, L!DeleteAll(c, ks))
<1>0. IsFiniteSet(S) /\ n \in Nat
  <2>1. IsFiniteSet(DOMAIN c.node)
    BY FullCardinality, Zenon
  <2>2. IsFiniteSet(S)
    BY <2>1, FS_Subset
  <2> QED BY <2>2 DEF Full, Linked
<1>1. /\ Len(ks) \in Nat /\ ks \in [1..Len(ks) -> S]
      /\ \A i, j \in 1..Len(ks) : ks[i] = ks[j] => i = j
      /\ \A k \in S : \E i \in 1..Len(ks) : ks[i] = k
  BY <1>0, OrdersFacts
<1>2. PICK N \in Nat : N = Len(ks)
  BY <1>1
<1>3. PICK u : Deletions(c, ks, u)
  BY <1>1, DeleteAllUnfolds
<1>4. /\ \A i \in 0..N : u[i] = Round(c, ks, u, i)
      /\ L!DeleteAll(c, ks) = u[N]
  BY <1>2, <1>3 DEF Deletions
<1> DEFINE Met(i) == {ks[j] : j \in 1..i}
           P == {i \in Nat : Invalidated(c, n, s, Met(i), u[i])}
<1>5. 0 \in P
  <2>1. u[0] = c /\ Met(0) = {}
    BY <1>4 DEF Round
  <2>2. Shrunk(c, n, s, {}, c, n, s)
    BY ShrunkNot
  <2> HIDE DEF Met
  <2> QED BY <2>1, <2>2 DEF Invalidated
<1>6. ASSUME NEW i \in 0..(N - 1), i \in P PROVE i + 1 \in P
  <2>1. PICK m, t : Shrunk(c, n, s, Met(i), u[i], m, t)
    BY <1>6 DEF Invalidated
  <2>2. u[i + 1] = L!Delete(u[i], ks[i + 1])
    <3>1. i + 1 \in 0..N /\ i + 1 # 0 /\ (i + 1) - 1 = i
      OBVIOUS
    <3> QED BY <3>1, <1>4 DEF Round
  <2>3. ks[i + 1] \in DOMAIN c.node /\ ks[i + 1] \notin Met(i)
    <3>1. i + 1 \in 1..N /\ \A j \in 1..i : j \in 1..N /\ j # i + 1
      OBVIOUS
    <3> QED BY <3>1, <1>1, <1>2
  <2>4. Met(i + 1) = Met(i) \cup {ks[i + 1]}
    <3>1. \A j : j \in 1..(i + 1) <=> j \in 1..i \/ j = i + 1
      OBVIOUS
    <3> QED BY <3>1
  <2> HIDE DEF Met
  <2>5. ks[i + 1] \in DOMAIN u[i].node
    BY <2>1, <2>3 DEF Shrunk
  <2>6. PICK v : Shrunk(c, n, s, Met(i) \cup {ks[i + 1]}, L!Delete(u[i], ks[i + 1]), m - 1, v)
    BY <1>0, <2>1, <2>5, DeleteMore, Zenon
  <2>7. Invalidated(c, n, s, Met(i + 1), u[i + 1])
    BY <2>2, <2>4, <2>6 DEF Invalidated
  <2> QED BY <2>7
<1>7. N \in P
  <2>1. \A m \in 0..N : m \in P
    <3> HIDE DEF P
    <3> QED BY <1>5, <1>6, Upward
  <2>2. N \in 0..N
    OBVIOUS
  <2> HIDE DEF P
  <2> QED BY <2>1, <2>2
<1>8. Met(N) = S
  BY <1>1, <1>2
<1> HIDE DEF Met
<1> QED
  BY <1>4, <1>7, <1>8

-----------------------------------------------------------------------------
(* The records in the order of the list *)

\* The key of a record at position i when one follows next from head.
Follow(c, u, i) ==
    IF i = 1 THEN c.head ELSE IF u[i - 1] \in DOMAIN c.node THEN c.node[u[i - 1]].next ELSE Nil

\* Walking from head along next meets the keys of the list.
LEMMA WalkFacts ==
    ASSUME NEW c, NEW n, NEW s, Full(c, n, s)
    PROVE  \A i \in 1..n : L!Walk(c)[i] = s[i]
<1>0. n \in Nat /\ L!Cardinality(DOMAIN c.node) = n
  BY FullCardinality, Zenon
<1>1. ASSUME NEW i \in 1..n PROVE s[i] = Follow(c, s, i)
  <2>1. CASE i = 1
    BY <2>1, <1>0 DEF Full, Linked, Follow
  <2>2. CASE i # 1
    <3>1. i - 1 \in 1..n /\ i - 1 # n /\ (i - 1) + 1 = i
      BY <2>2, <1>0
    <3>2. s[i - 1] \in DOMAIN c.node /\ c.node[s[i - 1]].next = s[(i - 1) + 1]
      BY <3>1 DEF Full, Linked
    <3> QED BY <2>2, <3>1, <3>2 DEF Follow
  <2> QED BY <2>1, <2>2
<1>2. s = [i \in 1..n |-> Follow(c, s, i)]
  BY <1>1 DEF Full, Linked
<1> DEFINE C == CHOOSE u : u = [i \in 1..n |-> Follow(c, u, i)]
<1>3. C = [i \in 1..n |-> Follow(c, C, i)]
  BY <1>2
<1>4. L!Walk(c) = C
  BY <1>0 DEF L!Walk, Follow
<1> HIDE DEF C
<1> DEFINE P == {m \in Nat : m # 0 => C[m] = s[m]}
<1>5. 0 \in P
  OBVIOUS
<1>6. ASSUME NEW m \in 0..(n - 1), m \in P PROVE m + 1 \in P
  <2>1. m + 1 \in 1..n /\ m + 1 \in Nat
    BY <1>0
  <2>2. C[m + 1] = Follow(c, C, m + 1) /\ s[m + 1] = Follow(c, s, m + 1)
    BY <2>1, <1>1, <1>3
  <2>3. Follow(c, C, m + 1) = Follow(c, s, m + 1)
    <3>1. CASE m = 0
      BY <3>1 DEF Follow
    <3>2. CASE m # 0
      <4>1. (m + 1) - 1 = m /\ C[m] = s[m]
        BY <3>2, <1>6
      <4> QED BY <4>1 DEF Follow
    <3> QED BY <3>1, <3>2
  <2> QED BY <2>1, <2>2, <2>3
<1>7. \A m \in 0..n : m \in P
  <2> HIDE DEF P
  <2> QED BY <1>0, <1>5, <1>6, Upward
<1>8. \A i \in 1..n : i \in 0..n /\ i # 0
  BY <1>0
<1> QED
  BY <1>4, <1>7, <1>8

\* The record of a key, and the records of a list.
Rec(c, k) == [key |-> L!Parts(k), val |-> c.node[k].val]

Listing(c, n, s, o) ==
    /\ o \in Seq(L!R!Record) /\ Len(o) = n /\ n \in Nat
    /\ \A i \in 1..n : o[i] = Rec(c, s[i])

\* A key gives back what it was made of.
KeysSplit == \A id \in Ids, v \in Versions : L!Parts(L!CacheKey(id, v)) = <<id, v>>

\* The mapping of the cache is the list of its records.
LEMMA EntriesFacts ==
    ASSUME KeysSplit, NEW c, NEW n, NEW s, Full(c, n, s)
    PROVE  Listing(c, n, s, L!RecordList(c))
<1>0. n \in Nat /\ L!Cardinality(DOMAIN c.node) = n
  BY FullCardinality, Zenon
<1>1. \A i \in 1..n : L!Walk(c)[i] = s[i]
  BY WalkFacts
<1>2. \A i \in 1..n : s[i] \in DOMAIN c.node /\ s[i] \in L!Keys /\ c.node[s[i]].val \in Vals
  BY DEF Full, Linked, Shape, Entry
<1>3. PICK o : o = L!RecordList(c)
  OBVIOUS
<1>4. o = [i \in 1..n |-> Rec(c, s[i])]
  BY <1>0, <1>1, <1>2, <1>3 DEF L!RecordList, Rec
<1>5. \A i \in 1..n : Rec(c, s[i]) \in L!R!Record
  <2> TAKE i \in 1..n
  <2>1. PICK id \in Ids, v \in Versions : s[i] = L!CacheKey(id, v)
    BY <1>2 DEF L!Keys
  <2>2. L!Parts(s[i]) = L!R!Key(id, v)
    BY <2>1 DEF KeysSplit, L!R!Key
  <2> QED BY <1>2, <2>2 DEF Rec, L!R!Record
<1>6. o \in [1..n -> L!R!Record]
  BY <1>4, <1>5
<1>7. o \in Seq(L!R!Record) /\ Len(o) = n
  BY <1>0, <1>6
<1> QED
  BY <1>0, <1>3, <1>4, <1>7 DEF Listing

\* What Keep says of the sequences before and after the step.
KeepIn(o, p, from, K) ==
    /\ p \in Seq(L!R!Record)
    /\ {p[i] : i \in from..Len(p)} = {o[i] : i \in {j \in 1..Len(o) : o[j].key \notin K}}
    /\ \A i, j \in from..Len(p) : i < j => \E a, b \in 1..Len(o) : a < b /\ o[a] = p[i] /\ o[b] = p[j]

\* A list that keeps entries in their order keeps their records in that order.
LEMMA KeepsRecords ==
    ASSUME NEW c, NEW n, NEW s, NEW o, Listing(c, n, s, o),
           NEW d, NEW m, NEW t, NEW p, Listing(d, m, t, p),
           NEW from \in {1, 2}, NEW K, SubList(n, s, m, t, from, K),
           \A i \in from..m : d.node[t[i]].val = c.node[t[i]].val,
           NEW A, \A i \in 1..n : L!Parts(s[i]) \in A <=> s[i] \in K
    PROVE  KeepIn(o, p, from, A)
<1>0. /\ Len(o) = n /\ Len(p) = m /\ m \in Nat /\ n \in Nat /\ p \in Seq(L!R!Record)
      /\ \A i \in 1..n : o[i] = Rec(c, s[i]) /\ o[i].key = L!Parts(s[i])
      /\ \A i \in from..m : i \in 1..m
  BY DEF Listing, Rec
<1>1. \A i \in from..m, f \in 1..n : t[i] = s[f] => p[i] = o[f]
  BY <1>0 DEF Listing, Rec
<1>2. ASSUME NEW i \in from..m PROVE \E f \in 1..n : o[f].key \notin A /\ p[i] = o[f]
  <2>1. PICK f \in 1..n : t[i] = s[f] /\ s[f] \notin K
    BY DEF SubList
  <2> QED BY <2>1, <1>0, <1>1
<1>3. ASSUME NEW f \in 1..n, o[f].key \notin A PROVE \E i \in from..m : p[i] = o[f]
  <2>1. PICK i \in from..m : t[i] = s[f]
    BY <1>0, <1>3 DEF SubList
  <2> QED BY <2>1, <1>1
<1>4. ASSUME NEW i \in from..m, NEW j \in from..m, i < j
      PROVE  \E a, b \in 1..n : a < b /\ o[a] = p[i] /\ o[b] = p[j]
  <2>1. PICK a \in 1..n, b \in 1..n : a < b /\ s[a] = t[i] /\ s[b] = t[j]
    BY <1>4 DEF SubList
  <2> QED BY <2>1, <1>1
<1>5. {p[i] : i \in from..Len(p)} = {o[i] : i \in {j \in 1..Len(o) : o[j].key \notin A}}
  BY <1>0, <1>2, <1>3
<1>6. \A i, j \in from..Len(p) : i < j => \E a, b \in 1..Len(o) : a < b /\ o[a] = p[i] /\ o[b] = p[j]
  BY <1>0, <1>4
<1> QED
  BY <1>0, <1>5, <1>6, Zenon DEF KeepIn

\* The parts of a key, and the IDs whose keys begin with a given one.
LEMMA KeyFacts ==
    ASSUME NEW S, NEW id \in Seq(S), NEW v, NEW start \in Seq(S)
    PROVE  /\ L!Parts(L!CacheKey(id, v)) = <<id, v>>
           /\ LET k == L!CacheKey(id, v)
              IN (Len(k) > Len(start) /\ SubSeq(k, 1, Len(start)) = start) <=> L!R!Continues(id, start)
<1>1. PICK k : k = L!CacheKey(id, v)
  OBVIOUS
<1>2. /\ k \in Seq(S \cup {v}) /\ Len(id) \in Nat /\ Len(start) \in Nat
      /\ Len(k) = Len(id) + 1 /\ k[Len(k)] = v
      /\ \A i \in 1..Len(id) : k[i] = id[i]
  BY <1>1 DEF L!CacheKey
<1>3. ASSUME NEW m \in Nat, m <= Len(id) PROVE SubSeq(k, 1, m) = SubSeq(id, 1, m)
  <2>1. \A i \in 1..m : k[i] = id[i] /\ i \in 1..Len(id)
    BY <1>2, <1>3
  <2>2. SubSeq(k, 1, m) = [i \in 1..m |-> k[i]]
    BY <1>2, <1>3
  <2>3. SubSeq(id, 1, m) = [i \in 1..m |-> id[i]]
    BY <1>2, <1>3
  <2> QED BY <2>1, <2>2, <2>3
<1>4. SubSeq(id, 1, Len(id)) = id
  BY SubSeqFull
<1>5. L!Parts(k) = <<id, v>>
  <2>1. Len(k) - 1 = Len(id) /\ Len(id) <= Len(id)
    BY <1>2
  <2> QED BY <2>1, <1>2, <1>3, <1>4 DEF L!Parts
<1>6. Len(k) > Len(start) <=> Len(id) >= Len(start)
  BY <1>2
<1>7. (Len(k) > Len(start) /\ SubSeq(k, 1, Len(start)) = start) <=> L!R!Continues(id, start)
  BY <1>2, <1>3, <1>6 DEF L!R!Continues
<1> QED
  BY <1>1, <1>5, <1>7

-----------------------------------------------------------------------------
(* Steps *)

\* The inductive invariant.
CacheInv == \E n, s : Full(cache, n, s) /\ n <= Capacity

\* Keep is a statement about the mapping before and after a step.
LEMMA KeptHere ==
    ASSUME NEW from, NEW K, KeepIn(L!RecordList(cache), L!RecordList(cache'), from, K)
    PROVE  L!R!Keep(from, K)
BY Zenon DEF KeepIn, L!R!Keep, L!R!Before

\* Where the record of an entity's version is.
LEMMA IndexFacts ==
    ASSUME KeysSplit, NEW n, NEW s, Full(cache, n, s), NEW id \in Ids, NEW v \in Versions
    PROVE  /\ Len(L!RecordList(cache)) = n
           /\ \A i \in 1..n : L!Parts(s[i]) = <<id, v>> <=> s[i] = L!CacheKey(id, v)
           /\ \A i \in 1..n : i \in L!R!IndexOf(L!R!Key(id, v)) <=> s[i] = L!CacheKey(id, v)
           /\ L!R!IndexOf(L!R!Key(id, v)) \subseteq 1..n
<1>1. Listing(cache, n, s, L!RecordList(cache))
  BY EntriesFacts, Zenon
<1>2. PICK o : o = L!RecordList(cache)
  OBVIOUS
<1>3. Len(o) = n /\ \A i \in 1..n : o[i].key = L!Parts(s[i])
  BY <1>1, <1>2 DEF Listing, Rec
<1>4. ASSUME NEW i \in 1..n PROVE L!Parts(s[i]) = <<id, v>> <=> s[i] = L!CacheKey(id, v)
  <2>1. s[i] \in L!Keys
    BY DEF Full, Linked, Shape
  <2>2. PICK j \in Ids, w \in Versions : s[i] = L!CacheKey(j, w)
    BY <2>1 DEF L!Keys
  <2>3. L!Parts(s[i]) = <<j, w>> /\ L!Parts(L!CacheKey(id, v)) = <<id, v>>
    BY <2>2 DEF KeysSplit
  <2> QED BY <2>2, <2>3
<1>5. L!R!IndexOf(L!R!Key(id, v)) = {i \in 1..n : o[i].key = <<id, v>>}
  BY <1>2, <1>3 DEF L!R!IndexOf, L!R!Key
<1> QED
  BY <1>2, <1>3, <1>4, <1>5

\* Get of a cached record.
LEMMA HitStep ==
    ASSUME Nil \notin L!Keys, KeysSplit, CacheInv, NEW id \in Ids, NEW v \in Versions,
           L!CacheKey(id, v) \in DOMAIN cache.node,
           cache' = L!MoveToFront(cache, L!CacheKey(id, v)),
           got' = cache.node[L!CacheKey(id, v)].val
    PROVE  CacheInv' /\ L!R!Hit(L!R!Key(id, v))
<1>1. PICK n, s : Full(cache, n, s) /\ n <= Capacity
  BY DEF CacheInv
<1>2. PICK k : k = L!CacheKey(id, v)
  OBVIOUS
<1>3. PICK t : Moved(cache, n, s, k, cache', t)
  BY <1>1, <1>2, MoveFacts
<1>4. /\ Full(cache', n, t) /\ n # 0 /\ t[1] = k /\ SameValues(cache, cache')
      /\ SubList(n, s, n, t, 2, {k})
  BY <1>3 DEF Moved
<1>5. CacheInv'
  BY <1>1, <1>4 DEF CacheInv
<1>6. PICK o, p : o = L!RecordList(cache) /\ p = L!RecordList(cache')
  OBVIOUS
<1>7. Listing(cache, n, s, o) /\ Listing(cache', n, t, p)
  BY <1>1, <1>4, <1>6, EntriesFacts, Zenon
<1>8. \A i \in 1..n : L!Parts(s[i]) \in {<<id, v>>} <=> s[i] \in {k}
  BY <1>1, <1>2, IndexFacts
<1>9. \A i \in 2..n : cache'.node[t[i]].val = cache.node[t[i]].val
  <2>1. n \in Nat /\ \A i \in 2..n : i \in 1..n
    BY <1>7 DEF Listing
  <2> QED BY <2>1, <1>4 DEF Full, Linked, SameValues
<1>10. KeepIn(o, p, 2, {<<id, v>>})
  BY <1>4, <1>7, <1>8, <1>9, KeepsRecords
<1>11. L!R!Keep(2, {L!R!Key(id, v)})
  BY <1>6, <1>10, KeptHere DEF L!R!Key
<1>12. PICK i \in 1..n : s[i] = k
  BY <1>1, <1>2 DEF Full
<1>13. i \in L!R!IndexOf(L!R!Key(id, v))
  BY <1>1, <1>2, <1>12, IndexFacts
<1>14. p # <<>> /\ p[1] = o[i] /\ got' = o[i].val
  <2>1. n \in Nat /\ 1 \in 1..n /\ Len(p) = n /\ p[1] = Rec(cache', t[1]) /\ o[i] = Rec(cache, s[i])
    BY <1>4, <1>7 DEF Listing
  <2>2. cache'.node[k].val = cache.node[k].val
    BY <1>2, <1>4 DEF SameValues
  <2>3. p # <<>>
    BY <2>1, <1>4
  <2> QED BY <2>1, <2>2, <2>3, <1>2, <1>4, <1>12 DEF Rec
<1>15. L!R!Hit(L!R!Key(id, v))
  BY <1>6, <1>11, <1>13, <1>14 DEF L!R!Hit
<1> QED
  BY <1>5, <1>15

\* Get of a record that is not cached.
LEMMA MissStep ==
    ASSUME KeysSplit, CacheInv, NEW id \in Ids, NEW v \in Versions,
           L!CacheKey(id, v) \notin DOMAIN cache.node, got' = Nil, UNCHANGED cache
    PROVE  CacheInv' /\ L!R!Miss(L!R!Key(id, v))
<1>1. PICK n, s : Full(cache, n, s) /\ n <= Capacity
  BY DEF CacheInv
<1>2. \A i \in 1..n : s[i] # L!CacheKey(id, v)
  BY <1>1 DEF Full, Linked
<1>3. L!R!IndexOf(L!R!Key(id, v)) = {}
  BY <1>1, <1>2, IndexFacts
<1> QED
  BY <1>1, <1>3 DEF CacheInv, L!R!Miss

\* The list after Put, whatever it displaced.
Stored(n, s, K, k, x, d, m, t) ==
    /\ Full(d, m, t) /\ m # 0 /\ t[1] = k /\ d.node[k].val = x
    /\ SubList(n, s, m, t, 2, K)
    /\ \A i \in 2..m : d.node[t[i]].val = cache.node[t[i]].val

\* Whatever Put displaced, it stores the record first.
LEMMA StoreStep ==
    ASSUME KeysSplit, NEW n, NEW s, Full(cache, n, s), NEW id \in Ids, NEW v \in Versions, NEW x,
           NEW K, NEW m, NEW t, Stored(n, s, K, L!CacheKey(id, v), x, cache', m, t), m <= Capacity,
           \A i \in 1..n : L!Parts(s[i]) \in {<<id, v>>} \cup L!R!Displaced(L!R!Key(id, v)) <=> s[i] \in K,
           UNCHANGED got
    PROVE  CacheInv' /\ L!R!Store(L!R!Key(id, v), x)
<1>1. PICK o, p : o = L!RecordList(cache) /\ p = L!RecordList(cache')
  OBVIOUS
<1>2. PICK k : k = L!CacheKey(id, v)
  OBVIOUS
<1>3. /\ Full(cache', m, t) /\ m # 0 /\ t[1] = k /\ cache'.node[k].val = x
      /\ SubList(n, s, m, t, 2, K)
      /\ \A i \in 2..m : cache'.node[t[i]].val = cache.node[t[i]].val
  BY <1>2 DEF Stored
<1>4. Listing(cache, n, s, o) /\ Listing(cache', m, t, p)
  BY <1>1, <1>3, EntriesFacts, Zenon
<1>5. PICK A : A = {<<id, v>>} \cup L!R!Displaced(L!R!Key(id, v))
  OBVIOUS
<1>6. KeepIn(o, p, 2, A)
  BY <1>3, <1>4, <1>5, KeepsRecords
<1>7. L!R!Keep(2, {L!R!Key(id, v)} \cup L!R!Displaced(L!R!Key(id, v)))
  BY <1>1, <1>5, <1>6, KeptHere DEF L!R!Key
<1>8. p # <<>> /\ p[1] = [key |-> L!R!Key(id, v), val |-> x]
  <2>1. m \in Nat /\ 1 \in 1..m /\ Len(p) = m /\ p[1] = Rec(cache', t[1])
    BY <1>3, <1>4 DEF Listing
  <2>2. L!Parts(k) = <<id, v>>
    BY <1>2 DEF KeysSplit
  <2>3. p # <<>>
    BY <2>1, <1>3
  <2> QED BY <2>1, <2>2, <2>3, <1>3 DEF Rec, L!R!Key
<1>9. CacheInv'
  BY <1>3 DEF CacheInv
<1> QED
  BY <1>1, <1>7, <1>8, <1>9 DEF L!R!Store

\* Put of a record that is cached.
LEMMA UpdateStep ==
    ASSUME Nil \notin L!Keys, KeysSplit, CacheInv, NEW id \in Ids, NEW v \in Versions, NEW x \in Vals,
           L!CacheKey(id, v) \in DOMAIN cache.node,
           cache' = L!MoveToFront([cache EXCEPT !.node[L!CacheKey(id, v)].val = x], L!CacheKey(id, v)),
           UNCHANGED got
    PROVE  CacheInv' /\ L!R!Store(L!R!Key(id, v), x)
<1>1. PICK n, s : Full(cache, n, s) /\ n <= Capacity
  BY DEF CacheInv
<1>2. PICK k : k = L!CacheKey(id, v)
  OBVIOUS
<1>3. PICK c : c = [cache EXCEPT !.node[k].val = x]
  OBVIOUS
<1>4. /\ c = [node |-> c.node, head |-> c.head, tail |-> c.tail]
      /\ c.head = cache.head /\ c.tail = cache.tail
      /\ c.node = [cache.node EXCEPT ![k].val = x]
  BY <1>1, <1>3 DEF Full, Shape
<1>5. /\ DOMAIN c.node = DOMAIN cache.node
      /\ c.node[k] = [cache.node[k] EXCEPT !.val = x]
      /\ \A y \in DOMAIN cache.node \ {k} : c.node[y] = cache.node[y]
  BY <1>1, <1>2, <1>4 DEF Full, Shape
<1>6. \A y \in DOMAIN cache.node : cache.node[y] \in Entry
  BY <1>1 DEF Full, Shape
<1>7. /\ c.node[k] \in Entry /\ c.node[k].val = x
      /\ c.node[k].prev = cache.node[k].prev /\ c.node[k].next = cache.node[k].next
  BY <1>2, <1>5, <1>6 DEF Entry
<1>8. c.node \in [DOMAIN c.node -> Entry]
  BY <1>1, <1>4, <1>5, <1>6, <1>7 DEF Full, Shape
<1>9. Shape(c)
  BY <1>1, <1>4, <1>5, <1>8 DEF Full, Shape
<1>10. \A y \in DOMAIN cache.node : c.node[y].prev = cache.node[y].prev /\ c.node[y].next = cache.node[y].next
  BY <1>5, <1>7
<1>11. Linked(c, n, s)
  <2>1. Linked(cache, n, s) /\ \A i \in 1..n : s[i] \in DOMAIN cache.node
    BY <1>1 DEF Full, Linked
  <2> QED BY <2>1, <1>4, <1>5, <1>10 DEF Linked
<1>12. Full(c, n, s)
  BY <1>1, <1>5, <1>9, <1>11 DEF Full
<1>13. PICK t : Moved(c, n, s, k, cache', t)
  BY <1>2, <1>3, <1>5, <1>12, MoveFacts
<1>14. /\ Full(cache', n, t) /\ n # 0 /\ t[1] = k /\ SameValues(c, cache')
       /\ SubList(n, s, n, t, 2, {k})
  BY <1>13 DEF Moved
<1>15. n \in Nat /\ \A i \in 2..n : i \in 1..n
  BY <1>1 DEF Full, Linked
<1>16. \A i \in 2..n : t[i] # k /\ t[i] \in DOMAIN c.node
  <2>1. \A i \in 2..n : t[i] \notin {k}
    BY <1>14 DEF SubList
  <2>2. \A i \in 1..n : t[i] \in DOMAIN cache'.node
    BY <1>14 DEF Full, Linked
  <2> QED BY <2>1, <2>2, <1>14, <1>15 DEF SameValues
<1>17. \A i \in 2..n : cache'.node[t[i]].val = cache.node[t[i]].val
  BY <1>5, <1>14, <1>16 DEF SameValues
<1>18. cache'.node[k].val = x
  BY <1>2, <1>5, <1>7, <1>14 DEF SameValues
<1>19. Stored(n, s, {k}, k, x, cache', n, t)
  BY <1>14, <1>17, <1>18 DEF Stored
<1>20. L!R!Displaced(L!R!Key(id, v)) = {}
  <2>1. PICK i \in 1..n : s[i] = k
    BY <1>1, <1>2 DEF Full
  <2>2. i \in L!R!IndexOf(L!R!Key(id, v))
    BY <1>1, <1>2, <2>1, IndexFacts
  <2> QED BY <2>2 DEF L!R!Displaced
<1>21. \A i \in 1..n : L!Parts(s[i]) \in {<<id, v>>} \cup L!R!Displaced(L!R!Key(id, v)) <=> s[i] \in {k}
  <2>1. \A i \in 1..n : L!Parts(s[i]) = <<id, v>> <=> s[i] = k
    BY <1>1, <1>2, IndexFacts
  <2> QED BY <2>1, <1>20
<1> QED
  BY <1>1, <1>2, <1>19, <1>21, StoreStep

\* Put of a new record while there is room.
LEMMA InsertStep ==
    ASSUME Nil \notin L!Keys, KeysSplit, Capacity \in Nat \ {0}, NEW n, NEW s, Full(cache, n, s),
           NEW id \in Ids, NEW v \in Versions, NEW x \in Vals,
           L!CacheKey(id, v) \notin DOMAIN cache.node, ~(n >= Capacity),
           cache' = L!PushFront(L!Insert(cache, L!CacheKey(id, v), x), L!CacheKey(id, v)),
           UNCHANGED got
    PROVE  CacheInv' /\ L!R!Store(L!R!Key(id, v), x)
<1>1. PICK k : k = L!CacheKey(id, v)
  OBVIOUS
<1>2. k \in L!Keys
  BY <1>1 DEF L!Keys
<1>3. PICK t : Inserted(cache, n, s, k, x, cache', t)
  BY <1>1, <1>2, InsertFacts
<1>4. /\ Full(cache', n + 1, t) /\ t[1] = k /\ cache'.node[k].val = x
      /\ \A y \in DOMAIN cache.node : cache'.node[y].val = cache.node[y].val
      /\ SubList(n, s, n + 1, t, 2, {k})
  BY <1>3 DEF Inserted
<1>5. n \in Nat /\ n + 1 # 0 /\ \A i \in 1..n : s[i] \in DOMAIN cache.node
  BY DEF Full, Linked
<1>6. \A i \in 2..(n + 1) : cache'.node[t[i]].val = cache.node[t[i]].val
  BY <1>4, <1>5 DEF SubList
<1>7. Stored(n, s, {k}, k, x, cache', n + 1, t)
  BY <1>4, <1>5, <1>6 DEF Stored
<1>8. /\ Len(L!RecordList(cache)) = n
      /\ \A i \in 1..n : L!Parts(s[i]) = <<id, v>> <=> s[i] = k
  BY <1>1, IndexFacts
<1>9. L!R!Displaced(L!R!Key(id, v)) = {}
  BY <1>8 DEF L!R!Displaced
<1>10. \A i \in 1..n : L!Parts(s[i]) \in {<<id, v>>} \cup L!R!Displaced(L!R!Key(id, v)) <=> s[i] \in {k}
  BY <1>8, <1>9
<1>11. n + 1 <= Capacity
  BY <1>5
<1> QED
  BY <1>1, <1>7, <1>10, <1>11, StoreStep

\* Put of a new record in a full cache.
LEMMA EvictStep ==
    ASSUME Nil \notin L!Keys, KeysSplit, Capacity \in Nat \ {0}, NEW n, NEW s, Full(cache, n, s),
           NEW id \in Ids, NEW v \in Versions, NEW x \in Vals,
           L!CacheKey(id, v) \notin DOMAIN cache.node, n = Capacity,
           cache' = L!PushFront(L!Insert(L!EvictLRU(cache), L!CacheKey(id, v), x), L!CacheKey(id, v)),
           UNCHANGED got
    PROVE  CacheInv' /\ L!R!Store(L!R!Key(id, v), x)
<1>1. PICK k : k = L!CacheKey(id, v)
  OBVIOUS
<1>2. k \in L!Keys
  BY <1>1 DEF L!Keys
<1>3. /\ n \in Nat /\ n # 0 /\ n \in 1..n /\ \A i \in 1..n : s[i] \in DOMAIN cache.node
      /\ (n - 1) + 1 = n /\ \A i, j \in 1..n : s[i] = s[j] => i = j
  BY DEF Full, Linked
<1>4. cache.tail = s[n] /\ s[n] \in DOMAIN cache.node /\ s[n] # Nil
  BY <1>3 DEF Full, Linked, Shape
<1>5. PICK d : d = L!EvictLRU(cache)
  OBVIOUS
<1>6. d = L!Delete(cache, s[n])
  BY <1>4, <1>5 DEF L!EvictLRU
<1>7. Shrunk(cache, n, s, {}, cache, n, s)
  BY ShrunkNot, Zenon
<1>8. PICK u : Shrunk(cache, n, s, {} \cup {s[n]}, d, n - 1, u)
  BY <1>3, <1>4, <1>6, <1>7, DeleteMore, Zenon
<1>9. /\ Full(d, n - 1, u) /\ Carried(cache, d) /\ DOMAIN d.node = DOMAIN cache.node \ {s[n]}
      /\ SubList(n, s, n - 1, u, 1, {s[n]})
  <2>1. {} \cup {s[n]} = {s[n]}
    OBVIOUS
  <2> QED BY <1>8, <2>1 DEF Shrunk
<1>10. k \notin DOMAIN d.node
  BY <1>1, <1>9
<1>11. PICK t : Inserted(d, n - 1, u, k, x, cache', t)
  BY <1>1, <1>2, <1>5, <1>9, <1>10, InsertFacts
<1>12. /\ Full(cache', n, t) /\ t[1] = k /\ cache'.node[k].val = x
       /\ \A y \in DOMAIN d.node : cache'.node[y].val = d.node[y].val
       /\ SubList(n - 1, u, n, t, 2, {k})
  BY <1>3, <1>11 DEF Inserted
<1>13. Injective(n - 1, u) /\ \A i \in 1..(n - 1) : u[i] \in DOMAIN d.node
  BY <1>9 DEF Full, Linked, Injective
<1>14. SubList(n, s, n, t, 2, {s[n]} \cup {k})
  BY <1>3, <1>9, <1>12, <1>13, SubTrans, Zenon
<1>15. \A i \in 2..n : cache'.node[t[i]].val = cache.node[t[i]].val
  <2>1. \A i \in 2..n : t[i] \in DOMAIN d.node
    BY <1>12, <1>13 DEF SubList
  <2> QED BY <2>1, <1>9, <1>12 DEF Carried
<1>16. PICK K : K = {s[n]} \cup {k}
  OBVIOUS
<1>17. Stored(n, s, K, k, x, cache', n, t)
  BY <1>3, <1>12, <1>14, <1>15, <1>16 DEF Stored
<1>18. /\ Len(L!RecordList(cache)) = n
       /\ \A i \in 1..n : L!Parts(s[i]) = <<id, v>> <=> s[i] = k
       /\ \A i \in 1..n : i \in L!R!IndexOf(L!R!Key(id, v)) <=> s[i] = k
       /\ L!R!IndexOf(L!R!Key(id, v)) \subseteq 1..n
  BY <1>1, IndexFacts
<1>19. L!R!IndexOf(L!R!Key(id, v)) = {}
  BY <1>1, <1>3, <1>18
<1>20. Listing(cache, n, s, L!RecordList(cache))
  BY EntriesFacts, Zenon
<1>21. L!RecordList(cache)[n].key = L!Parts(s[n])
  BY <1>3, <1>20 DEF Listing, Rec
<1>22. L!R!Displaced(L!R!Key(id, v)) = {L!Parts(s[n])}
  BY <1>18, <1>19, <1>21 DEF L!R!Displaced
<1>23. ASSUME NEW i \in 1..n PROVE L!Parts(s[i]) = L!Parts(s[n]) <=> s[i] = s[n]
  <2>1. s[n] \in L!Keys
    BY <1>4 DEF Full, Shape
  <2>2. PICK j \in Ids, w \in Versions : s[n] = L!CacheKey(j, w)
    BY <2>1 DEF L!Keys
  <2>3. L!Parts(s[n]) = <<j, w>>
    BY <2>2 DEF KeysSplit
  <2>4. L!Parts(s[i]) = <<j, w>> <=> s[i] = L!CacheKey(j, w)
    BY IndexFacts
  <2> QED BY <2>2, <2>3, <2>4
<1>24. \A i \in 1..n : L!Parts(s[i]) \in {<<id, v>>} \cup L!R!Displaced(L!R!Key(id, v)) <=> s[i] \in K
  BY <1>16, <1>18, <1>22, <1>23
<1> QED
  BY <1>1, <1>17, <1>24, StoreStep

\* Invalidate.
LEMMA ForgetStep ==
    ASSUME NEW S, Ids \in SUBSET Seq(S), Nil \notin L!Keys, KeysSplit, Capacity \in Nat, CacheInv,
           NEW id \in Ids, L!Invalidate(id)
    PROVE  CacheInv' /\ L!R!Forget(id)
<1>1. PICK n, s : Full(cache, n, s) /\ n <= Capacity
  BY DEF CacheInv
<1>2. PICK H : H = {k \in DOMAIN cache.node : Len(k) > Len(id) /\ SubSeq(k, 1, Len(id)) = id}
  OBVIOUS
<1>3. PICK ks \in L!Orders(H) : cache' = L!DeleteAll(cache, ks)
  BY <1>2 DEF L!Invalidate
<1>4. H \in SUBSET DOMAIN cache.node
  BY <1>2
<1>5. Invalidated(cache, n, s, H, cache')
  BY <1>1, <1>3, <1>4, DeleteAllFacts
<1>6. PICK m, t : Shrunk(cache, n, s, H, cache', m, t)
  BY <1>5 DEF Invalidated
<1>7. Full(cache', m, t) /\ Carried(cache, cache') /\ SubList(n, s, m, t, 1, H)
  BY <1>6 DEF Shrunk
<1>8. \A i \in 1..m : cache'.node[t[i]].val = cache.node[t[i]].val
  BY <1>7 DEF Carried, Full, Linked
<1>9. PICK o, p : o = L!RecordList(cache) /\ p = L!RecordList(cache')
  OBVIOUS
<1>10. Listing(cache, n, s, o) /\ Listing(cache', m, t, p)
  BY <1>1, <1>7, <1>9, EntriesFacts, Zenon
<1> DEFINE A == {L!R!Key(i, v) : i \in {j \in Ids : L!R!Continues(j, id)}, v \in Versions}
<1>12. ASSUME NEW i \in 1..n PROVE L!Parts(s[i]) \in A <=> s[i] \in H
  <2>1. s[i] \in DOMAIN cache.node /\ s[i] \in L!Keys
    BY <1>1 DEF Full, Linked, Shape
  <2>2. PICK j \in Ids, w \in Versions : s[i] = L!CacheKey(j, w)
    BY <2>1 DEF L!Keys
  <2>3. j \in Seq(S) /\ id \in Seq(S)
    OBVIOUS
  <2>4. (Len(s[i]) > Len(id) /\ SubSeq(s[i], 1, Len(id)) = id) <=> L!R!Continues(j, id)
    BY <2>2, <2>3, KeyFacts
  <2>5. s[i] \in H <=> L!R!Continues(j, id)
    BY <1>2, <2>1, <2>4
  <2>6. L!Parts(s[i]) = <<j, w>>
    BY <2>2 DEF KeysSplit
  <2>7. <<j, w>> \in A <=> L!R!Continues(j, id)
    BY DEF L!R!Key
  <2> QED BY <2>5, <2>6, <2>7
<1>13. KeepIn(o, p, 1, A)
  <2> HIDE DEF A
  <2> QED BY <1>7, <1>8, <1>10, <1>12, KeepsRecords
<1>14. L!R!Keep(1, A)
  <2> HIDE DEF A
  <2> QED BY <1>9, <1>13, KeptHere
<1>15. UNCHANGED got
  BY DEF L!Invalidate
<1>16. CacheInv'
  <2>1. m \in Nat /\ n \in Nat /\ IsFiniteSet(DOMAIN cache.node)
        /\ Cardinality(DOMAIN cache.node) = n /\ Cardinality(DOMAIN cache'.node) = m
    BY <1>1, <1>7, FullCardinality, CacheCardinality
  <2>2. DOMAIN cache'.node \in SUBSET DOMAIN cache.node
    BY <1>6 DEF Shrunk
  <2>3. m <= n
    BY <2>1, <2>2, FS_Subset
  <2> QED BY <1>1, <1>7, <2>1, <2>3 DEF CacheInv
<1> QED
  BY <1>14, <1>15, <1>16 DEF L!R!Forget

\* A key gives back the ID and version it was made of.
LEMMA KeysAreSplit ==
    ASSUME NEW S, Ids \in SUBSET Seq(S)
    PROVE  KeysSplit
<1> SUFFICES ASSUME NEW id \in Ids, NEW v \in Versions PROVE L!Parts(L!CacheKey(id, v)) = <<id, v>>
  BY DEF KeysSplit
<1>1. id \in Seq(S)
  OBVIOUS
<1> QED
  BY <1>1, KeyFacts

\* The list is whole and within its capacity, and every method is one of
\* Recency.
LEMMA CacheSteps ==
    ASSUME NEW S, Ids \in SUBSET Seq(S), Nil \notin L!Keys, Capacity \in Nat \ {0}
    PROVE  /\ L!Init => CacheInv /\ L!R!Init
           /\ CacheInv /\ [L!Next]_L!vars => CacheInv' /\ [L!R!Next]_<<L!RecordList(cache), got>>
<1>0. KeysSplit
  BY KeysAreSplit
<1>1. L!Init => CacheInv /\ L!R!Init
  <2> SUFFICES ASSUME L!Init PROVE CacheInv /\ L!R!Init
    OBVIOUS
  <2>1. PICK s : s = [i \in 1..0 |-> Nil]
    OBVIOUS
  <2>2. /\ cache = [node |-> cache.node, head |-> Nil, tail |-> Nil]
        /\ cache.head = Nil /\ cache.tail = Nil /\ cache.node = [k \in {} |-> Nil]
    BY DEF L!Init
  <2>3. DOMAIN cache.node = {} /\ cache.node \in [DOMAIN cache.node -> Entry]
    BY <2>2
  <2>4. Shape(cache)
    BY <2>2, <2>3 DEF Shape, Links
  <2>5. Linked(cache, 0, s)
    BY <2>1, <2>2, <2>3 DEF Linked
  <2>6. Full(cache, 0, s)
    BY <2>3, <2>4, <2>5 DEF Full
  <2>7. Listing(cache, 0, s, L!RecordList(cache))
    BY <1>0, <2>6, EntriesFacts, Zenon
  <2>8. L!RecordList(cache) = <<>>
    BY <2>7 DEF Listing
  <2> QED BY <2>6, <2>8 DEF CacheInv, L!R!Init, L!Init
<1>2. CacheInv /\ [L!Next]_L!vars => CacheInv' /\ [L!R!Next]_<<L!RecordList(cache), got>>
  <2> SUFFICES ASSUME CacheInv, [L!Next]_L!vars
               PROVE  CacheInv' /\ [L!R!Next]_<<L!RecordList(cache), got>>
    OBVIOUS
  <2>1. CASE UNCHANGED L!vars
    <3>1. cache' = cache /\ got' = got
      BY <2>1 DEF L!vars
    <3>2. L!RecordList(cache') = L!RecordList(cache)
      BY <3>1
    <3> QED BY <3>1, <3>2 DEF CacheInv
  <2>2. ASSUME NEW id \in Ids, NEW v \in Versions, L!Get(id, v)
        PROVE  CacheInv' /\ L!R!Next
    <3>1. CASE L!CacheKey(id, v) \in DOMAIN cache.node
      <4>1. /\ cache' = L!MoveToFront(cache, L!CacheKey(id, v))
            /\ got' = cache.node[L!CacheKey(id, v)].val
        BY <2>2, <3>1 DEF L!Get
      <4>2. CacheInv' /\ L!R!Hit(L!R!Key(id, v))
        BY <1>0, <3>1, <4>1, HitStep
      <4> QED BY <4>2 DEF L!R!Next
    <3>2. CASE L!CacheKey(id, v) \notin DOMAIN cache.node
      <4>1. got' = Nil /\ UNCHANGED cache
        BY <2>2, <3>2 DEF L!Get
      <4>2. CacheInv' /\ L!R!Miss(L!R!Key(id, v))
        BY <1>0, <3>2, <4>1, MissStep
      <4> QED BY <4>2 DEF L!R!Next
    <3> QED BY <3>1, <3>2
  <2>3. ASSUME NEW id \in Ids, NEW v \in Versions, NEW x \in Vals, L!Put(id, v, x)
        PROVE  CacheInv' /\ L!R!Next
    <3>1. PICK n, s : Full(cache, n, s) /\ n <= Capacity
      BY DEF CacheInv
    <3>2. L!Cardinality(DOMAIN cache.node) = n
      BY <3>1, FullCardinality, Zenon
    <3>3. UNCHANGED got
      BY <2>3 DEF L!Put
    <3>4. CacheInv' /\ L!R!Store(L!R!Key(id, v), x)
      <4>1. CASE L!CacheKey(id, v) \in DOMAIN cache.node
        <5>1. cache' = L!MoveToFront([cache EXCEPT !.node[L!CacheKey(id, v)].val = x], L!CacheKey(id, v))
          BY <2>3, <4>1, Zenon DEF L!Put
        <5> QED BY <1>0, <3>3, <4>1, <5>1, UpdateStep
      <4>2. CASE L!CacheKey(id, v) \notin DOMAIN cache.node /\ n >= Capacity
        <5>0. n = Capacity
          BY <3>1, <4>2 DEF Full, Linked
        <5>1. cache' = L!PushFront(L!Insert(L!EvictLRU(cache), L!CacheKey(id, v), x), L!CacheKey(id, v))
          BY <2>3, <3>2, <4>2 DEF L!Put
        <5> QED BY <1>0, <3>1, <3>3, <4>2, <5>0, <5>1, EvictStep
      <4>3. CASE L!CacheKey(id, v) \notin DOMAIN cache.node /\ ~(n >= Capacity)
        <5>1. cache' = L!PushFront(L!Insert(cache, L!CacheKey(id, v), x), L!CacheKey(id, v))
          BY <2>3, <3>2, <4>3 DEF L!Put
        <5> QED BY <1>0, <3>1, <3>3, <4>3, <5>1, InsertStep
      <4> QED BY <4>1, <4>2, <4>3
    <3> QED BY <3>4 DEF L!R!Next
  <2>4. ASSUME NEW id \in Ids, L!Invalidate(id)
        PROVE  CacheInv' /\ L!R!Next
    <3>1. CacheInv' /\ L!R!Forget(id)
      BY <1>0, <2>4, ForgetStep
    <3> QED BY <3>1 DEF L!R!Next
  <2> QED BY <2>1, <2>2, <2>3, <2>4 DEF L!Next
<1> QED
  BY <1>1, <1>2

\* lru.go: the map and the doubly linked list implement one sequence of
\* records in order of last use, for every capacity, every set of records and
\* every order in which Invalidate ranges over the map.  IDs are sequences of
\* parts, and no key is nil.
THEOREM CacheImplementsRecency ==
    ASSUME NEW S, Ids \in SUBSET Seq(S), Nil \notin L!Keys, Capacity \in Nat \ {0}
    PROVE  L!Spec => ImplementsRecency
BY CacheSteps, PTL DEF L!Spec, L!R!Spec, ImplementsRecency, L!ImplementsRecency

\* lru.go: the cache never holds more records than its capacity and none
\* twice, for every capacity and every order of calls.
THEOREM CacheStaysBounded ==
    ASSUME NEW S, Ids \in SUBSET Seq(S), Nil \notin L!Keys, Capacity \in Nat \ {0}
    PROVE  L!Spec => []CacheBounded
<1>0. KeysSplit
  BY KeysAreSplit
<1>1. CacheInv => CacheBounded
  <2> SUFFICES ASSUME CacheInv PROVE L!Bounded
    BY DEF CacheBounded
  <2>1. PICK n, s : Full(cache, n, s) /\ n <= Capacity
    BY DEF CacheInv
  <2>2. PICK o : o = L!RecordList(cache)
    OBVIOUS
  <2>3. Listing(cache, n, s, o)
    BY <1>0, <2>1, <2>2, EntriesFacts, Zenon
  <2>4. n \in Nat /\ DOMAIN o = 1..n /\ Len(o) = n /\ \A i \in 1..n : o[i].key = L!Parts(s[i])
    BY <2>3 DEF Listing, Rec
  <2>5. ASSUME NEW i \in 1..n, NEW j \in 1..n, o[i].key = o[j].key PROVE i = j
    <3>1. s[j] \in L!Keys /\ L!Parts(s[i]) = L!Parts(s[j])
      BY <2>1, <2>4, <2>5 DEF Full, Linked, Shape
    <3>2. PICK id \in Ids, v \in Versions : s[j] = L!CacheKey(id, v)
      BY <3>1 DEF L!Keys
    <3>3. L!Parts(s[j]) = <<id, v>>
      BY <1>0, <3>2 DEF KeysSplit
    <3>4. s[i] = s[j]
      BY <1>0, <2>1, <3>1, <3>2, <3>3, IndexFacts
    <3> QED BY <2>1, <3>4 DEF Full, Linked
  <2> QED BY <2>1, <2>2, <2>4, <2>5 DEF L!Bounded
<1> QED
  BY <1>1, CacheSteps, PTL DEF L!Spec

=============================================================================
