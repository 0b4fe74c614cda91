----------------------------- MODULE TypeCache -----------------------------
(***************************************************************************)
(* Engine.getOrBuildMeta of domain/diff/engine.go: the metadata of struct  *)
(* types, built on first use by goroutines that diff at the same time and  *)
(* never given up again.  A Diff looks up the type of the entity and those *)
(* of the structs inside it, one after the other; the first lookup that is *)
(* refused makes it return ErrDiff, and Version then stores a full record. *)
(***************************************************************************)
EXTENDS Naturals, Sequences, FiniteSets

CONSTANTS
    Differs,    \* goroutines that call Diff
    Walks,      \* sequences of types a Diff meets
    MaxTypes    \* Engine.maxTypes; 0 is no limit

VARIABLES
    metas,      \* the types in the cache
    walk,       \* the types a call still has to look up
    step        \* "idle", "look", "build" or "refused"

vars == <<metas, walk, step>>

\* A call of Diff, also after one that was refused.
Diff(d, w) ==
    /\ step[d] \in {"idle", "refused"}
    /\ walk' = [walk EXCEPT ![d] = w]
    /\ step' = [step EXCEPT ![d] = "look"]
    /\ UNCHANGED metas

\* Read lock: a hit goes on with the next type.
Look(d) ==
    /\ step[d] = "look"
    /\ \/ /\ walk[d] = <<>>
          /\ step' = [step EXCEPT ![d] = "idle"]
          /\ UNCHANGED walk
       \/ /\ walk[d] # <<>> /\ Head(walk[d]) \in metas
          /\ walk' = [walk EXCEPT ![d] = Tail(@)]
          /\ UNCHANGED step
       \/ /\ walk[d] # <<>> /\ Head(walk[d]) \notin metas
          /\ step' = [step EXCEPT ![d] = "build"]
          /\ UNCHANGED walk
    /\ UNCHANGED metas

Full == MaxTypes > 0 /\ Cardinality(metas) >= MaxTypes

\* Under the write lock without looking for the type again.
InsertUnchecked(d) ==
    /\ step[d] = "build"
    /\ IF Full
         THEN step' = [step EXCEPT ![d] = "refused"] /\ UNCHANGED <<metas, walk>>
         ELSE /\ metas' = metas \cup {Head(walk[d])}
              /\ walk' = [walk EXCEPT ![d] = Tail(@)]
              /\ step' = [step EXCEPT ![d] = "look"]

\* Write lock: another goroutine may have added the type since the lookup.
Insert(d) ==
    /\ step[d] = "build"
    /\ IF Full /\ Head(walk[d]) \notin metas
         THEN step' = [step EXCEPT ![d] = "refused"] /\ UNCHANGED <<metas, walk>>
         ELSE /\ metas' = metas \cup {Head(walk[d])}
              /\ walk' = [walk EXCEPT ![d] = Tail(@)]
              /\ step' = [step EXCEPT ![d] = "look"]

Init ==
    /\ metas = {}
    /\ walk = [d \in Differs |-> <<>>]
    /\ step = [d \in Differs |-> "idle"]

Next == \E d \in Differs : (\E w \in Walks : Diff(d, w)) \/ Look(d) \/ Insert(d)

Spec == Init /\ [][Next]_vars

-----------------------------------------------------------------------------
(* Properties *)

\* The cache keeps its bound, and a type is refused only when it is full of
\* others.  Types are never removed: a refused type stays refused, and one
\* that was diffed once is diffed by every later call, whatever races with it.
RefusedOnlyWhenFull ==
    /\ MaxTypes > 0 => Cardinality(metas) <= MaxTypes
    /\ \A d \in Differs : step[d] = "refused" => Head(walk[d]) \notin metas /\ Full
=============================================================================
