--------------------------- MODULE MCMaintenance ---------------------------
(* Maintenance for TLC.  Callers are interchangeable.                         *)
(* Redactions act field by field, so that contents whose fields change        *)
(* together show every case of a single field.  The entity changes with every *)
(* tick of the clock: a call versions what the entity is when it is stamped.  *)
(* A behaviour has either calls of Version that race one another, or passes   *)
(* next to one call at a time.                                                *)
EXTENDS Maintenance, TLC

UniformContents == {[f \in Fields |-> x] : x \in Vals}

Symmetry == Permutations(Callers)

VARIABLE passes     \* this behaviour is about passes

Racing == \E c, d \in Callers : c # d /\ call[c].pc # "idle" /\ call[d].pc # "idle"

\* Every stamped call has the content of its tick.
OfItsTick ==
    \A c \in Callers : call[c].pc \in {"stamped", "sealed"} => call[c].data = [f \in Fields |-> call[c].born]

MCInit == Init /\ passes \in BOOLEAN

MCNext ==
    /\ Next
    /\ IF passes THEN ~Racing' ELSE Active' = {}
    /\ OfItsTick'
    /\ UNCHANGED passes

MCSpec == MCInit /\ [][MCNext]_<<vars, passes>>
=============================================================================
