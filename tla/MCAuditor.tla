------------------------------ MODULE MCAuditor -----------------------------
(* Auditor on small instances.  Calls, entities and values of a field are  *)
(* interchangeable.                                                       *)
EXTENDS AuditorRefinement, TLC

Symmetry == Permutations(Calls) \cup Permutations(Entities) \cup Permutations(Vals)

=============================================================================
