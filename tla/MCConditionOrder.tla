--------------------------- MODULE MCConditionOrder ---------------------------
(* A small instance of ConditionOrder for TLC.                               *)
EXTENDS ConditionOrder

(* Requests, licenses and descriptors are interchangeable. *)
Symmetry == Permutations(Requests) \cup Permutations(Licenses)
                \cup Permutations(Descriptors)
=============================================================================
