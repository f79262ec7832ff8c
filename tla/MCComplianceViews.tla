------------------------- MODULE MCComplianceViews -------------------------
(* A small instance of ComplianceViews for TLC: two ticks a day, windows of *)
(* no more than a day.                                                      *)
EXTENDS ComplianceViews, TLC

(* Licenses and conditions are interchangeable. *)
Symmetry == Permutations(Licenses) \cup Permutations(Conditions)
=============================================================================
