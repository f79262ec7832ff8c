-------------------------- MODULE MCLicenseHistory --------------------------
(* A small instance of LicenseHistory for TLC.                              *)
EXTENDS LicenseHistory

(* Versions and customers are interchangeable. *)
Symmetry == Permutations(Versions) \cup Permutations(Customers)
=============================================================================
