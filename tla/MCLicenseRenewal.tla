-------------------------- MODULE MCLicenseRenewal --------------------------
(* Small instances of LicenseRenewal for TLC.                               *)
EXTENDS LicenseRenewal, TLC

CONSTANTS r1, l1

(* Requests, licenses and conditions are interchangeable. *)
Symmetry == Permutations(Requests) \cup Permutations(Licenses)
                \cup Permutations(Conditions)

(* A state Spec reaches in three steps: request r1 has registered license   *)
(* l1.  Starting there leaves the other requests for renewals of it.        *)
RegisteredInit ==
    /\ status = [l \in Licenses |-> IF l = l1 THEN "CURRENT" ELSE "ABSENT"]
    /\ previous = [l \in Licenses |-> None]
    /\ documentUrl = [l \in Licenses |-> IF l = l1 THEN r1 ELSE None]
    /\ condLicense = [c \in Conditions |-> None]
    /\ condStatus = [c \in Conditions |-> "UNUSED"]
    /\ completion = [c \in Conditions |-> None]
    /\ stored = {r1}
    /\ pc = [r \in Requests |-> IF r = r1 THEN "done" ELSE "idle"]
    /\ job = [r \in Requests |-> NoJob]
    /\ tx = [r \in Requests |-> NoTransaction]

RegisteredSpec == RegisteredInit /\ [][Next]_vars

(* What RegisteredInit leaves interchangeable. *)
RegisteredSymmetry == Permutations(Requests \ {r1})
                          \cup Permutations(Licenses \ {l1})
                          \cup Permutations(Conditions)
=============================================================================
