--------------------------- MODULE LicenseLineage ---------------------------
(***************************************************************************)
(* What the licenses module promises about versions of a license, with no  *)
(* request, file, condition or transaction in sight: a license is          *)
(* registered, and a renewal in one indivisible step adds a version after  *)
(* a license that exists and archives that license.  Nothing else happens  *)
(* to a version: it is never deleted, never leaves the archive, and never  *)
(* changes the version it renews.                                          *)
(*                                                                         *)
(* Renew does not ask that the license be current: two renewals of one     *)
(* license that both pass the archived check may both commit.              *)
(***************************************************************************)
CONSTANTS Licenses, None

VARIABLES
    state,         \* ABSENT, CURRENT or ARCHIVED
    predecessor    \* the version this one renews

lineage == <<state, predecessor>>

Init ==
    /\ state = [l \in Licenses |-> "ABSENT"]
    /\ predecessor = [l \in Licenses |-> None]

Register(new) ==
    /\ state[new] = "ABSENT"
    /\ state' = [state EXCEPT ![new] = "CURRENT"]
    /\ UNCHANGED predecessor

Renew(old, new) ==
    /\ state[old] # "ABSENT"
    /\ state[new] = "ABSENT"
    /\ state' = [state EXCEPT ![new] = "CURRENT", ![old] = "ARCHIVED"]
    /\ predecessor' = [predecessor EXCEPT ![new] = old]

Next == \E new \in Licenses :
            Register(new) \/ \E old \in Licenses : Renew(old, new)

Spec == Init /\ [][Next]_lineage

-----------------------------------------------------------------------------

TypeOK ==
    /\ state \in [Licenses -> {"ABSENT", "CURRENT", "ARCHIVED"}]
    /\ predecessor \in [Licenses -> Licenses \cup {None}]

(* A license is archived exactly when some license renews it: no renewal    *)
(* leaves its predecessor current, and nothing is archived without a        *)
(* successor (the two writes of PrismaLicenseRepository.renew).             *)
ArchivedIffRenewed ==
    \A l \in Licenses :
        state[l] = "ARCHIVED" <=> \E m \in Licenses : predecessor[m] = l

(* Only a license that exists renews another. *)
OnlyLicensesRenew ==
    \A l \in Licenses : state[l] = "ABSENT" => predecessor[l] = None

(* Following previousLicenseId always ends: no set of licenses is closed    *)
(* under it.  ListLicenseHistoryUseCase walks this chain.                   *)
HistoryWellFounded ==
    \A S \in SUBSET Licenses :
        S # {} => \E l \in S : predecessor[l] \notin S

(* Nothing renews, or is renewed by, a license that does not exist: what    *)
(* makes the two properties inductive.                                      *)
Inv == TypeOK /\ ArchivedIffRenewed /\ OnlyLicensesRenew
=============================================================================
