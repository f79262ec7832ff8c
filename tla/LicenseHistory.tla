--------------------------- MODULE LicenseHistory ---------------------------
(***************************************************************************)
(* The renewal history of a license (ListLicenseHistoryUseCase): the       *)
(* versions that replaced it and the versions it replaced, newest first.   *)
(*                                                                         *)
(* The request reads twice, and renewals may commit in between: first the  *)
(* license it was asked about, then all the licenses of that customer.     *)
(* The writes are those of LicenseLineage, with the customer and the       *)
(* creation stamp of each version.  Two renewals of the same license never *)
(* share a stamp: the database lets only one of two concurrent ones commit.*)
(***************************************************************************)
EXTENDS Naturals, SequencesExt

CONSTANTS
    Versions,      \* ids of license rows
    Customers,
    Nil            \* SQL NULL

ASSUME VersionsAssumption == Nil \notin Versions \cup Customers

VARIABLES
    state,         \* licenses.status: ABSENT, CURRENT or ARCHIVED
    predecessor,   \* licenses.previous_license_id
    customer,      \* licenses.customer_id
    created,       \* licenses.created_at, as a rank
    reading,       \* the license the open request loaded, as it was then
    answer         \* what the last request answered: versions, newest first

historyVars == <<state, predecessor, customer, created, reading, answer>>
written == <<state, predecessor, customer, created>>

Ancestry == INSTANCE LicenseLineage WITH Licenses <- Versions, None <- Nil

NotReading == [id |-> Nil, status |-> "ABSENT"]

-----------------------------------------------------------------------------
(* The walk *)

Known(l) == state[l] # "ABSENT"

Newest(S) == CHOOSE l \in S : \A m \in S : created[m] <= created[l]
Oldest(S) == CHOOSE l \in S : \A m \in S : created[l] <= created[m]

(* findAllByCustomerId *)
LicensesOf(c) == {l \in Versions : Known(l) /\ customer[l] = c}

(* The licenses of the list that renew l. *)
RenewalsListed(l) == {m \in LicensesOf(customer[l]) : predecessor[m] = l}

MutantRenewal ==
    [l \in Versions |->
        IF RenewalsListed(l) = {} THEN Nil ELSE Newest(RenewalsListed(l))]

(* renewalByPreviousId: "Oldest renewal wins if a license was ever renewed  *)
(* twice".                                                                  *)
Renewal ==
    [l \in Versions |->
        IF RenewalsListed(l) = {} THEN Nil ELSE Oldest(RenewalsListed(l))]

(* The license l renews, looked up in byId. *)
Previous ==
    [l \in Versions |->
        IF predecessor[l] \in LicensesOf(customer[l]) THEN predecessor[l]
        ELSE Nil]

Seen(s, m) == \E k \in DOMAIN s : s[k] = m

(* One pass of the loop over "next", and of the loop over "previous": each  *)
(* stops at the end of the line and at a version that was seen.             *)
AddNewer ==
    [s \in Seq(Versions) |->
        LET next == Renewal[s[1]]
        IN IF next = Nil \/ Seen(s, next) THEN s ELSE <<next>> \o s]

MutantAddOlder == [s \in Seq(Versions) |->
    IF Len(s) > 2 \/ Previous[Last(s)] = Nil THEN s
    ELSE Append(s, Previous[Last(s)])]

AddOlder ==
    [s \in Seq(Versions) |->
        LET previous == Previous[Last(s)]
        IN IF previous = Nil \/ Seen(s, previous) THEN s
           ELSE Append(s, previous)]

(* The versions listed for l; no line is longer than the set of licenses. *)
Chain(l) ==
    LET last == Cardinality(Versions)
        newer[k \in 0..last] == IF k = 0 THEN <<l>> ELSE AddNewer[newer[k - 1]]
        older[k \in 0..last] ==
            IF k = 0 THEN newer[last] ELSE AddOlder[older[k - 1]]
    IN older[last]

-----------------------------------------------------------------------------

HistoryInit ==
    /\ Ancestry!Init
    /\ customer = [l \in Versions |-> Nil]
    /\ created = [l \in Versions |-> 0]
    /\ reading = NotReading
    /\ answer = <<>>

Stamp(new) ==
    created' = [created EXCEPT ![new] =
                  1 + Cardinality({l \in Versions : Known(l)})]

Register(new, c) ==
    /\ Ancestry!Register(new)
    /\ customer' = [customer EXCEPT ![new] = c]
    /\ Stamp(new)
    /\ UNCHANGED <<reading, answer>>

MutantHeir(old) == CHOOSE c \in Customers : TRUE
(* RenewLicenseUseCase: the new version belongs to the customer of the one  *)
(* it renews.                                                               *)
Heir(old) == customer[old]

Renew(old, new) ==
    /\ Ancestry!Renew(old, new)
    /\ customer' = [customer EXCEPT ![new] = Heir(old)]
    /\ Stamp(new)
    /\ UNCHANGED <<reading, answer>>

(* findByIdForOwner *)
ReadRequested(l) ==
    /\ reading = NotReading
    /\ Known(l)
    /\ reading' = [id |-> l, status |-> state[l]]
    /\ answer' = <<>>
    /\ UNCHANGED written

MutantShown(l) == [id |-> l, status |-> reading.status]

(* A version of the answer: the requested one is the object the first read  *)
(* returned, the others come from the list.                                 *)
Shown(l) ==
    [id |-> l, status |-> IF l = reading.id THEN reading.status ELSE state[l]]

(* findAllByCustomerId, the walk and the answer: nothing awaits in between. *)
AnswerHistory ==
    /\ reading # NotReading
    /\ \E ids \in {Chain(reading.id)} :
          answer' = [k \in DOMAIN ids |-> Shown(ids[k])]
    /\ reading' = NotReading
    /\ UNCHANGED written

HistoryNext ==
    \/ \E new \in Versions, c \in Customers : Register(new, c)
    \/ \E old, new \in Versions : Renew(old, new)
    \/ \E l \in Versions : ReadRequested(l)
    \/ AnswerHistory

HistorySpec == HistoryInit /\ [][HistoryNext]_historyVars

-----------------------------------------------------------------------------
(* Properties *)

Answers == reading # NotReading /\ reading' = NotReading

(* A history is a whole line of versions: it holds the requested license,   *)
(* each version renews the one listed after it, the last renews nothing and *)
(* nothing renews the first, not even a renewal that committed between the  *)
(* two reads ("loading that customer's licenses once ... is enough to walk  *)
(* it both ways").                                                          *)
HistoryIsWholeLine ==
    [][Answers =>
         /\ \E k \in DOMAIN answer' : answer'[k].id = reading.id
         /\ \A k \in DOMAIN answer' :
              predecessor[answer'[k].id] =
                 IF k = Len(answer') THEN Nil ELSE answer'[k + 1].id
         /\ \A m \in Versions : predecessor[m] # answer'[1].id]_historyVars

(* Only the requested license may be shown with a status that is out of     *)
(* date when the answer is built, and then a renewal overtook the request:  *)
(* it is shown as current under the version that archived it.  Every other  *)
(* version but the newest is shown as archived.                             *)
OnlyRequestedMayBeStale ==
    [][Answers =>
         \A k \in DOMAIN answer' :
            \/ answer'[k].status = IF k = 1 THEN "CURRENT" ELSE "ARCHIVED"
            \/ answer'[k] = reading /\ k > 1]_historyVars

(* What the history of a license lists never changes except by newer        *)
(* versions on top: a second renewal of a version that was already renewed  *)
(* does not replace the line shown before.                                  *)
HistoryOnlyGrows ==
    [][\A l \in Versions : Known(l) =>
            IsSuffix(Chain(l), Chain(l)')]_historyVars

(* While no version was renewed twice, every version of a line shows the    *)
(* same history.                                                            *)
SameHistoryForAll ==
    (\A l \in Versions :
        Cardinality({m \in Versions : predecessor[m] = l}) <= 1)
    => \A l \in Versions : Known(l) =>
          \E line \in {Chain(l)} :
             \A k \in DOMAIN line : Chain(line[k]) = line
=============================================================================
