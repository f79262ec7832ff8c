---------------------------- MODULE OwnPortfolio ----------------------------
(* What the portfolio looks like to one owner: a store of companies of its  *)
(* own.  Every answer it gets, even a refusal, is explained by these        *)
(* companies alone; CustomerPortfolio is shown to implement this for every  *)
(* owner, whatever the others do.                                           *)
CONSTANTS Requests, CustomerIds, None

VARIABLES
    mine,         \* the owner's companies
    told          \* what its requests have been answered

Holds(document) == {i \in CustomerIds : mine[i] # None
                                          /\ mine[i].document = document}
Listed == {i \in CustomerIds : mine[i] # None /\ ~mine[i].removed}

Tell(r, what, about) ==
    told[r] = None /\ told' = [told EXCEPT ![r] = <<what, about>>]

Create(r) ==
    \E i \in CustomerIds :
        /\ mine[i] = None /\ mine'[i] # None
        /\ Holds(mine'[i].document) = {} /\ ~mine'[i].removed
        /\ mine' = [mine EXCEPT ![i] = mine'[i]]
        /\ Tell(r, "created", i)

(* A duplicate is a company the owner has, or had, itself. *)
Conflict(r) ==
    \E i \in CustomerIds :
        /\ mine[i] # None
        /\ Tell(r, "conflict", mine[i].document)
        /\ UNCHANGED mine

Update(r) ==
    \E i \in CustomerIds :
        /\ mine[i] # None /\ mine'[i] # None
        /\ Holds(mine'[i].document) \subseteq {i}
        /\ mine'[i].removed = mine[i].removed
        /\ mine' = [mine EXCEPT ![i] = mine'[i]]
        /\ Tell(r, "updated", i)

(* An update to a document is only refused for another company of its own.  *)
Duplicate(r) ==
    \E i, j \in CustomerIds :
        /\ i # j /\ mine[i] # None /\ mine[j] # None
        /\ Tell(r, "error", <<i, mine[j].document>>)
        /\ UNCHANGED mine

Remove(r) ==
    \E i \in CustomerIds :
        /\ mine[i] # None
        /\ mine' = [mine EXCEPT ![i].removed = TRUE]
        /\ Tell(r, "removed", i)

NotFound(r) ==
    \E i \in CustomerIds \ Listed : Tell(r, "notFound", i) /\ UNCHANGED mine

Found(r) == \E i \in Listed : Tell(r, "found", i) /\ UNCHANGED mine
List(r) == Tell(r, "listed", Listed) /\ UNCHANGED mine

(* A bad request, or a failure, which is about no company. *)
Refused(r) ==
    \E what \in {"unknownSector", "noAddress", "error"} :
        Tell(r, what, None) /\ UNCHANGED mine

Init ==
    /\ told = [r \in Requests |-> None]
    /\ \A i, j \in CustomerIds :
          i # j /\ mine[i] # None /\ mine[j] # None =>
             mine[i].document # mine[j].document

Next ==
    \E r \in Requests :
        \/ Create(r) \/ Conflict(r) \/ Update(r) \/ Duplicate(r) \/ Remove(r)
        \/ NotFound(r) \/ Found(r) \/ List(r) \/ Refused(r)

Spec == Init /\ [][Next]_<<mine, told>>
=============================================================================
