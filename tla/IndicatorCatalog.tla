-------------------------- MODULE IndicatorCatalog --------------------------
(* The catalog of ESG indicators and which of them each customer reports:   *)
(* CreateCustomerIndicatorUseCase, CreateCustomEsgMetricUseCase and         *)
(* LinkCustomerEsgMetricsUseCase over esg_metric and customer_esg_metrics.  *)
(*                                                                          *)
(* A request awaits between its queries; every transaction runs at READ     *)
(* COMMITTED.  No row of the catalog is ever deleted.                       *)
EXTENDS Naturals, Sequences, FiniteSets

CONSTANTS
    Requests,      \* what the server receives
    Accounts,      \* users, the owners of customers and of catalog entries
    Customers,
    OwnerOf,       \* customers.owner_user_id; never rewritten
    Words,         \* names as they compare when case is ignored
    Cases,         \* ways to spell a word
    MaxCatalog,    \* bound on the rows of esg_metric
    None           \* SQL NULL

ASSUME OwnershipAssumption ==
    /\ OwnerOf \in [Customers -> Accounts]
    /\ None \notin Accounts \cup Customers

VARIABLES
    catalog,    \* esg_metric, in the order of created_at; an id is a position
    links,      \* customer_esg_metrics: the ids linked to each customer
    pc,         \* how far each request has come
    req,        \* what each request asks for
    found,      \* the catalog entry a new indicator reuses, or None
    horizon,    \* rows of the catalog when it was searched (history)
    doomed,     \* the links a replacement is deleting
    added,      \* links other requests committed since (history)
    answer      \* the HTTP status sent

vars == <<catalog, links, pc, req, found, horizon, doomed, added, answer>>
tables == <<catalog, links>>
searched == <<found, horizon>>
replacing == <<doomed, added>>

Names == Words \X Cases
Word(name) == name[1]
Ids == DOMAIN catalog

NoRequest == [customer |-> None, account |-> None, name |-> None, metrics |-> {}]
Indicator == [customer : Customers, account : Accounts, name : Names,
              metrics : {{}}]
CustomMetric == [customer : {None}, account : Accounts, name : Names,
                 metrics : {{}}]
Replacement == [customer : Customers, account : Accounts, name : {None},
                metrics : SUBSET (1..MaxCatalog)]

-----------------------------------------------------------------------------
(* Queries *)

SameName(a, b) == Word(a) = Word(b)

(* findActive: the entries linked to the customer. *)
Active(c) == links[c]

(* findInCatalogByName: a global or own entry, whatever its case. *)
MutantVisible(a) == {m \in Ids : catalog[m].owner = a}
Visible(a) == {m \in Ids : catalog[m].owner \in {None, a}}
Matches(a, name) == {m \in Visible(a) : SameName(catalog[m].name, name)}
Oldest(S) == CHOOSE m \in S : \A other \in S : m <= other

(* findByCustomerIdAndName, and what the unique index refuses: the owner's  *)
(* entry with exactly this name.                                            *)
Taken(a, name) ==
    {m \in Ids : catalog[m].owner = a /\ catalog[m].name = name}

-----------------------------------------------------------------------------
(* Answers *)

Goto(r, from, to) == pc[r] = from /\ pc' = [pc EXCEPT ![r] = to]

Answer(r, from, code) ==
    /\ Goto(r, from, "answered")
    /\ answer' = [answer EXCEPT ![r] = code]

(* One operator per exception filter.                                       *)
IndicatorsFilter(error) == IF error = "CustomerNotFound" THEN 404 ELSE 409

MetricsFilter == 409

CustomersFilter(error) == IF error = "CustomerNotFound" THEN 404 ELSE 400

CustomerFound(r) == OwnerOf[req[r].customer] = req[r].account

Throw(r, from, code) ==
    /\ Answer(r, from, code)
    /\ UNCHANGED <<tables, req, searched, replacing>>

Receive(r, first, asked) ==
    /\ Goto(r, "idle", first)
    /\ req' = [req EXCEPT ![r] = asked]
    /\ UNCHANGED <<tables, searched, replacing, answer>>

(* Another account's customer reads as missing, whatever was asked of it. *)
RejectCustomer(r) ==
    /\ pc[r] \in {"indicator", "replacement"}
    /\ ~CustomerFound(r)
    /\ Throw(r, pc[r], IF pc[r] = "indicator"
                       THEN IndicatorsFilter("CustomerNotFound")
                       ELSE CustomersFilter("CustomerNotFound"))

-----------------------------------------------------------------------------
(* Creating an indicator for a customer *)

PostIndicator(r) ==
    \E asked \in Indicator : Receive(r, "indicator", asked)

HasIndicator(c, name) ==
    \E m \in Active(c) : SameName(catalog[m].name, name)

RejectDuplicate(r) ==
    /\ pc[r] = "indicator"
    /\ CustomerFound(r)
    /\ HasIndicator(req[r].customer, req[r].name)
    /\ Throw(r, "indicator", IndicatorsFilter("IndicatorAlreadyExists"))

CheckDuplicate(r) ==
    /\ pc[r] = "indicator"
    /\ CustomerFound(r)
    /\ ~HasIndicator(req[r].customer, req[r].name)
    /\ Goto(r, "indicator", "searching")
    /\ UNCHANGED <<tables, req, searched, replacing, answer>>

SearchCatalog(r) ==
    LET matches == Matches(req[r].account, req[r].name) IN
    /\ pc[r] = "searching"
    /\ IF matches = {}
       THEN Goto(r, "searching", "creating") /\ UNCHANGED found
       ELSE /\ Goto(r, "searching", "linking")
            /\ found' = [found EXCEPT ![r] = Oldest(matches)]
    /\ horizon' = [horizon EXCEPT ![r] = Len(catalog)]
    /\ UNCHANGED <<tables, req, replacing, answer>>

(* The links of c another open replacement has deleted. *)
Locked(c, r) ==
    UNION {doomed[s] : s \in {s \in Requests \ {r} :
                                /\ pc[s] = "deleted"
                                /\ req[s].customer = c}}

(* new is linked to c: open replacements of c's links may come across it. *)
Commit(r, c, new) ==
    added' = [s \in Requests |->
                IF s # r /\ req[s].customer = c /\ pc[s] \in {"deleting", "deleted"}
                THEN added[s] \cup new ELSE added[s]]

(* ON CONFLICT DO NOTHING; a row being deleted is waited for. *)
Link(r) ==
    LET c == req[r].customer
        new == {found[r]}
    IN
    /\ pc[r] = "linking"
    /\ found[r] \notin Locked(c, r)
    /\ Answer(r, "linking", 201)
    /\ links' = [links EXCEPT ![c] = @ \cup new]
    /\ Commit(r, c, new)
    /\ UNCHANGED <<catalog, req, searched, doomed>>

Insert(a, name) ==
    /\ Len(catalog) < MaxCatalog
    /\ catalog' = Append(catalog, [owner |-> a, name |-> name])

CreateAndLink(r) ==
    LET c == req[r].customer
        new == {Len(catalog) + 1}
    IN
    /\ pc[r] = "creating"
    /\ Taken(req[r].account, req[r].name) = {}
    /\ Insert(req[r].account, req[r].name)
    /\ Answer(r, "creating", 201)
    /\ links' = [links EXCEPT ![c] = @ \cup new]
    /\ Commit(r, c, new)
    /\ UNCHANGED <<req, searched, doomed>>

CreateRefused(r) ==
    /\ pc[r] = "creating"
    /\ Taken(req[r].account, req[r].name) # {}
    /\ Throw(r, "creating", IndicatorsFilter("IndicatorAlreadyExists"))

-----------------------------------------------------------------------------
(* Creating a custom metric of the account, linked to nobody *)

PostMetric(r) == \E asked \in CustomMetric : Receive(r, "metric", asked)

CheckMetricName(r) ==
    LET taken == Taken(req[r].account, req[r].name) # {} IN
    /\ pc[r] = "metric"
    /\ \/ taken /\ Throw(r, "metric", MetricsFilter)
       \/ /\ ~taken
          /\ Goto(r, "metric", "inserting")
          /\ UNCHANGED <<tables, req, searched, replacing, answer>>

InsertMetric(r) ==
    LET taken == Taken(req[r].account, req[r].name) # {} IN
    /\ pc[r] = "inserting"
    /\ \/ taken /\ Throw(r, "inserting", MetricsFilter)
       \/ /\ ~taken
          /\ Insert(req[r].account, req[r].name)
          /\ Answer(r, "inserting", 201)
          /\ UNCHANGED <<links, req, searched, replacing>>

-----------------------------------------------------------------------------
(* Replacing the list of a customer *)

PutMetrics(r) == \E asked \in Replacement : Receive(r, "replacement", asked)

CheckMetrics(r) ==
    LET missing == ~(req[r].metrics \subseteq Ids) IN
    /\ pc[r] = "replacement"
    /\ CustomerFound(r)
    /\ \/ missing /\ Throw(r, "replacement", CustomersFilter("EsgMetricsNotFound"))
       \/ /\ ~missing
          /\ Goto(r, "replacement", "writing")
          /\ UNCHANGED <<tables, req, searched, replacing, answer>>

(* DELETE takes its snapshot: rows committed from now on escape it. *)
StartDelete(r) ==
    /\ Goto(r, "writing", "deleting")
    /\ doomed' = [doomed EXCEPT ![r] = links[req[r].customer]]
    /\ added' = [added EXCEPT ![r] = {}]
    /\ UNCHANGED <<tables, req, searched, answer>>

(* It waits for the transactions that are deleting the same rows, and skips *)
(* what they have deleted: a row inserted again is another row.             *)
FinishDelete(r) ==
    LET c == req[r].customer IN
    /\ pc[r] = "deleting"
    /\ doomed[r] \cap Locked(c, r) = {}
    /\ Goto(r, "deleting", "deleted")
    /\ doomed' = [doomed EXCEPT ![r] = (@ \cap links[c]) \ added[r]]
    /\ UNCHANGED <<tables, req, searched, added, answer>>

MutantRemaining(c, r) == links[c]
Remaining(c, r) == links[c] \ doomed[r]

(* INSERT fails on a primary key another request has committed; otherwise   *)
(* the transaction commits.                                                 *)
InsertLinks(r) ==
    LET c == req[r].customer
        new == req[r].metrics
    IN
    /\ pc[r] = "deleted"
    /\ new \cap Remaining(c, r) = {}
    /\ new \cap Locked(c, r) = {}
    /\ Answer(r, "deleted", 204)
    /\ links' = [links EXCEPT ![c] = Remaining(c, r) \cup new]
    /\ Commit(r, c, new)
    /\ UNCHANGED <<catalog, req, searched, doomed>>

(* P2002 is not translated here: an unhandled error, rolled back. *)
InsertLinksRefused(r) ==
    /\ pc[r] = "deleted"
    /\ req[r].metrics \cap Remaining(req[r].customer, r) # {}
    /\ Answer(r, "deleted", 500)
    /\ UNCHANGED <<tables, req, searched, replacing>>

(* An await that rejects: a deadlock victim, a lost connection, the process *)
(* dying.  An open transaction is rolled back.                              *)
Abort(r) ==
    /\ pc[r] \notin {"idle", "answered"}
    /\ Answer(r, pc[r], 500)
    /\ UNCHANGED <<tables, req, searched, replacing>>

-----------------------------------------------------------------------------

Init ==
    /\ catalog \in UNION {[1..n -> [owner : {None}, name : Names]] : n \in 0..1}
    /\ links = [c \in Customers |-> {}]
    /\ pc = [r \in Requests |-> "idle"]
    /\ req = [r \in Requests |-> NoRequest]
    /\ found = [r \in Requests |-> None]
    /\ horizon = [r \in Requests |-> 0]
    /\ doomed = [r \in Requests |-> {}]
    /\ added = [r \in Requests |-> {}]
    /\ answer = [r \in Requests |-> None]

IndicatorStep(r) ==
    \/ PostIndicator(r)
    \/ RejectDuplicate(r) \/ CheckDuplicate(r)
    \/ SearchCatalog(r)
    \/ Link(r)
    \/ CreateAndLink(r) \/ CreateRefused(r)

MetricStep(r) == PostMetric(r) \/ CheckMetricName(r) \/ InsertMetric(r)

ReplacementStep(r) ==
    \/ PutMetrics(r)
    \/ CheckMetrics(r)
    \/ StartDelete(r) \/ FinishDelete(r)
    \/ InsertLinks(r) \/ InsertLinksRefused(r)

Next == \E r \in Requests :
            \/ RejectCustomer(r)
            \/ IndicatorStep(r)
            \/ MetricStep(r)
            \/ ReplacementStep(r)
            \/ Abort(r)

Spec == Init /\ [][Next]_vars
-----------------------------------------------------------------------------
(* Properties *)

(* What a replacement leaves linked is its own list and what other requests *)
(* committed after its delete began: nothing of the list it replaces stays  *)
(* (PrismaCustomerEsgMetricRepository.replaceAll).                          *)
ReplacedListGone ==
    [][\A r \in Requests : InsertLinks(r) =>
          links'[req[r].customer] \subseteq req[r].metrics \cup added[r]]_vars

(* A replacement fails on a duplicate key only when another request linked  *)
(* one of its metrics after its delete began.                               *)
RefusedOnlyByOverlap ==
    [][\A r \in Requests : InsertLinksRefused(r) =>
          req[r].metrics \cap added[r] # {}]_vars

(* "Reuse it instead of duplicating it" (CreateCustomerIndicatorUseCase):   *)
(* an indicator is created beside an entry of the same word, global or the  *)
(* account's, only if that entry was inserted after the catalog was         *)
(* searched.                                                                *)
DuplicatesOnlyByOverlap ==
    [][\A r \in Requests : CreateAndLink(r) =>
          \A m \in Ids :
             /\ catalog[m].owner \in {None, req[r].account}
             /\ Word(catalog[m].name) = Word(req[r].name)
             => m > horizon[r]]_vars
=============================================================================
