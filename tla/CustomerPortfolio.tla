-------------------------- MODULE CustomerPortfolio --------------------------
(* The companies of all owners: CustomersService and PrismaCustomer-        *)
(* Repository.  Requests run their queries one by one; the transaction of   *)
(* an update, at READ COMMITTED, writes the address and then the company,   *)
(* and keeps both rows locked until it commits.                             *)
CONSTANTS
    Requests, Owners, CustomerIds,
    Watched,      \* any one of the owners
    Documents, Types,
    TypeOf,       \* the type whose check digits a document satisfies
    Original,     \* what a company had before any of the requests
    None

VARIABLES
    customers,    \* customers and customer_addresses: a row by id, or None
    pc, req,
    addressed,    \* the open update has written the address
    written,      \* the open update has written the company
    answer        \* what each request was answered: <<what, about>>

vars == <<customers, pc, req, addressed, written, answer>>

(* Contact and address stand for all the fields of their tables; what they  *)
(* hold is the request that wrote them.                                     *)
Row ==
    [owner : Owners, document : Documents, type : Types, removed : BOOLEAN,
     contact : Requests \cup {Original},
     address : Requests \cup {Original, None}]

ASSUME NamesAssumption ==
    /\ Watched \in Owners
    /\ None \notin Row \cup CustomerIds \cup Requests
    /\ Original \notin Requests

NoRequest == [kind |-> "none", owner |-> None, id |-> None, document |-> None,
              type |-> None, contact |-> FALSE, address |-> FALSE]

-----------------------------------------------------------------------------
(* Queries *)

(* findUnique with { id, ownerUserId } *)
MutantOwned(i, o) == customers[i] # None
Owned(i, o) == customers[i] # None /\ customers[i].owner = o

(* ... and isDeleted: false *)
Active(i, o) == Owned(i, o) /\ ~customers[i].removed

(* The unique index on (owner, document), removed companies included.       *)
MutantTaken(o, document, but) ==
    \E i \in CustomerIds \ {but} :
        customers[i] # None /\ customers[i].document = document
Taken(o, document, but) ==
    \E i \in CustomerIds \ {but} : Owned(i, o) /\ customers[i].document = document

(* Another transaction has written the key, or the row, and is still open.  *)
KeyLocked(r, o, document) ==
    \E t \in Requests \ {r} :
        /\ written[t] /\ req[t].owner = o /\ req[t].document # None
        /\ document \in {req[t].document, customers[req[t].id].document}
RowLocked(r, i) == \E t \in Requests \ {r} : written[t] /\ req[t].id = i
AddressLocked(r, i) == \E t \in Requests \ {r} : addressed[t] /\ req[t].id = i

-----------------------------------------------------------------------------
(* Requests *)

(* isValidDocument; the check digits themselves are left out.               *)
Satisfies(document, type) == TypeOf[document] = type

(* validateDocument: a type that is named must be that of the document, and *)
(* a document alone satisfies the check digits of its own type.             *)
Vouched(document, type) ==
    document # None /\ type # None => Satisfies(document, type)

(* What the validators let in.  (An update of neither contact nor address   *)
(* is left out: it writes a row too.)                                       *)
WellFormed(q) ==
    /\ Vouched(q.document, q.type)
    /\ CASE q.kind = "create" -> /\ q.id = None /\ q.document # None
                                 /\ q.type # None /\ q.contact /\ q.address
         [] q.kind = "update" -> q.id # None /\ (q.contact \/ q.address)
         [] OTHER -> /\ (q.id = None) <=> (q.kind = "list")
                     /\ q.document = None /\ q.type = None
                     /\ ~q.contact /\ ~q.address

Asked ==
    {q \in [kind : {"create", "update", "remove", "find", "list"}, owner : Owners,
            id : CustomerIds \cup {None}, document : Documents \cup {None},
            type : Types \cup {None}, contact : BOOLEAN, address : BOOLEAN] :
        WellFormed(q)}

(* From one query to the next. *)
Step(r, from, to) ==
    /\ pc[r] = from
    /\ pc' = [pc EXCEPT ![r] = to]
    /\ UNCHANGED answer

Respond(r, from, what, about) ==
    /\ pc[r] = from
    /\ pc' = [pc EXCEPT ![r] = "done"]
    /\ answer' = [answer EXCEPT ![r] = <<what, about>>]

Holding(r, address, company) ==
    /\ addressed' = [addressed EXCEPT ![r] = address]
    /\ written' = [written EXCEPT ![r] = company]

(* The last answer of a transaction; what it held is released.             *)
Finish(r, from, what, about) ==
    /\ Respond(r, from, what, about)
    /\ Holding(r, FALSE, FALSE)
    /\ req' = [req EXCEPT ![r].document = None, ![r].type = None]

(* A request comes, of the user of the token, and makes its first query.    *)
Ask(r, q, kind) ==
    /\ pc[r] = "idle" /\ q.kind = kind
    /\ req' = [req EXCEPT ![r] = q]
    /\ UNCHANGED <<customers, addressed, written>>

(* existsById *)
CheckSector(r, q) ==
    /\ Ask(r, q, "create")
    /\ \/ Step(r, "idle", "insert")
       \/ Respond(r, "idle", "unknownSector", None)

(* findOne *)
Find(r, q) ==
    /\ Ask(r, q, "find")
    /\ IF Active(q.id, q.owner)
       THEN Respond(r, "idle", "found", q.id)
       ELSE Respond(r, "idle", "notFound", q.id)

(* findAll *)
List(r, q) ==
    /\ Ask(r, q, "list")
    /\ Respond(r, "idle", "listed", {i \in CustomerIds : Active(i, q.owner)})

(* findById, which finds a removed company too. *)
FindForUpdate(r, q) ==
    /\ Ask(r, q, "update")
    /\ IF Owned(q.id, q.owner)
       THEN Step(r, "idle", "address")
       ELSE Respond(r, "idle", "notFound", q.id)

(* The first query of remove; its UPDATE is a statement of its own. *)
FindForRemove(r, q) ==
    /\ Ask(r, q, "remove")
    /\ IF Active(q.id, q.owner)
       THEN Step(r, "idle", "remove")
       ELSE Respond(r, "idle", "notFound", q.id)

NewRow(r) ==
    [owner |-> req[r].owner, document |-> req[r].document, type |-> req[r].type,
     removed |-> FALSE, contact |-> r, address |-> r]

(* Company and address in one statement; the index is what refuses.         *)
Insert(r) ==
    /\ pc[r] = "insert"
    /\ ~KeyLocked(r, req[r].owner, req[r].document)
    /\ IF Taken(req[r].owner, req[r].document, None)
       THEN /\ Finish(r, "insert", "conflict", req[r].document)
            /\ UNCHANGED customers
       ELSE \E i \in CustomerIds :
               /\ customers[i] = None
               /\ customers' = [customers EXCEPT ![i] = NewRow(r)]
               /\ Finish(r, "insert", "created", i)

MutantWriteAddress(r) ==
    /\ Step(r, "address", "company")
    /\ customers' = IF req[r].address
                    THEN [customers EXCEPT ![req[r].id].address = r] ELSE customers
    /\ UNCHANGED <<req, addressed, written>>

WriteAddress(r) ==
    /\ pc[r] = "address"
    /\ IF req[r].address /\ customers[req[r].id].address = None
       THEN Finish(r, "address", "noAddress", None)
       ELSE /\ req[r].address => ~AddressLocked(r, req[r].id)
            /\ Step(r, "address", "company")
            /\ Holding(r, req[r].address, FALSE)
            /\ UNCHANGED req
    /\ UNCHANGED customers

(* No one catches the error of a document another company of the owner has. *)
WriteCompany(r) ==
    /\ pc[r] = "company"
    /\ ~RowLocked(r, req[r].id)
    /\ req[r].document # None => ~KeyLocked(r, req[r].owner, req[r].document)
    /\ IF req[r].document # None
            /\ Taken(req[r].owner, req[r].document, req[r].id)
       THEN Finish(r, "company", "error", <<req[r].id, req[r].document>>)
       ELSE /\ Step(r, "company", "commit")
            /\ Holding(r, addressed[r], TRUE)
            /\ UNCHANGED req
    /\ UNCHANGED customers

Given(value, old) == IF value = None THEN old ELSE value

MutantUpdated(r, row) ==
    [row EXCEPT !.document = Given(req[r].document, @),
                !.type = Given(req[r].type, @), !.removed = FALSE,
                !.contact = IF req[r].contact THEN r ELSE @,
                !.address = IF req[r].address THEN r ELSE @]

(* withoutUndefinedValues: what is not named stays as it is. *)
Updated(r, row) ==
    [row EXCEPT !.document = Given(req[r].document, @),
                !.type = Given(req[r].type, @),
                !.contact = IF req[r].contact THEN r ELSE @,
                !.address = IF req[r].address THEN r ELSE @]

Commit(r) ==
    /\ Finish(r, "commit", "updated", req[r].id)
    /\ customers' = [customers EXCEPT ![req[r].id] = Updated(r, @)]

MarkRemoved(r) ==
    /\ pc[r] = "remove"
    /\ ~RowLocked(r, req[r].id)
    /\ Respond(r, "remove", "removed", req[r].id)
    /\ customers' = [customers EXCEPT ![req[r].id].removed = TRUE]
    /\ UNCHANGED <<req, addressed, written>>

(* A query fails, or the process dies: an open transaction is rolled back.  *)
Fail(r) ==
    /\ pc[r] \notin {"idle", "done"}
    /\ Finish(r, pc[r], "error", None)
    /\ UNCHANGED customers

Start(r) ==
    \E q \in Asked :
        CheckSector(r, q) \/ Find(r, q) \/ List(r, q)
            \/ FindForUpdate(r, q) \/ FindForRemove(r, q)

Next ==
    \E r \in Requests :
        \/ Start(r)
        \/ Insert(r) \/ WriteAddress(r) \/ WriteCompany(r) \/ Commit(r)
        \/ MarkRemoved(r) \/ Fail(r)

(* Any companies the index allows; one of long ago may have no address.     *)
Init ==
    /\ customers \in [CustomerIds -> {None} \cup
          {row \in Row : /\ row.contact = Original /\ row.address \in {Original, None}
                         /\ row.type = TypeOf[row.document]}]
    /\ \A i, j \in CustomerIds :
          i # j /\ customers[i] # None /\ customers[j] # None =>
             <<customers[i].owner, customers[i].document>>
                # <<customers[j].owner, customers[j].document>>
    /\ pc = [r \in Requests |-> "idle"]
    /\ req = [r \in Requests |-> NoRequest]
    /\ addressed = [r \in Requests |-> FALSE]
    /\ written = [r \in Requests |-> FALSE]
    /\ answer = [r \in Requests |-> None]

Spec == Init /\ [][Next]_vars

-----------------------------------------------------------------------------
(* Properties *)

(* To every owner the system is a store of its own companies: no answer,    *)
(* not even that a document is taken or an id unknown, depends on what      *)
(* others have (CustomerRepository: "Multi-tenant boundary").               *)
IsWatched(i) == customers[i] # None /\ customers[i].owner = Watched
Mine == [i \in CustomerIds |-> IF IsWatched(i) THEN customers[i] ELSE None]
Told == [r \in Requests |-> IF req[r].owner = Watched THEN answer[r] ELSE None]
Own == INSTANCE OwnPortfolio WITH mine <- Mine, told <- Told
Isolation == Own!Spec

(* A removed company never comes back, whoever is updating it meanwhile.    *)
RemovedStaysRemoved ==
    [][\A i \in CustomerIds : customers[i] # None /\ customers[i].removed =>
          customers'[i].removed]_vars

(* Two requests that both set the address and the contact never leave the   *)
(* address of one beside the contact of the other: the address row, written *)
(* first, makes the second wait until the first has committed.              *)
NoMixture ==
    \A i \in CustomerIds : customers[i] # None =>
        LET by == {customers[i].contact, customers[i].address} \cap Requests IN
        \A r, t \in by : req[r].contact /\ req[r].address
                           /\ req[t].contact /\ req[t].address => r = t
=============================================================================
