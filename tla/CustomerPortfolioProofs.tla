----------------------- MODULE CustomerPortfolioProofs -----------------------
(* Theorems about CustomerPortfolio, for any requests, owners, companies    *)
(* and documents.                                                           *)
EXTENDS CustomerPortfolio, TLAPS

-----------------------------------------------------------------------------
(* The inductive invariant *)

Steps == {"idle", "insert", "address", "company", "commit", "remove", "done"}

RequestType ==
    [kind : {"none", "create", "update", "remove", "find", "list"},
     owner : Owners \cup {None}, id : CustomerIds \cup {None},
     document : Documents \cup {None}, type : Types \cup {None},
     contact : BOOLEAN, address : BOOLEAN]

Answers ==
    {None} \cup
    ({"created", "conflict", "updated", "removed", "found", "notFound", "listed",
      "unknownSector", "noAddress", "error"}
       \X ({None} \cup CustomerIds \cup Documents \cup (SUBSET CustomerIds)
               \cup (CustomerIds \X Documents)))

TypeInv ==
    /\ customers \in [CustomerIds -> Row \cup {None}]
    /\ pc \in [Requests -> Steps]
    /\ req \in [Requests -> RequestType]
    /\ addressed \in [Requests -> BOOLEAN]
    /\ written \in [Requests -> BOOLEAN]
    /\ answer \in [Requests -> Answers]

(* What a request has found holds on: its company is still there and its    *)
(* owner's.                                                                 *)
JobInv ==
    \A r \in Requests :
        /\ pc[r] = "insert" => /\ req[r].owner \in Owners
                               /\ req[r].document \in Documents
                               /\ req[r].type \in Types
        /\ pc[r] \in {"address", "company", "commit", "remove"} =>
              /\ req[r].id \in CustomerIds
              /\ Owned(req[r].id, req[r].owner)
        /\ pc[r] = "commit" <=> written[r]
        /\ pc[r] # "done" => answer[r] = None

(* The unique index. *)
IndexInv ==
    \A i, j \in CustomerIds :
        /\ i # j /\ customers[i] # None /\ customers[j] # None
        /\ customers[i].owner = customers[j].owner
        => customers[i].document # customers[j].document

(* The document an open update is about to set is its own: no other company *)
(* of the owner has it, and no other open update will set it.               *)
KeyInv ==
    \A r \in Requests : written[r] /\ req[r].document # None =>
        /\ ~Taken(req[r].owner, req[r].document, req[r].id)
        /\ \A t \in Requests \ {r} :
              written[t] /\ req[t].owner = req[r].owner =>
                  req[t].document # req[r].document

(* Only a request that is over has left its mark on a company.              *)
WriterInv ==
    \A i \in CustomerIds : customers[i] # None =>
        \A r \in Requests \cap {customers[i].contact, customers[i].address} :
            pc[r] = "done"

IInv == TypeInv /\ JobInv /\ IndexInv /\ KeyInv /\ WriterInv /\ NoMixture

LEMMA InitIInv == Init => IInv
<1> SUFFICES ASSUME Init PROVE IInv
  OBVIOUS
<1>1. TypeInv
  <2>1. NoRequest \in RequestType
    BY DEF NoRequest, RequestType
  <2>2. customers \in [CustomerIds -> Row \cup {None}]
    BY DEF Init
  <2> QED
    BY <2>1, <2>2 DEF Init, TypeInv, Steps, Answers
<1>2. JobInv
  BY DEF Init, JobInv
<1>3. IndexInv
  BY <1>1 DEF Init, IndexInv
<1>4. KeyInv
  BY DEF Init, KeyInv
<1>5. \A i \in CustomerIds : customers[i] # None =>
         Requests \cap {customers[i].contact, customers[i].address} = {}
  BY NamesAssumption DEF Init
<1> QED
  BY <1>1, <1>2, <1>3, <1>4, <1>5 DEF IInv, WriterInv, NoMixture

-----------------------------------------------------------------------------
(* The steps *)

(* The statements that end a request, or take it to its next query.         *)
LEMMA AskTyped ==
    ASSUME TypeInv, NEW r \in Requests, NEW q \in Asked, NEW kind, Ask(r, q, kind)
    PROVE  /\ req' \in [Requests -> RequestType]
           /\ pc[r] = "idle" /\ req'[r] = q
           /\ \A t \in Requests \ {r} : req'[t] = req[t]
           /\ UNCHANGED <<customers, addressed, written>>
<1>1. q \in RequestType
  BY DEF Asked, RequestType
<1> QED
  BY <1>1 DEF TypeInv, Ask

LEMMA StepTyped ==
    ASSUME TypeInv, NEW r \in Requests, NEW from, NEW to \in Steps, Step(r, from, to)
    PROVE  /\ pc' \in [Requests -> Steps]
           /\ pc[r] = from /\ pc'[r] = to
           /\ \A t \in Requests \ {r} : pc'[t] = pc[t]
           /\ UNCHANGED answer
  BY DEF TypeInv, Step

LEMMA RespondTyped ==
    ASSUME TypeInv, NEW r \in Requests, NEW from, NEW what, NEW about,
           <<what, about>> \in Answers, Respond(r, from, what, about)
    PROVE  /\ pc' \in [Requests -> Steps] /\ answer' \in [Requests -> Answers]
           /\ pc[r] = from /\ pc'[r] = "done" /\ answer'[r] = <<what, about>>
           /\ \A t \in Requests \ {r} : pc'[t] = pc[t] /\ answer'[t] = answer[t]
  BY DEF TypeInv, Respond, Steps

LEMMA FinishTyped ==
    ASSUME TypeInv, NEW r \in Requests, NEW from, NEW what, NEW about,
           <<what, about>> \in Answers, Finish(r, from, what, about)
    PROVE  /\ pc' \in [Requests -> Steps] /\ answer' \in [Requests -> Answers]
           /\ pc[r] = from /\ pc'[r] = "done" /\ answer'[r] = <<what, about>>
           /\ \A t \in Requests \ {r} : pc'[t] = pc[t] /\ answer'[t] = answer[t]
           /\ req' \in [Requests -> RequestType]
           /\ addressed' \in [Requests -> BOOLEAN] /\ written' \in [Requests -> BOOLEAN]
           /\ ~written'[r]
           /\ \A t \in Requests \ {r} : req'[t] = req[t] /\ written'[t] = written[t]
           /\ \A t \in Requests : /\ req'[t].owner = req[t].owner
                                  /\ req'[t].contact = req[t].contact
                                  /\ req'[t].address = req[t].address
<1>1. Respond(r, from, what, about)
  BY DEF Finish
<1>2. /\ req' \in [Requests -> RequestType]
      /\ \A t \in Requests \ {r} : req'[t] = req[t]
      /\ req'[r].owner = req[r].owner
      /\ req'[r].contact = req[r].contact /\ req'[r].address = req[r].address
  BY DEF Finish, TypeInv, RequestType
<1>3. /\ addressed' \in [Requests -> BOOLEAN] /\ written' \in [Requests -> BOOLEAN]
      /\ ~written'[r] /\ \A t \in Requests \ {r} : written'[t] = written[t]
  BY DEF Finish, Holding, TypeInv
<1> QED
  BY <1>1, <1>2, <1>3, RespondTyped

(* A step that writes no company and takes no lock on one.                  *)
LEMMA UnwrittenStep ==
    ASSUME IInv, NEW r \in Requests, TypeInv', UNCHANGED customers,
           pc[r] # "done", pc'[r] # "commit", ~written'[r],
           \A t \in Requests \ {r} :
              /\ pc'[t] = pc[t] /\ req'[t] = req[t]
              /\ written'[t] = written[t] /\ answer'[t] = answer[t],
           pc'[r] # "done" => answer'[r] = None,
           pc'[r] = "insert" => /\ req'[r].owner \in Owners
                                /\ req'[r].document \in Documents
                                /\ req'[r].type \in Types,
           pc'[r] \in {"address", "company", "remove"} =>
              req'[r].id \in CustomerIds /\ Owned(req'[r].id, req'[r].owner)
    PROVE  IInv'
<1>1. JobInv'
  BY DEF IInv, JobInv, Owned
<1>2. IndexInv'
  BY DEF IInv, IndexInv
<1>3. KeyInv'
  BY DEF IInv, KeyInv, Taken, Owned
<1>4. WriterInv'
  BY DEF IInv, WriterInv
<1>5. NoMixture'
  BY DEF IInv, NoMixture, WriterInv
<1> QED
  BY <1>1, <1>2, <1>3, <1>4, <1>5 DEF IInv

LEMMA StartStep == ASSUME IInv, NEW r \in Requests, Start(r) PROVE IInv'
<1> PICK q \in Asked : CheckSector(r, q) \/ Find(r, q) \/ List(r, q)
                          \/ FindForUpdate(r, q) \/ FindForRemove(r, q)
  BY DEF Start
<1>1. \E kind : Ask(r, q, kind) /\ q.kind = kind
  BY DEF CheckSector, Find, List, FindForUpdate, FindForRemove, Ask
<1>2. /\ req' \in [Requests -> RequestType]
      /\ pc[r] = "idle" /\ req'[r] = q
      /\ \A t \in Requests \ {r} : req'[t] = req[t]
      /\ UNCHANGED <<customers, addressed, written>>
  BY <1>1, AskTyped DEF IInv
<1>3. /\ q.owner \in Owners /\ q.id \in CustomerIds \cup {None}
      /\ q.kind = "create" => q.document \in Documents /\ q.type \in Types
      /\ q.kind \in {"find", "update", "remove"} => q.id \in CustomerIds
  BY DEF Asked, WellFormed
<1>4. \/ \E to \in {"insert", "address", "remove"} :
            /\ Step(r, "idle", to)
            /\ to = "insert" => q.kind = "create"
            /\ to \in {"address", "remove"} =>
                  q.id \in CustomerIds /\ Owned(q.id, q.owner)
      \/ \E what, about : <<what, about>> \in Answers /\ Respond(r, "idle", what, about)
  BY <1>3 DEF CheckSector, Find, List, FindForUpdate, FindForRemove, Ask, Active,
              Answers
<1>5. CASE \E what, about : <<what, about>> \in Answers /\ Respond(r, "idle", what, about)
  <2>1. /\ pc' \in [Requests -> Steps] /\ answer' \in [Requests -> Answers]
        /\ pc'[r] = "done"
        /\ \A t \in Requests \ {r} : pc'[t] = pc[t] /\ answer'[t] = answer[t]
    BY <1>5, RespondTyped DEF IInv
  <2>2. TypeInv' /\ ~written'[r]
    BY <1>2, <2>1 DEF IInv, TypeInv, JobInv
  <2> QED
    BY <1>2, <2>1, <2>2, UnwrittenStep
<1>6. CASE \E to \in {"insert", "address", "remove"} :
            /\ Step(r, "idle", to)
            /\ to = "insert" => q.kind = "create"
            /\ to \in {"address", "remove"} =>
                  q.id \in CustomerIds /\ Owned(q.id, q.owner)
  <2> PICK to \in {"insert", "address", "remove"} :
            /\ Step(r, "idle", to)
            /\ to = "insert" => q.kind = "create"
            /\ to \in {"address", "remove"} =>
                  q.id \in CustomerIds /\ Owned(q.id, q.owner)
    BY <1>6
  <2>1. /\ pc' \in [Requests -> Steps] /\ UNCHANGED answer
        /\ pc'[r] = to
        /\ \A t \in Requests \ {r} : pc'[t] = pc[t]
    BY StepTyped DEF IInv, Steps
  <2>2. TypeInv' /\ ~written'[r] /\ answer'[r] = None
    BY <1>2, <2>1 DEF IInv, TypeInv, JobInv
  <2>3. to \in {"address", "remove"} => Owned(q.id, q.owner)'
    BY <1>2 DEF Owned
  <2> QED
    BY <1>2, <1>3, <2>1, <2>2, <2>3, UnwrittenStep DEF Owned
<1> QED
  BY <1>4, <1>5, <1>6

(* An answer that ends a request without a write. *)
LEMMA RefusedStep ==
    ASSUME IInv, NEW r \in Requests, NEW from, from \notin {"idle", "done"},
           NEW what, NEW about, <<what, about>> \in Answers,
           Finish(r, from, what, about), UNCHANGED customers
    PROVE  IInv'
<1>1. /\ pc' \in [Requests -> Steps] /\ answer' \in [Requests -> Answers]
      /\ pc[r] = from /\ pc'[r] = "done"
      /\ \A t \in Requests \ {r} : pc'[t] = pc[t] /\ answer'[t] = answer[t]
      /\ req' \in [Requests -> RequestType]
      /\ addressed' \in [Requests -> BOOLEAN] /\ written' \in [Requests -> BOOLEAN]
      /\ ~written'[r]
      /\ \A t \in Requests \ {r} : req'[t] = req[t] /\ written'[t] = written[t]
  BY FinishTyped DEF IInv
<1>2. TypeInv'
  BY <1>1 DEF IInv, TypeInv
<1> QED
  BY <1>1, <1>2, UnwrittenStep

LEMMA FailStep == ASSUME IInv, NEW r \in Requests, Fail(r) PROVE IInv'
  BY RefusedStep DEF Fail, Answers

LEMMA WriteAddressStep ==
    ASSUME IInv, NEW r \in Requests, WriteAddress(r) PROVE IInv'
<1>1. CASE Finish(r, "address", "noAddress", None)
  BY <1>1, RefusedStep DEF WriteAddress, Answers
<1>2. CASE /\ Step(r, "address", "company")
           /\ Holding(r, req[r].address, FALSE)
           /\ UNCHANGED req
  <2>1. /\ pc' \in [Requests -> Steps] /\ UNCHANGED <<answer, req, customers>>
        /\ pc[r] = "address" /\ pc'[r] = "company"
        /\ \A t \in Requests \ {r} : pc'[t] = pc[t]
    BY <1>2, StepTyped DEF IInv, Steps, WriteAddress
  <2>2. /\ addressed' \in [Requests -> BOOLEAN] /\ written' \in [Requests -> BOOLEAN]
        /\ ~written'[r] /\ \A t \in Requests \ {r} : written'[t] = written[t]
    BY <1>2 DEF Holding, IInv, TypeInv, RequestType
  <2>3. TypeInv'
    BY <2>1, <2>2 DEF IInv, TypeInv
  <2>4. /\ answer'[r] = None
        /\ req'[r].id \in CustomerIds /\ Owned(req'[r].id, req'[r].owner)
    BY <2>1 DEF IInv, JobInv
  <2> QED
    BY <2>1, <2>2, <2>3, <2>4, UnwrittenStep
<1> QED
  BY <1>1, <1>2 DEF WriteAddress

LEMMA WriteCompanyStep ==
    ASSUME IInv, NEW r \in Requests, WriteCompany(r) PROVE IInv'
<1>1. CASE /\ Finish(r, "company", "error", <<req[r].id, req[r].document>>)
           /\ req[r].document # None
  <2>1. req[r].id \in CustomerIds /\ req[r].document \in Documents
    BY <1>1 DEF WriteCompany, IInv, JobInv, TypeInv, RequestType
  <2>2. <<"error", <<req[r].id, req[r].document>>>> \in Answers
    BY <2>1 DEF Answers
  <2> QED
    BY <1>1, <2>2, RefusedStep DEF WriteCompany
<1>2. CASE /\ Step(r, "company", "commit")
           /\ Holding(r, addressed[r], TRUE)
           /\ UNCHANGED req
           /\ ~(req[r].document # None
                   /\ Taken(req[r].owner, req[r].document, req[r].id))
  <2>1. /\ pc' \in [Requests -> Steps] /\ UNCHANGED <<answer, req, customers>>
        /\ pc[r] = "company" /\ pc'[r] = "commit"
        /\ \A t \in Requests \ {r} : pc'[t] = pc[t]
    BY <1>2, StepTyped DEF IInv, Steps, WriteCompany
  <2>2. /\ addressed' \in [Requests -> BOOLEAN] /\ written' \in [Requests -> BOOLEAN]
        /\ written'[r] /\ \A t \in Requests \ {r} : written'[t] = written[t]
    BY <1>2 DEF Holding, IInv, TypeInv
  <2>3. TypeInv'
    BY <2>1, <2>2 DEF IInv, TypeInv
  <2>4. JobInv'
    BY <2>1, <2>2 DEF IInv, JobInv, Owned
  <2>5. IndexInv' /\ NoMixture'
    BY <2>1 DEF IInv, IndexInv, NoMixture
  <2>6. WriterInv'
    BY <2>1 DEF IInv, WriterInv
  <2>7. KeyInv'
    <3>1. \A t \in Requests \ {r} :
             written[t] /\ req[t].owner = req[r].owner /\ req[r].document # None
             => req[t].document # req[r].document
      BY <1>2 DEF WriteCompany, KeyLocked
    <3>2. ~written[r]
      BY <2>1 DEF IInv, JobInv
    <3> QED
      BY <1>2, <2>1, <2>2, <3>1, <3>2 DEF IInv, KeyInv, Taken, Owned
  <2> QED
    BY <2>3, <2>4, <2>5, <2>6, <2>7 DEF IInv
<1> QED
  BY <1>1, <1>2 DEF WriteCompany

(* A row that is written keeps its owner, and no row goes.                  *)
LEMMA InsertStep == ASSUME IInv, NEW r \in Requests, Insert(r) PROVE IInv'
<1>1. CASE Finish(r, "insert", "conflict", req[r].document) /\ UNCHANGED customers
  <2>1. <<"conflict", req[r].document>> \in Answers
    BY DEF Insert, IInv, JobInv, Answers
  <2> QED
    BY <1>1, <2>1, RefusedStep
<1>2. ASSUME ~Taken(req[r].owner, req[r].document, None),
             NEW i \in CustomerIds, customers[i] = None,
             customers' = [customers EXCEPT ![i] = NewRow(r)],
             Finish(r, "insert", "created", i)
      PROVE  IInv'
  <2>1. /\ pc' \in [Requests -> Steps] /\ answer' \in [Requests -> Answers]
        /\ pc[r] = "insert" /\ pc'[r] = "done"
        /\ \A t \in Requests \ {r} : pc'[t] = pc[t] /\ answer'[t] = answer[t]
        /\ req' \in [Requests -> RequestType]
        /\ addressed' \in [Requests -> BOOLEAN] /\ written' \in [Requests -> BOOLEAN]
        /\ ~written'[r]
        /\ \A t \in Requests \ {r} : req'[t] = req[t] /\ written'[t] = written[t]
        /\ \A t \in Requests : /\ req'[t].contact = req[t].contact
                               /\ req'[t].address = req[t].address
    BY <1>2, FinishTyped DEF IInv, Answers
  <2>2. /\ NewRow(r) \in Row /\ NewRow(r) # None
        /\ NewRow(r).owner = req[r].owner /\ NewRow(r).document = req[r].document
        /\ NewRow(r).contact = r /\ NewRow(r).address = r
    <3>1. req[r].owner \in Owners /\ req[r].document \in Documents /\ req[r].type \in Types
      BY <2>1 DEF IInv, JobInv
    <3>2. NewRow(r) \in Row
      BY <3>1 DEF NewRow, Row
    <3> QED
      BY <3>2, NamesAssumption DEF NewRow
  <2>3. /\ customers' \in [CustomerIds -> Row \cup {None}]
        /\ customers'[i] = NewRow(r)
        /\ \A j \in CustomerIds \ {i} : customers'[j] = customers[j]
    BY <1>2, <2>2 DEF IInv, TypeInv
  <2>4. TypeInv'
    BY <2>1, <2>3 DEF IInv, TypeInv
  <2>5. JobInv'
    BY <1>2, <2>1, <2>3 DEF IInv, JobInv, Owned
  <2>6. \A j \in CustomerIds :
           customers[j] # None /\ customers[j].owner = req[r].owner =>
              customers[j].document # req[r].document
    BY <1>2, NamesAssumption DEF Taken, Owned
  <2>7. IndexInv'
    BY <2>2, <2>3, <2>6 DEF IInv, IndexInv
  <2>8. KeyInv'
    <3>1. \A t \in Requests \ {r} :
             written[t] /\ req[t].owner = req[r].owner /\ req[t].document # None
             => req[r].document # req[t].document
      BY DEF Insert, KeyLocked
    <3>2. \A t \in Requests \ {r} : written[t] /\ req[t].document # None
             => ~Taken(req[t].owner, req[t].document, req[t].id)'
      BY <2>1, <2>2, <2>3, <3>1 DEF IInv, KeyInv, Taken, Owned
    <3> QED
      BY <2>1, <3>2 DEF IInv, KeyInv
  <2>9. WriterInv'
    BY <2>1, <2>2, <2>3 DEF IInv, WriterInv
  <2>10. NoMixture'
    BY <2>1, <2>2, <2>3 DEF IInv, NoMixture
  <2> QED
    BY <2>4, <2>5, <2>7, <2>8, <2>9, <2>10 DEF IInv
<1> QED
  BY <1>1, <1>2 DEF Insert

LEMMA CommitStep == ASSUME IInv, NEW r \in Requests, Commit(r) PROVE IInv'
<1> DEFINE i == req[r].id
           row == Updated(r, customers[i])
<1>1. /\ pc[r] = "commit" /\ i \in CustomerIds
      /\ Owned(i, req[r].owner) /\ customers[i] \in Row
  BY DEF Commit, Finish, Respond, IInv, JobInv, TypeInv, Owned
<1>2. /\ pc' \in [Requests -> Steps] /\ answer' \in [Requests -> Answers]
      /\ pc'[r] = "done"
      /\ \A t \in Requests \ {r} : pc'[t] = pc[t] /\ answer'[t] = answer[t]
      /\ req' \in [Requests -> RequestType]
      /\ addressed' \in [Requests -> BOOLEAN] /\ written' \in [Requests -> BOOLEAN]
      /\ ~written'[r]
      /\ \A t \in Requests \ {r} : req'[t] = req[t] /\ written'[t] = written[t]
      /\ \A t \in Requests : /\ req'[t].contact = req[t].contact
                             /\ req'[t].address = req[t].address
  BY <1>1, FinishTyped DEF Commit, IInv, Answers
<1>3. /\ row \in Row /\ row # None /\ row.owner = req[r].owner
      /\ row.document = Given(req[r].document, customers[i].document)
      /\ row.removed = customers[i].removed
      /\ row.contact = IF req[r].contact THEN r ELSE customers[i].contact
      /\ row.address = IF req[r].address THEN r ELSE customers[i].address
  <2>1. /\ Given(req[r].document, customers[i].document) \in Documents
        /\ Given(req[r].type, customers[i].type) \in Types
    BY <1>1 DEF Given, Row, IInv, TypeInv, RequestType
  <2>2. row \in Row
    BY <1>1, <2>1 DEF Updated, Row
  <2> QED
    BY <1>1, <2>2, NamesAssumption DEF Updated, Row, Owned
<1>4. /\ customers' \in [CustomerIds -> Row \cup {None}]
      /\ customers'[i] = row
      /\ \A j \in CustomerIds \ {i} : customers'[j] = customers[j]
  BY <1>1, <1>3 DEF Commit, IInv, TypeInv
<1> HIDE DEF row
<1>5. TypeInv'
  BY <1>2, <1>4 DEF IInv, TypeInv
<1>6. \A j \in CustomerIds : \A o : Owned(j, o) <=> Owned(j, o)'
  BY <1>1, <1>3, <1>4 DEF Owned
<1>7. JobInv'
  BY <1>2, <1>6 DEF IInv, JobInv
<1>8. \A j \in CustomerIds \ {i} : Owned(j, req[r].owner) =>
         customers[j].document # row.document
  <2>1. CASE req[r].document = None
    BY <1>1, <1>3, <2>1 DEF IInv, IndexInv, Owned, Given
  <2>2. CASE req[r].document # None
    BY <1>1, <1>3, <2>2 DEF IInv, JobInv, KeyInv, Taken, Given
  <2> QED
    BY <2>1, <2>2
<1>9. IndexInv'
  BY <1>1, <1>3, <1>4, <1>8 DEF IInv, IndexInv, Owned
<1>10. KeyInv'
  <2>1. ASSUME NEW t \in Requests \ {r}, written[t], req[t].document # None,
               NEW j \in CustomerIds \ {req[t].id}, Owned(j, req[t].owner)
        PROVE  customers'[j].document # req[t].document
    <3>1. customers[j].document # req[t].document
      BY <2>1 DEF IInv, KeyInv, Taken
    <3>2. CASE j = i
      <4>1. req[t].owner = req[r].owner /\ written[r]
        BY <1>1, <2>1, <3>2 DEF Owned, IInv, JobInv
      <4>2. req[r].document # req[t].document
        BY <2>1, <4>1 DEF IInv, KeyInv
      <4> QED
        BY <1>3, <1>4, <3>1, <3>2, <4>2 DEF Given
    <3>3. CASE j # i
      BY <1>4, <3>1, <3>3
    <3> QED
      BY <3>2, <3>3
  <2>2. \A t \in Requests \ {r} : written[t] /\ req[t].document # None
           => ~Taken(req[t].owner, req[t].document, req[t].id)'
    BY <1>2, <1>6, <2>1 DEF Taken
  <2> QED
    BY <1>2, <2>2 DEF IInv, KeyInv
<1>11. WriterInv'
  BY <1>1, <1>2, <1>3, <1>4 DEF IInv, WriterInv, Owned
<1>12. NoMixture'
  BY <1>1, <1>2, <1>3, <1>4 DEF IInv, NoMixture, Owned
<1> QED
  BY <1>5, <1>7, <1>9, <1>10, <1>11, <1>12 DEF IInv

LEMMA MarkRemovedStep ==
    ASSUME IInv, NEW r \in Requests, MarkRemoved(r) PROVE IInv'
<1> DEFINE i == req[r].id
<1>1. /\ pc[r] = "remove" /\ i \in CustomerIds
      /\ Owned(i, req[r].owner) /\ customers[i] \in Row
  BY DEF MarkRemoved, IInv, JobInv, TypeInv, Owned
<1>2. /\ pc' \in [Requests -> Steps] /\ answer' \in [Requests -> Answers]
      /\ pc'[r] = "done" /\ UNCHANGED <<req, addressed, written>>
      /\ \A t \in Requests \ {r} : pc'[t] = pc[t] /\ answer'[t] = answer[t]
  BY <1>1, RespondTyped DEF MarkRemoved, IInv, Answers
<1>3. /\ customers' \in [CustomerIds -> Row \cup {None}]
      /\ \A j \in CustomerIds :
            /\ customers'[j] = None <=> customers[j] = None
            /\ customers[j] # None =>
                 /\ customers'[j].owner = customers[j].owner
                 /\ customers'[j].document = customers[j].document
                 /\ customers'[j].contact = customers[j].contact
                 /\ customers'[j].address = customers[j].address
  BY <1>1, NamesAssumption DEF MarkRemoved, IInv, TypeInv, Row, Owned
<1>4. \A j \in CustomerIds : \A o : Owned(j, o) <=> Owned(j, o)'
  BY <1>3 DEF Owned
<1>5. TypeInv'
  BY <1>2, <1>3 DEF IInv, TypeInv
<1>6. JobInv'
  BY <1>1, <1>2, <1>4 DEF IInv, JobInv
<1>7. IndexInv'
  BY <1>3 DEF IInv, IndexInv
<1>8. KeyInv'
  BY <1>2, <1>3 DEF IInv, KeyInv, Taken, Owned
<1>9. WriterInv' /\ NoMixture'
  BY <1>2, <1>3 DEF IInv, WriterInv, NoMixture
<1> QED
  BY <1>5, <1>6, <1>7, <1>8, <1>9 DEF IInv

LEMMA StepIInv == IInv /\ [Next]_vars => IInv'
<1>1. ASSUME IInv, UNCHANGED vars PROVE IInv'
  <2>1. TypeInv' /\ JobInv' /\ IndexInv'
    BY <1>1 DEF vars, IInv, TypeInv, JobInv, IndexInv, Owned
  <2>2. KeyInv' /\ WriterInv' /\ NoMixture'
    BY <1>1 DEF vars, IInv, KeyInv, WriterInv, NoMixture, Taken, Owned
  <2> QED
    BY <2>1, <2>2 DEF IInv
<1> QED
  BY <1>1, StartStep, InsertStep, WriteAddressStep, WriteCompanyStep, CommitStep,
     MarkRemovedStep, FailStep DEF Next

-----------------------------------------------------------------------------
(* Theorems *)

LEMMA Invariance == Spec => []IInv
  BY InitIInv, StepIInv, PTL DEF Spec

(* However many updates overlap, no company ends up with the address of one *)
(* beside the contact of another that set both (PrismaCustomerRepository.   *)
(* update writes the two tables in one transaction).                        *)
THEOREM CustomersNotMixed == Spec => []NoMixture
<1>1. IInv => NoMixture
  BY DEF IInv
<1> QED
  BY Invariance, <1>1, PTL

(* A removed company stays removed, however many requests write it.         *)
THEOREM CustomersStayRemoved == Spec => RemovedStaysRemoved
<1>1. IInv /\ [Next]_vars =>
         [\A i \in CustomerIds : customers[i] # None /\ customers[i].removed =>
             customers'[i].removed]_vars
  <2> SUFFICES ASSUME IInv, Next, NEW i \in CustomerIds,
                      customers[i] # None, customers[i].removed
               PROVE  customers'[i].removed
    OBVIOUS
  <2>1. customers[i] \in Row
    BY DEF IInv, TypeInv
  <2> PICK r \in Requests : \/ Start(r)
                            \/ Insert(r) \/ WriteAddress(r) \/ WriteCompany(r)
                            \/ Commit(r) \/ MarkRemoved(r) \/ Fail(r)
    BY DEF Next
  <2>2. CASE UNCHANGED customers
    BY <2>2
  <2>3. CASE Insert(r) \/ MarkRemoved(r)
    BY <2>1, <2>3 DEF Insert, MarkRemoved, IInv, TypeInv, Row
  <2>4. CASE Commit(r)
    <3>1. customers' = [customers EXCEPT ![req[r].id] = Updated(r, @)]
      BY <2>4 DEF Commit
    <3>2. Updated(r, customers[i]).removed = customers[i].removed
      BY <2>1 DEF Updated, Row
    <3> QED
      BY <3>1, <3>2 DEF IInv, TypeInv
  <2> QED
    BY <2>2, <2>3, <2>4 DEF Start, CheckSector, Find, List, FindForUpdate,
       FindForRemove, Ask, WriteAddress, WriteCompany, Fail
<1> QED
  BY <1>1, Invariance, PTL DEF Spec, RemovedStaysRemoved

-----------------------------------------------------------------------------
(* The view of one owner *)

LEMMA MineIs ==
    \A i \in CustomerIds : Mine[i] = IF IsWatched(i) THEN customers[i] ELSE None
  BY DEF Mine

(* What a request is told, once it has been answered and to its owner.      *)
LEMMA ToldIs ==
    ASSUME IInv, NEW r \in Requests, pc[r] # "done",
           NEW what, NEW about, answer' = [answer EXCEPT ![r] = <<what, about>>],
           \A t \in Requests \ {r} : req'[t].owner = req[t].owner
    PROVE  /\ Told[r] = None
           /\ Told' = [Told EXCEPT ![r] =
                          IF req'[r].owner = Watched THEN <<what, about>> ELSE None]
  BY DEF Told, IInv, TypeInv, JobInv

(* An answer that leaves the companies alone. *)
LEMMA ToldOnly ==
    ASSUME IInv, NEW r \in Requests, pc[r] # "done", UNCHANGED customers,
           NEW what, NEW about, answer' = [answer EXCEPT ![r] = <<what, about>>],
           \A t \in Requests \ {r} : req'[t].owner = req[t].owner
    PROVE  /\ UNCHANGED Mine
           /\ req'[r].owner = Watched => Own!Tell(r, what, about)
           /\ req'[r].owner # Watched => UNCHANGED Told
<1>1. UNCHANGED Mine
  BY DEF Mine, IsWatched
<1>2. /\ Told[r] = None
      /\ Told' = [Told EXCEPT ![r] =
                     IF req'[r].owner = Watched THEN <<what, about>> ELSE None]
  BY ToldIs
<1>3. UNCHANGED Told <=> Told' = [Told EXCEPT ![r] = None]
  BY <1>2 DEF Told
<1> QED
  BY <1>1, <1>2, <1>3 DEF Own!Tell

(* A query that answers nothing yet. *)
LEMMA NothingTold ==
    ASSUME IInv, NEW r \in Requests, pc[r] # "done", UNCHANGED <<customers, answer>>,
           \A t \in Requests \ {r} : req'[t].owner = req[t].owner
    PROVE  UNCHANGED <<Mine, Told>>
  BY DEF Mine, Told, IsWatched, IInv, JobInv

OwnStep == [Own!Next]_<<Mine, Told>>

LEMMA StartRefines == ASSUME IInv, NEW r \in Requests, Start(r) PROVE OwnStep
<1> PICK q \in Asked : CheckSector(r, q) \/ Find(r, q) \/ List(r, q)
                          \/ FindForUpdate(r, q) \/ FindForRemove(r, q)
  BY DEF Start
<1>1. \E kind : Ask(r, q, kind) /\ q.kind = kind
  BY DEF CheckSector, Find, List, FindForUpdate, FindForRemove, Ask
<1>2. /\ pc[r] = "idle" /\ req'[r] = q /\ UNCHANGED customers
      /\ \A t \in Requests \ {r} : req'[t] = req[t]
  BY <1>1, AskTyped DEF IInv
<1>3. q.kind \in {"find", "update", "remove"} => q.id \in CustomerIds
  BY DEF Asked, WellFormed
<1>4. CASE UNCHANGED answer
  BY <1>2, <1>4, NothingTold DEF OwnStep
<1>5. CASE \/ Respond(r, "idle", "unknownSector", None)
           \/ Respond(r, "idle", "notFound", q.id) /\ q.id \in CustomerIds
                 /\ ~Active(q.id, q.owner)
           \/ Respond(r, "idle", "found", q.id) /\ q.id \in CustomerIds
                 /\ Active(q.id, q.owner)
           \/ Respond(r, "idle", "listed", {i \in CustomerIds : Active(i, q.owner)})
  <2> PICK what, about :
         /\ answer' = [answer EXCEPT ![r] = <<what, about>>]
         /\ \/ what = "unknownSector" /\ about = None
            \/ what = "notFound" /\ about \in CustomerIds /\ ~Active(about, q.owner)
            \/ what = "found" /\ about \in CustomerIds /\ Active(about, q.owner)
            \/ what = "listed" /\ about = {i \in CustomerIds : Active(i, q.owner)}
    BY <1>5 DEF Respond
  <2>1. /\ UNCHANGED Mine
        /\ q.owner = Watched => Own!Tell(r, what, about)
        /\ q.owner # Watched => UNCHANGED Told
    BY <1>2, ToldOnly
  <2>2. \A i \in CustomerIds : Active(i, Watched) <=> Mine[i] # None /\ ~Mine[i].removed
    BY NamesAssumption DEF Mine, IsWatched, Active, Owned
  <2>3. Own!Listed = {i \in CustomerIds : Active(i, Watched)}
    BY <2>2 DEF Own!Listed
  <2>4. q.owner = Watched => Own!Next
    BY <2>1, <2>3 DEF Own!Next, Own!NotFound, Own!Found, Own!List, Own!Refused
  <2> QED
    BY <2>1, <2>4 DEF OwnStep
<1> QED
  BY <1>3, <1>4, <1>5 DEF CheckSector, Find, List, FindForUpdate, FindForRemove,
     Ask, Step, Active

(* A bad request or a failure. *)
LEMMA RefusalRefines ==
    ASSUME IInv, NEW r \in Requests, NEW from, from # "done",
           NEW what \in {"noAddress", "error"},
           Finish(r, from, what, None), UNCHANGED customers
    PROVE  OwnStep
<1>1. /\ pc[r] = from /\ answer' = [answer EXCEPT ![r] = <<what, None>>]
      /\ \A t \in Requests : req'[t].owner = req[t].owner
  BY DEF Finish, Respond, IInv, TypeInv, RequestType
<1>2. /\ UNCHANGED Mine
      /\ req'[r].owner = Watched => Own!Tell(r, what, None)
      /\ req'[r].owner # Watched => UNCHANGED Told
  BY <1>1, ToldOnly
<1> QED
  BY <1>2 DEF OwnStep, Own!Next, Own!Refused

(* An update refused by the unique index. *)
LEMMA DuplicateRefines ==
    ASSUME IInv, NEW r \in Requests, pc[r] = "company",
           Finish(r, "company", "error", <<req[r].id, req[r].document>>),
           Taken(req[r].owner, req[r].document, req[r].id), UNCHANGED customers
    PROVE  OwnStep
<1> DEFINE about == <<req[r].id, req[r].document>>
<1>1. /\ answer' = [answer EXCEPT ![r] = <<"error", about>>]
      /\ \A t \in Requests : req'[t].owner = req[t].owner
  BY DEF Finish, Respond, IInv, TypeInv, RequestType
<1>2. /\ UNCHANGED Mine
      /\ req[r].owner = Watched => Own!Tell(r, "error", about)
      /\ req[r].owner # Watched => UNCHANGED Told
  BY <1>1, ToldOnly
<1>3. PICK j \in CustomerIds \ {req[r].id} :
         Owned(j, req[r].owner) /\ customers[j].document = req[r].document
  BY DEF Taken
<1>4. req[r].id \in CustomerIds /\ Owned(req[r].id, req[r].owner)
  BY DEF IInv, JobInv
<1>5. req[r].owner = Watched =>
         /\ Mine[req[r].id] # None /\ Mine[j] # None
         /\ Mine[j].document = req[r].document
  BY <1>3, <1>4 DEF Mine, IsWatched, Owned
<1>6. req[r].owner = Watched => Own!Duplicate(r)
  BY <1>2, <1>3, <1>4, <1>5 DEF Own!Duplicate
<1> QED
  BY <1>2, <1>6 DEF OwnStep, Own!Next

LEMMA QuietRefines ==
    ASSUME IInv, NEW r \in Requests, WriteAddress(r) \/ WriteCompany(r) \/ Fail(r)
    PROVE  OwnStep
<1>1. CASE \E from \in Steps, what \in {"noAddress", "error"} :
              from # "done" /\ Finish(r, from, what, None) /\ UNCHANGED customers
  BY <1>1, RefusalRefines
<1>2. CASE UNCHANGED <<customers, answer, req>>
  BY <1>2 DEF OwnStep, Mine, Told, IsWatched
<1>3. CASE WriteCompany(r) /\ req[r].document # None
              /\ Taken(req[r].owner, req[r].document, req[r].id)
  BY <1>3, DuplicateRefines DEF WriteCompany
<1>4. CASE WriteCompany(r) /\ ~(req[r].document # None
              /\ Taken(req[r].owner, req[r].document, req[r].id))
  BY <1>2, <1>4 DEF WriteCompany, Step
<1>5. CASE WriteAddress(r) \/ Fail(r)
  BY <1>1, <1>2, <1>5 DEF WriteAddress, Fail, Step, Steps, IInv, TypeInv
<1> QED
  BY <1>3, <1>4, <1>5

(* One row of an owner is written, and its request is answered.             *)
LEMMA Written ==
    ASSUME IInv, NEW r \in Requests, pc[r] # "done",
           NEW i \in CustomerIds, NEW row, row \in Row, row.owner = req[r].owner,
           customers[i] = None \/ Owned(i, req[r].owner),
           customers' = [customers EXCEPT ![i] = row],
           NEW what, NEW about, answer' = [answer EXCEPT ![r] = <<what, about>>],
           \A t \in Requests : req'[t].owner = req[t].owner
    PROVE  /\ req[r].owner # Watched => UNCHANGED <<Mine, Told>>
           /\ req[r].owner = Watched => /\ Own!Tell(r, what, about)
                                        /\ Mine' = [Mine EXCEPT ![i] = row]
                                        /\ Mine'[i] = row /\ row # None
                                        /\ Mine[i] = customers[i]
<1>1. row # None /\ customers'[i] = row
      /\ \A j \in CustomerIds \ {i} : customers'[j] = customers[j]
  BY NamesAssumption DEF IInv, TypeInv
<1>2. /\ Told[r] = None
      /\ Told' = [Told EXCEPT ![r] =
                     IF req'[r].owner = Watched THEN <<what, about>> ELSE None]
  BY ToldIs
<1>3. CASE req[r].owner # Watched
  <2>1. UNCHANGED Told
    BY <1>2, <1>3 DEF Told
  <2>2. \A j \in CustomerIds :
           (IF IsWatched(j) THEN customers[j] ELSE None)
             = (IF IsWatched(j) THEN customers[j] ELSE None)'
    BY <1>1, <1>3 DEF IsWatched, Owned
  <2> QED
    BY <1>3, <2>1, <2>2 DEF Mine
<1>4. CASE req[r].owner = Watched
  <2>1. \A j \in CustomerIds :
           Mine'[j] = IF j = i THEN row ELSE Mine[j]
    BY <1>1, <1>4 DEF Mine, IsWatched
  <2>2. Mine' = [Mine EXCEPT ![i] = row]
    BY <2>1 DEF Mine
  <2>3. Mine[i] = customers[i]
    BY <1>4 DEF Mine, IsWatched, Owned
  <2> QED
    BY <1>1, <1>2, <1>4, <2>1, <2>2, <2>3 DEF Own!Tell
<1> QED
  BY <1>3, <1>4

(* The watched owner holds a document where the table says so.              *)
LEMMA HoldsIs ==
    ASSUME NEW document
    PROVE  Own!Holds(document) =
              {i \in CustomerIds : Owned(i, Watched) /\ customers[i].document = document}
  BY DEF Own!Holds, Mine, IsWatched, Owned

LEMMA InsertRefines == ASSUME IInv, NEW r \in Requests, Insert(r) PROVE OwnStep
<1>1. CASE /\ Finish(r, "insert", "conflict", req[r].document)
           /\ Taken(req[r].owner, req[r].document, None)
           /\ UNCHANGED customers
  <2>1. /\ pc[r] = "insert" /\ answer' = [answer EXCEPT ![r] = <<"conflict", req[r].document>>]
        /\ \A t \in Requests : req'[t].owner = req[t].owner
    BY <1>1 DEF Finish, Respond, IInv, TypeInv, RequestType
  <2>2. /\ UNCHANGED Mine
        /\ req[r].owner = Watched => Own!Tell(r, "conflict", req[r].document)
        /\ req[r].owner # Watched => UNCHANGED Told
    BY <1>1, <2>1, ToldOnly
  <2>3. req[r].owner = Watched => \E i \in CustomerIds :
           Mine[i] # None /\ Mine[i].document = req[r].document
    BY <1>1 DEF Taken, Owned, Mine, IsWatched
  <2>4. req[r].owner = Watched => Own!Next
    BY <2>2, <2>3 DEF Own!Next, Own!Conflict
  <2> QED
    BY <2>2, <2>4 DEF OwnStep
<1>2. ASSUME ~Taken(req[r].owner, req[r].document, None),
             NEW i \in CustomerIds, customers[i] = None,
             customers' = [customers EXCEPT ![i] = NewRow(r)],
             Finish(r, "insert", "created", i)
      PROVE  OwnStep
  <2>1. /\ pc[r] = "insert" /\ answer' = [answer EXCEPT ![r] = <<"created", i>>]
        /\ \A t \in Requests : req'[t].owner = req[t].owner
    BY <1>2 DEF Finish, Respond, IInv, TypeInv, RequestType
  <2>2. /\ NewRow(r) \in Row /\ NewRow(r).owner = req[r].owner
        /\ NewRow(r).document = req[r].document /\ ~NewRow(r).removed
    BY <2>1 DEF NewRow, Row, IInv, JobInv
  <2>3. /\ req[r].owner # Watched => UNCHANGED <<Mine, Told>>
        /\ req[r].owner = Watched => /\ Own!Tell(r, "created", i)
                                     /\ Mine' = [Mine EXCEPT ![i] = NewRow(r)]
                                     /\ Mine'[i] = NewRow(r) /\ NewRow(r) # None
                                     /\ Mine[i] = customers[i]
    BY <1>2, <2>1, <2>2, Written
  <2>4. req[r].owner = Watched => Own!Holds(req[r].document) = {}
    BY <1>2, HoldsIs, NamesAssumption DEF Taken
  <2>5. req[r].owner = Watched => Own!Create(r)
    BY <1>2, <2>2, <2>3, <2>4 DEF Own!Create
  <2> QED
    BY <2>3, <2>5 DEF OwnStep, Own!Next
<1> QED
  BY <1>1, <1>2 DEF Insert

LEMMA CommitRefines == ASSUME IInv, NEW r \in Requests, Commit(r) PROVE OwnStep
<1> DEFINE i == req[r].id
           row == Updated(r, customers[i])
<1>1. /\ pc[r] = "commit" /\ i \in CustomerIds /\ written[r]
      /\ Owned(i, req[r].owner) /\ customers[i] \in Row
      /\ answer' = [answer EXCEPT ![r] = <<"updated", i>>]
      /\ \A t \in Requests : req'[t].owner = req[t].owner
  BY DEF Commit, Finish, Respond, IInv, JobInv, TypeInv, RequestType, Owned
<1>2. /\ row \in Row /\ row.owner = req[r].owner
      /\ row.document = Given(req[r].document, customers[i].document)
      /\ row.removed = customers[i].removed
  <2>1. /\ Given(req[r].document, customers[i].document) \in Documents
        /\ Given(req[r].type, customers[i].type) \in Types
    BY <1>1 DEF Given, Row, IInv, TypeInv, RequestType
  <2>2. row \in Row
    BY <1>1, <2>1 DEF Updated, Row
  <2> QED
    BY <1>1, <2>2 DEF Updated, Row, Owned
<1>3. customers' = [customers EXCEPT ![i] = row]
  BY <1>1 DEF Commit, IInv, TypeInv
<1> HIDE DEF row
<1>4. /\ req[r].owner # Watched => UNCHANGED <<Mine, Told>>
      /\ req[r].owner = Watched => /\ Own!Tell(r, "updated", i)
                                   /\ Mine' = [Mine EXCEPT ![i] = row]
                                   /\ Mine'[i] = row /\ row # None
                                   /\ Mine[i] = customers[i]
  BY <1>1, <1>2, <1>3, Written
<1>5. \A j \in CustomerIds : Owned(j, req[r].owner) /\ customers[j].document = row.document
         => j = i
  <2>1. CASE req[r].document = None
    BY <1>1, <1>2, <2>1 DEF IInv, IndexInv, Owned, Given
  <2>2. CASE req[r].document # None
    BY <1>1, <1>2, <2>2 DEF IInv, KeyInv, Taken, Given
  <2> QED
    BY <2>1, <2>2
<1>6. req[r].owner = Watched => Own!Holds(row.document) \subseteq {i}
  BY <1>5, HoldsIs
<1>7. req[r].owner = Watched => Own!Update(r)
  BY <1>1, <1>2, <1>4, <1>6 DEF Own!Update, Owned
<1> QED
  BY <1>4, <1>7 DEF OwnStep, Own!Next

LEMMA MarkRemovedRefines ==
    ASSUME IInv, NEW r \in Requests, MarkRemoved(r) PROVE OwnStep
<1> DEFINE i == req[r].id
           row == [customers[i] EXCEPT !.removed = TRUE]
<1>1. /\ pc[r] = "remove" /\ i \in CustomerIds
      /\ Owned(i, req[r].owner) /\ customers[i] \in Row
      /\ answer' = [answer EXCEPT ![r] = <<"removed", i>>] /\ UNCHANGED req
  BY DEF MarkRemoved, Respond, IInv, JobInv, TypeInv, Owned
<1>2. row \in Row /\ row.owner = req[r].owner
  BY <1>1 DEF Row, Owned
<1>3. customers' = [customers EXCEPT ![i] = row]
  BY DEF MarkRemoved, IInv, TypeInv
<1>4. /\ req[r].owner # Watched => UNCHANGED <<Mine, Told>>
      /\ req[r].owner = Watched => /\ Own!Tell(r, "removed", i)
                                   /\ Mine' = [Mine EXCEPT ![i] = row]
                                   /\ Mine[i] = customers[i]
  <2>1. pc[r] # "done" /\ \A t \in Requests : req'[t].owner = req[t].owner
    BY <1>1
  <2> HIDE DEF row
  <2> QED
    BY <1>1, <1>2, <1>3, <2>1, Written
<1>5. req[r].owner = Watched => Own!Remove(r)
  <2>1. req[r].owner = Watched => Mine' = [Mine EXCEPT ![i].removed = TRUE]
    BY <1>4
  <2> QED
    BY <1>1, <1>4, <2>1 DEF Own!Remove, Owned
<1> QED
  BY <1>4, <1>5 DEF OwnStep, Own!Next

(* To every owner the portfolio is a store of its own companies: whatever   *)
(* the other owners do, every answer it gets is one its own companies       *)
(* explain (CustomerRepository: "Multi-tenant boundary").                   *)
THEOREM CustomersIsolated == Spec => Isolation
<1>1. Init => Own!Init
  <2> SUFFICES ASSUME Init PROVE Own!Init
    OBVIOUS
  <2>1. Told = [r \in Requests |-> None]
    BY DEF Init, Told
  <2>2. \A i, j \in CustomerIds : i # j /\ Mine[i] # None /\ Mine[j] # None =>
           Mine[i].document # Mine[j].document
    BY InitIInv DEF IInv, IndexInv, Mine, IsWatched
  <2> QED
    BY <2>1, <2>2 DEF Own!Init
<1>2. IInv /\ [Next]_vars => OwnStep
  <2>1. UNCHANGED vars => OwnStep
    BY DEF vars, OwnStep, Mine, Told, IsWatched
  <2> QED
    BY <2>1, StartRefines, InsertRefines, QuietRefines, CommitRefines,
       MarkRemovedRefines DEF Next
<1> QED
  BY <1>1, <1>2, Invariance, PTL DEF Spec, Isolation, Own!Spec, OwnStep
=============================================================================
