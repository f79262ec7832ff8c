----------------------- MODULE IndicatorCatalogProofs -----------------------
(* Theorems about IndicatorCatalog, for any requests, accounts, customers   *)
(* and names, and a catalog of any length.                                  *)
EXTENDS IndicatorCatalog, SequenceTheorems, WellFoundedInduction, TLAPS

-----------------------------------------------------------------------------
(* The inductive invariant *)

Entry == [owner : Accounts \cup {None}, name : Names]

Indicating == {"indicator", "searching", "linking", "creating"}
Customizing == {"metric", "inserting"}
Replacing == {"replacement", "writing", "deleting", "deleted"}
Steps == Indicating \cup Customizing \cup Replacing \cup {"idle", "answered"}

TypeInv ==
    /\ catalog \in Seq(Entry)
    /\ links \in [Customers -> SUBSET Ids]
    /\ pc \in [Requests -> Steps]
    /\ req \in [Requests -> {NoRequest} \cup Indicator \cup CustomMetric \cup Replacement]
    /\ DOMAIN found = Requests
    /\ horizon \in [Requests -> 0 .. Len(catalog)]
    /\ DOMAIN doomed = Requests
    /\ DOMAIN added = Requests

(* What a request is for, and that the entries it will link are there.      *)
JobInv(r) ==
    /\ pc[r] \in Indicating => req[r] \in Indicator
    /\ pc[r] \in Customizing => req[r] \in CustomMetric
    /\ pc[r] \in Replacing => req[r] \in Replacement
    /\ pc[r] \in {"writing", "deleting", "deleted"} => req[r].metrics \subseteq Ids
    /\ pc[r] = "linking" => found[r] \in Ids

(* The links of the customer are those the delete will take, or has taken,  *)
(* and those that came across it.                                           *)
DeletingInv(r) ==
    /\ pc[r] = "deleting" => links[req[r].customer] \subseteq doomed[r] \cup added[r]
    /\ pc[r] = "deleted" => links[req[r].customer] \ doomed[r] \subseteq added[r]

(* The entry a request is about to create was not there when it searched.   *)
SearchInv(r) ==
    pc[r] = "creating" =>
        \A m \in Matches(req[r].account, req[r].name) : m > horizon[r]

IInv ==
    /\ TypeInv
    /\ \A r \in Requests : JobInv(r) /\ DeletingInv(r) /\ SearchInv(r)

LEMMA InitIInv == Init => IInv
<1> SUFFICES ASSUME Init PROVE IInv
  OBVIOUS
<1>1. catalog \in Seq(Entry) /\ Len(catalog) \in Nat
  <2> PICK n \in 0..1 : catalog \in [1..n -> [owner : {None}, name : Names]]
    BY DEF Init
  <2>1. [owner : {None}, name : Names] \subseteq Entry
    BY DEF Entry
  <2>2. catalog \in [1..n -> Entry] /\ n \in Nat
    BY <2>1
  <2> QED
    BY <2>2, IsASeq, LenProperties
<1>2. TypeInv
  BY <1>1 DEF Init, TypeInv, Steps
<1> QED
  BY <1>2 DEF IInv, Init, JobInv, DeletingInv, SearchInv, Indicating, Customizing,
     Replacing

-----------------------------------------------------------------------------
(* The steps *)

(* A step of one request that leaves the tables and the deletes alone.      *)
LEMMA UnwrittenStep ==
    ASSUME IInv, NEW r \in Requests, UNCHANGED <<catalog, links, doomed, added>>,
           TypeInv', JobInv(r)', SearchInv(r)', pc'[r] \notin {"deleting", "deleted"},
           \A t \in Requests \ {r} :
              /\ pc'[t] = pc[t] /\ req'[t] = req[t]
              /\ found'[t] = found[t] /\ horizon'[t] = horizon[t]
    PROVE  IInv'
<1>1. ASSUME NEW t \in Requests \ {r} PROVE (JobInv(t) /\ DeletingInv(t) /\ SearchInv(t))'
  <2>1. JobInv(t)'
    BY DEF IInv, JobInv, Ids
  <2>2. DeletingInv(t)'
    BY DEF IInv, DeletingInv
  <2>3. SearchInv(t)'
    BY DEF IInv, SearchInv, Matches, Visible, Ids
  <2> QED
    BY <2>1, <2>2, <2>3
<1>2. DeletingInv(r)'
  BY DEF DeletingInv
<1> QED
  BY <1>1, <1>2 DEF IInv

LEMMA GotoTyped ==
    ASSUME TypeInv, NEW r \in Requests, NEW from, NEW to \in Steps, Goto(r, from, to)
    PROVE  /\ pc' \in [Requests -> Steps] /\ pc[r] = from /\ pc'[r] = to
           /\ \A t \in Requests \ {r} : pc'[t] = pc[t]
  BY DEF TypeInv, Goto

LEMMA AnswerTyped ==
    ASSUME TypeInv, NEW r \in Requests, NEW from, NEW code, Answer(r, from, code)
    PROVE  /\ pc' \in [Requests -> Steps] /\ pc[r] = from /\ pc'[r] = "answered"
           /\ \A t \in Requests \ {r} : pc'[t] = pc[t]
<1>1. "answered" \in Steps
  BY DEF Steps
<1> QED
  BY <1>1, GotoTyped DEF Answer

LEMMA ThrowStep ==
    ASSUME IInv, NEW r \in Requests, NEW from, NEW code, Answer(r, from, code),
           UNCHANGED <<tables, req, searched, replacing>>
    PROVE  IInv'
<1>1. UNCHANGED <<catalog, links, req, found, horizon, doomed, added>>
  BY DEF tables, searched, replacing
<1>2. TypeInv' /\ pc'[r] = "answered" /\ \A t \in Requests \ {r} : pc'[t] = pc[t]
  BY <1>1, AnswerTyped DEF IInv, TypeInv, Ids
<1>3. JobInv(r)' /\ SearchInv(r)'
  BY <1>2 DEF JobInv, SearchInv, Indicating, Customizing, Replacing
<1> QED
  BY <1>1, <1>2, <1>3, UnwrittenStep

LEMMA ReceiveStep ==
    ASSUME IInv, NEW r \in Requests, NEW first, NEW asked,
           \/ first = "indicator" /\ asked \in Indicator
           \/ first = "metric" /\ asked \in CustomMetric
           \/ first = "replacement" /\ asked \in Replacement,
           Receive(r, first, asked)
    PROVE  IInv'
<1>1. /\ first \in Steps /\ Goto(r, "idle", first)
      /\ req' = [req EXCEPT ![r] = asked]
      /\ UNCHANGED <<catalog, links, found, horizon, doomed, added>>
  BY DEF Receive, tables, searched, replacing, Steps, Indicating, Customizing, Replacing
<1>2. /\ pc' \in [Requests -> Steps] /\ pc'[r] = first
      /\ \A t \in Requests \ {r} : pc'[t] = pc[t]
  BY <1>1, GotoTyped DEF IInv
<1>3. TypeInv' /\ req'[r] = asked /\ \A t \in Requests \ {r} : req'[t] = req[t]
  BY <1>1, <1>2 DEF IInv, TypeInv, Ids
<1>4. JobInv(r)' /\ SearchInv(r)'
  BY <1>2, <1>3 DEF JobInv, SearchInv, Indicating, Customizing, Replacing
<1>5. pc'[r] \notin {"deleting", "deleted"}
  BY <1>2
<1> QED
  BY <1>1, <1>2, <1>3, <1>4, <1>5, UnwrittenStep

(* From one query to the next, of the same kind of request. *)
LEMMA CheckedStep ==
    ASSUME IInv, NEW r \in Requests, NEW from, NEW to,
           \/ from = "indicator" /\ to = "searching"
           \/ from = "metric" /\ to = "inserting"
           \/ from = "replacement" /\ to = "writing" /\ req[r].metrics \subseteq Ids,
           Goto(r, from, to), UNCHANGED <<tables, req, searched, replacing>>
    PROVE  IInv'
<1>1. to \in Steps /\ UNCHANGED <<catalog, links, req, found, horizon, doomed, added>>
  BY DEF tables, searched, replacing, Steps, Indicating, Customizing, Replacing
<1>2. /\ pc' \in [Requests -> Steps] /\ pc[r] = from /\ pc'[r] = to
      /\ \A t \in Requests \ {r} : pc'[t] = pc[t]
  BY <1>1, GotoTyped DEF IInv
<1>3. TypeInv'
  BY <1>1, <1>2 DEF IInv, TypeInv, Ids
<1>4. JobInv(r)' /\ SearchInv(r)' /\ pc'[r] \notin {"deleting", "deleted"}
  BY <1>1, <1>2 DEF IInv, JobInv, SearchInv, Indicating, Customizing, Replacing, Ids
<1> QED
  BY <1>1, <1>2, <1>3, <1>4, UnwrittenStep

LEMMA SearchCatalogStep ==
    ASSUME IInv, NEW r \in Requests, SearchCatalog(r) PROVE IInv'
<1> DEFINE matches == Matches(req[r].account, req[r].name)
<1>1. /\ UNCHANGED <<catalog, links, req, doomed, added>>
      /\ horizon' = [horizon EXCEPT ![r] = Len(catalog)]
  BY DEF SearchCatalog, tables, replacing
<1>2. Len(catalog) \in Nat /\ matches \subseteq Ids /\ matches \subseteq Nat
  BY LenProperties DEF IInv, TypeInv, Matches, Visible, Ids
<1>3. PICK to \in {"creating", "linking"} :
          /\ Goto(r, "searching", to)
          /\ to = "creating" => matches = {} /\ UNCHANGED found
          /\ to = "linking" => /\ matches # {}
                               /\ found' = [found EXCEPT ![r] = Oldest(matches)]
  BY DEF SearchCatalog
<1>4. /\ pc' \in [Requests -> Steps] /\ pc[r] = "searching" /\ pc'[r] = to
      /\ \A t \in Requests \ {r} : pc'[t] = pc[t]
  <2>1. to \in Steps
    BY DEF Steps, Indicating
  <2> QED
    BY <1>3, <2>1, GotoTyped DEF IInv
<1>5. to = "linking" => Oldest(matches) \in Ids
  <2> SUFFICES ASSUME matches # {} PROVE Oldest(matches) \in matches
    BY <1>2, <1>3
  <2>1. \E m \in matches : \A other \in matches : m <= other
    <3> HIDE DEF matches
    <3>1. PICK m \in matches : \A other \in matches : <<other, m>> \notin OpToRel(<, Nat)
      BY <1>2, WFMin, NatLessThanWellFounded
    <3>2. \A other \in matches : ~(other < m)
      BY <1>2, <3>1 DEF OpToRel
    <3> QED
      BY <1>2, <3>2
  <2> QED
    BY <2>1 DEF Oldest
<1>6. /\ TypeInv'
      /\ to = "linking" => found'[r] \in Ids
      /\ \A t \in Requests \ {r} : found'[t] = found[t] /\ horizon'[t] = horizon[t]
  <2>1. /\ horizon' \in [Requests -> 0 .. Len(catalog)']
        /\ \A t \in Requests \ {r} : horizon'[t] = horizon[t]
    BY <1>1, <1>2 DEF IInv, TypeInv
  <2>2. /\ DOMAIN found' = Requests
        /\ to = "linking" => found'[r] = Oldest(matches)
        /\ \A t \in Requests \ {r} : found'[t] = found[t]
    BY <1>3 DEF IInv, TypeInv
  <2> QED
    BY <1>1, <1>4, <1>5, <2>1, <2>2 DEF IInv, TypeInv, Ids
<1>7. JobInv(r)'
  BY <1>1, <1>4, <1>6 DEF IInv, JobInv, Indicating, Customizing, Replacing, Ids
<1>8. SearchInv(r)'
  BY <1>1, <1>3, <1>4 DEF SearchInv, Matches, Visible, Ids
<1> QED
  BY <1>1, <1>4, <1>6, <1>7, <1>8, UnwrittenStep

(* A step that commits links of a customer, and an entry of the catalog     *)
(* perhaps: every delete that is open takes note of them.                   *)
LEMMA CommittedStep ==
    ASSUME IInv, NEW r \in Requests, NEW c \in Customers, NEW new \in SUBSET Ids',
           NEW kept \in SUBSET links[c], Commit(r, c, new),
           links' = [links EXCEPT ![c] = kept \cup new],
           UNCHANGED <<req, found, horizon, doomed>>,
           catalog' = catalog \/ \E e \in Entry : catalog' = Append(catalog, e),
           pc' \in [Requests -> Steps], pc'[r] = "answered",
           \A t \in Requests \ {r} : pc'[t] = pc[t]
    PROVE  IInv'
<1>1. /\ catalog' \in Seq(Entry) /\ Ids \subseteq Ids'
      /\ Len(catalog) \in Nat /\ Len(catalog) <= Len(catalog)'
      /\ \A m \in Ids : catalog'[m] = catalog[m]
      /\ \A m \in Ids' \ Ids : m > Len(catalog)
  <2>1. CASE catalog' = catalog
    BY <2>1, LenProperties DEF IInv, TypeInv, Ids
  <2>2. CASE \E e \in Entry : catalog' = Append(catalog, e)
    BY <2>2, LenProperties, AppendProperties DEF IInv, TypeInv, Ids
  <2> QED
    BY <2>1, <2>2
<1>2. /\ links' \in [Customers -> SUBSET Ids']
      /\ links'[c] \subseteq links[c] \cup new
      /\ \A b \in Customers \ {c} : links'[b] = links[b]
  BY <1>1 DEF IInv, TypeInv
<1>3. /\ DOMAIN added' = Requests
      /\ \A t \in Requests : added[t] \subseteq added'[t]
      /\ \A t \in Requests \ {r} :
            req[t].customer = c /\ pc[t] \in {"deleting", "deleted"} =>
                new \subseteq added'[t]
  BY DEF Commit
<1>4. TypeInv'
  <2>1. horizon' \in [Requests -> 0 .. Len(catalog)']
    BY <1>1 DEF IInv, TypeInv
  <2> QED
    BY <1>1, <1>2, <1>3, <2>1 DEF IInv, TypeInv
<1>5. ASSUME NEW t \in Requests PROVE (JobInv(t) /\ DeletingInv(t) /\ SearchInv(t))'
  <2>1. CASE t = r
    BY <2>1 DEF JobInv, DeletingInv, SearchInv, Indicating, Customizing, Replacing
  <2>2. CASE t # r
    <3>1. pc'[t] = pc[t] /\ req'[t] = req[t] /\ doomed'[t] = doomed[t]
      BY <2>2
    <3>2. JobInv(t)'
      BY <1>1, <3>1 DEF IInv, JobInv
    <3>3. DeletingInv(t)'
      <4> SUFFICES ASSUME pc[t] \in {"deleting", "deleted"} PROVE DeletingInv(t)'
        BY <3>1 DEF DeletingInv
      <4>1. req[t].customer \in Customers
        BY DEF IInv, JobInv, Replacing, Replacement
      <4>2. CASE req[t].customer = c
        BY <1>2, <1>3, <2>2, <3>1, <4>2 DEF IInv, DeletingInv
      <4>3. CASE req[t].customer # c
        BY <1>2, <1>3, <3>1, <4>1, <4>3 DEF IInv, DeletingInv
      <4> QED
        BY <4>2, <4>3
    <3>4. SearchInv(t)'
      <4> SUFFICES ASSUME pc[t] = "creating",
                          NEW m \in Matches(req[t].account, req[t].name)'
                   PROVE  m > horizon[t]
        BY <3>1 DEF SearchInv
      <4>1. CASE m \in Ids
        <5>1. m \in Matches(req[t].account, req[t].name)
          BY <1>1, <4>1 DEF Matches, Visible
        <5> QED
          BY <5>1 DEF IInv, SearchInv
      <4>2. CASE m \notin Ids
        <5>1. m \in Ids' \ Ids /\ m \in Nat
          BY <1>1, <4>2, LenProperties DEF Matches, Visible, Ids
        <5>2. horizon[t] \in 0 .. Len(catalog)
          BY DEF IInv, TypeInv
        <5> QED
          BY <1>1, <5>1, <5>2
      <4> QED
        BY <4>1, <4>2
    <3> QED
      BY <3>2, <3>3, <3>4
  <2> QED
    BY <2>1, <2>2
<1> QED
  BY <1>4, <1>5 DEF IInv

LEMMA LinkStep == ASSUME IInv, NEW r \in Requests, Link(r) PROVE IInv'
<1> DEFINE c == req[r].customer
           new == {found[r]}
<1>1. /\ Answer(r, "linking", 201) /\ links' = [links EXCEPT ![c] = links[c] \cup new]
      /\ Commit(r, c, new) /\ UNCHANGED <<catalog, req, found, horizon, doomed>>
  BY DEF Link, searched
<1>2. /\ pc' \in [Requests -> Steps] /\ pc[r] = "linking" /\ pc'[r] = "answered"
      /\ \A t \in Requests \ {r} : pc'[t] = pc[t]
  BY <1>1, AnswerTyped DEF IInv
<1>3. c \in Customers /\ new \in SUBSET Ids'
  BY <1>1, <1>2 DEF IInv, JobInv, Indicating, Indicator, Ids
<1> HIDE DEF c, new
<1> QED
  BY <1>1, <1>2, <1>3, CommittedStep

LEMMA Inserted ==
    ASSUME TypeInv, NEW a \in Accounts, NEW name \in Names, Insert(a, name)
    PROVE  /\ \E e \in Entry : catalog' = Append(catalog, e)
           /\ Len(catalog) + 1 \in Ids'
<1>1. [owner |-> a, name |-> name] \in Entry
  BY DEF Entry
<1> QED
  BY <1>1, LenProperties, AppendProperties DEF TypeInv, Insert, Ids

LEMMA CreateAndLinkStep ==
    ASSUME IInv, NEW r \in Requests, CreateAndLink(r) PROVE IInv'
<1> DEFINE c == req[r].customer
           new == {Len(catalog) + 1}
<1>1. /\ Insert(req[r].account, req[r].name) /\ Answer(r, "creating", 201)
      /\ links' = [links EXCEPT ![c] = links[c] \cup new]
      /\ Commit(r, c, new) /\ UNCHANGED <<req, found, horizon, doomed>>
  BY DEF CreateAndLink, searched
<1>2. /\ pc' \in [Requests -> Steps] /\ pc[r] = "creating" /\ pc'[r] = "answered"
      /\ \A t \in Requests \ {r} : pc'[t] = pc[t]
  BY <1>1, AnswerTyped DEF IInv
<1>3. c \in Customers /\ req[r].account \in Accounts /\ req[r].name \in Names
  BY <1>2 DEF IInv, JobInv, Indicating, Indicator
<1>4. /\ \E e \in Entry : catalog' = Append(catalog, e)
      /\ new \in SUBSET Ids'
  BY <1>1, <1>3, Inserted DEF IInv
<1> HIDE DEF c, new
<1> QED
  BY <1>1, <1>2, <1>3, <1>4, CommittedStep

LEMMA InsertMetricStep ==
    ASSUME IInv, NEW r \in Requests, InsertMetric(r) PROVE IInv'
<1>1. CASE Throw(r, "inserting", MetricsFilter)
  BY <1>1, ThrowStep DEF Throw
<1>2. CASE ~Throw(r, "inserting", MetricsFilter)
  <2>1. /\ Insert(req[r].account, req[r].name) /\ Answer(r, "inserting", 201)
        /\ UNCHANGED <<links, req, found, horizon, doomed, added>>
    BY <1>2 DEF InsertMetric, searched, replacing
  <2>2. /\ pc' \in [Requests -> Steps] /\ pc[r] = "inserting" /\ pc'[r] = "answered"
        /\ \A t \in Requests \ {r} : pc'[t] = pc[t]
    BY <2>1, AnswerTyped DEF IInv
  <2>3. req[r].account \in Accounts /\ req[r].name \in Names
    BY <2>2 DEF IInv, JobInv, Customizing, CustomMetric
  <2>4. PICK e \in Entry : catalog' = Append(catalog, e)
    BY <2>1, <2>3, Inserted DEF IInv
  <2>5. /\ catalog' \in Seq(Entry) /\ Ids \subseteq Ids'
        /\ Len(catalog) \in Nat /\ Len(catalog)' = Len(catalog) + 1
        /\ \A m \in Ids : catalog'[m] = catalog[m]
        /\ \A m \in Ids' \ Ids : m \in Nat /\ m > Len(catalog)
    BY <2>4, LenProperties, AppendProperties DEF IInv, TypeInv, Ids
  <2>6. TypeInv'
    <3>1. horizon' \in [Requests -> 0 .. Len(catalog)']
      BY <2>1, <2>5 DEF IInv, TypeInv
    <3>2. links' \in [Customers -> SUBSET Ids']
      BY <2>1, <2>5 DEF IInv, TypeInv
    <3> QED
      BY <2>1, <2>2, <2>5, <3>1, <3>2 DEF IInv, TypeInv
  <2>7. ASSUME NEW t \in Requests PROVE (JobInv(t) /\ DeletingInv(t) /\ SearchInv(t))'
    <3>1. CASE t = r
      BY <2>2, <3>1 DEF JobInv, DeletingInv, SearchInv, Indicating, Customizing, Replacing
    <3>2. CASE t # r
      <4>1. pc'[t] = pc[t] /\ req'[t] = req[t]
        BY <2>1, <2>2, <3>2
      <4>2. JobInv(t)' /\ DeletingInv(t)'
        BY <2>1, <2>5, <4>1 DEF IInv, JobInv, DeletingInv
      <4>3. SearchInv(t)'
        <5> SUFFICES ASSUME pc[t] = "creating",
                            NEW m \in Matches(req[t].account, req[t].name)'
                     PROVE  m > horizon[t]
          BY <2>1, <4>1 DEF SearchInv
        <5>1. CASE m \in Ids
          <6>1. m \in Matches(req[t].account, req[t].name)
            BY <2>5, <4>1, <5>1 DEF Matches, Visible
          <6> QED
            BY <6>1 DEF IInv, SearchInv
        <5>2. CASE m \notin Ids
          <6>1. m \in Ids' \ Ids
            BY <5>2 DEF Matches, Visible
          <6>2. horizon[t] \in 0 .. Len(catalog)
            BY DEF IInv, TypeInv
          <6> QED
            BY <2>5, <6>1, <6>2
        <5> QED
          BY <5>1, <5>2
      <4> QED
        BY <4>2, <4>3
    <3> QED
      BY <3>1, <3>2
  <2> QED
    BY <2>6, <2>7 DEF IInv
<1> QED
  BY <1>1, <1>2

(* The two statements of a replacement's delete. *)
LEMMA DeleteStep ==
    ASSUME IInv, NEW r \in Requests, StartDelete(r) \/ FinishDelete(r) PROVE IInv'
<1>1. PICK from, to \in Steps :
          /\ Goto(r, from, to)
          /\ \/ from = "writing" /\ to = "deleting"
             \/ from = "deleting" /\ to = "deleted"
  BY DEF StartDelete, FinishDelete, Steps, Replacing
<1>2. /\ pc' \in [Requests -> Steps] /\ pc[r] = from /\ pc'[r] = to
      /\ \A t \in Requests \ {r} : pc'[t] = pc[t]
  BY <1>1, GotoTyped DEF IInv
<1>3. /\ UNCHANGED <<catalog, links, req, found, horizon>>
      /\ DOMAIN doomed' = Requests /\ DOMAIN added' = Requests
      /\ \A t \in Requests \ {r} : doomed'[t] = doomed[t] /\ added'[t] = added[t]
  BY DEF StartDelete, FinishDelete, tables, searched, IInv, TypeInv
<1>4. TypeInv'
  BY <1>2, <1>3 DEF IInv, TypeInv, Ids
<1>5. DeletingInv(r)'
  <2>1. CASE StartDelete(r)
    <3>1. doomed'[r] = links[req[r].customer] /\ pc'[r] = "deleting"
      BY <2>1 DEF StartDelete, Goto, IInv, TypeInv
    <3> QED
      BY <1>3, <3>1 DEF DeletingInv
  <2>2. CASE FinishDelete(r)
    <3>1. /\ doomed'[r] = (doomed[r] \cap links[req[r].customer]) \ added[r]
          /\ UNCHANGED added /\ pc[r] = "deleting" /\ pc'[r] = "deleted"
      BY <2>2 DEF FinishDelete, Goto, IInv, TypeInv
    <3>2. links[req[r].customer] \subseteq doomed[r] \cup added[r]
      BY <3>1 DEF IInv, DeletingInv
    <3> QED
      BY <1>3, <3>1, <3>2 DEF DeletingInv
  <2> QED
    BY <2>1, <2>2
<1>6. ASSUME NEW t \in Requests PROVE JobInv(t)' /\ SearchInv(t)'
  <2>1. JobInv(t)'
    BY <1>1, <1>2, <1>3 DEF IInv, JobInv, Indicating, Customizing, Replacing, Ids
  <2>2. SearchInv(t)'
    BY <1>1, <1>2, <1>3 DEF IInv, SearchInv, Matches, Visible, Ids
  <2> QED
    BY <2>1, <2>2
<1>7. \A t \in Requests \ {r} : DeletingInv(t)'
  BY <1>2, <1>3 DEF IInv, DeletingInv
<1> QED
  BY <1>4, <1>5, <1>6, <1>7 DEF IInv

LEMMA InsertLinksStep ==
    ASSUME IInv, NEW r \in Requests, InsertLinks(r) PROVE IInv'
<1> DEFINE c == req[r].customer
           new == req[r].metrics
           kept == Remaining(c, r)
<1>1. /\ Answer(r, "deleted", 204) /\ links' = [links EXCEPT ![c] = kept \cup new]
      /\ Commit(r, c, new) /\ UNCHANGED <<catalog, req, found, horizon, doomed>>
  BY DEF InsertLinks, searched
<1>2. /\ pc' \in [Requests -> Steps] /\ pc[r] = "deleted" /\ pc'[r] = "answered"
      /\ \A t \in Requests \ {r} : pc'[t] = pc[t]
  BY <1>1, AnswerTyped DEF IInv
<1>3. c \in Customers /\ new \in SUBSET Ids' /\ kept \in SUBSET links[c]
  BY <1>1, <1>2 DEF IInv, JobInv, Replacing, Replacement, Ids, Remaining
<1> HIDE DEF c, new, kept
<1> QED
  BY <1>1, <1>2, <1>3, CommittedStep

LEMMA StepIInv == IInv /\ [Next]_vars => IInv'
<1> SUFFICES ASSUME IInv, [Next]_vars PROVE IInv'
  OBVIOUS
<1>1. ASSUME NEW r \in Requests,
             \/ RejectCustomer(r) \/ RejectDuplicate(r) \/ CreateRefused(r)
             \/ InsertLinksRefused(r) \/ Abort(r)
      PROVE  IInv'
  BY <1>1, ThrowStep DEF RejectCustomer, RejectDuplicate, CreateRefused,
     InsertLinksRefused, Abort, Throw
<1>2. ASSUME NEW r \in Requests, PostIndicator(r) \/ PostMetric(r) \/ PutMetrics(r)
      PROVE  IInv'
  BY <1>2, ReceiveStep DEF PostIndicator, PostMetric, PutMetrics
<1>3. ASSUME NEW r \in Requests, CheckDuplicate(r) \/ CheckMetricName(r) \/ CheckMetrics(r)
      PROVE  IInv'
  <2>1. CASE CheckDuplicate(r)
    BY <2>1, CheckedStep DEF CheckDuplicate
  <2>2. CASE CheckMetricName(r)
    BY <2>2, CheckedStep, ThrowStep DEF CheckMetricName, Throw
  <2>3. CASE CheckMetrics(r)
    BY <2>3, CheckedStep, ThrowStep DEF CheckMetrics, Throw
  <2> QED
    BY <1>3, <2>1, <2>2, <2>3
<1>4. ASSUME NEW r \in Requests, IndicatorStep(r) PROVE IInv'
  BY <1>1, <1>2, <1>3, <1>4, SearchCatalogStep, LinkStep, CreateAndLinkStep
     DEF IndicatorStep
<1>5. ASSUME NEW r \in Requests, MetricStep(r) PROVE IInv'
  BY <1>2, <1>3, <1>5, InsertMetricStep DEF MetricStep
<1>6. ASSUME NEW r \in Requests, ReplacementStep(r) PROVE IInv'
  BY <1>1, <1>2, <1>3, <1>6, DeleteStep, InsertLinksStep DEF ReplacementStep
<1>7. CASE UNCHANGED vars
  BY <1>7 DEF vars, IInv, TypeInv, JobInv, DeletingInv, SearchInv, Matches, Visible, Ids
<1> QED
  BY <1>1, <1>4, <1>5, <1>6, <1>7 DEF Next

LEMMA AlwaysIInv == Spec => []IInv
  BY InitIInv, StepIInv, PTL DEF Spec

-----------------------------------------------------------------------------
(* The theorems *)

(* However the replacements and links of one customer interleave, what a    *)
(* replaceAll leaves linked is its own list and what others committed since *)
(* its delete began: its two statements leave nothing of the old list.      *)
THEOREM OldListGone == Spec => ReplacedListGone
<1>1. ASSUME IInv, NEW r \in Requests, InsertLinks(r)
      PROVE  links'[req[r].customer] \subseteq req[r].metrics \cup added[r]
  <2>1. pc[r] = "deleted"
    BY <1>1 DEF InsertLinks
  <2>2. req[r].customer \in Customers
    BY <1>1, <2>1 DEF IInv, JobInv, Replacing, Replacement
  <2>3. links'[req[r].customer] = (links[req[r].customer] \ doomed[r]) \cup req[r].metrics
    BY <1>1, <2>2 DEF IInv, TypeInv, InsertLinks, Remaining
  <2>4. links[req[r].customer] \ doomed[r] \subseteq added[r]
    BY <1>1, <2>1 DEF IInv, DeletingInv
  <2> QED
    BY <2>3, <2>4
<1>2. IInv /\ [Next]_vars =>
        [\A r \in Requests : InsertLinks(r) =>
            links'[req[r].customer] \subseteq req[r].metrics \cup added[r]]_vars
  BY <1>1
<1> QED
  BY <1>2, AlwaysIInv, PTL DEF Spec, ReplacedListGone

(* The duplicate key that replaceAll does not catch is never of its own     *)
(* making: another request has linked one of its metrics meanwhile.         *)
THEOREM RefusalNeedsOverlap == Spec => RefusedOnlyByOverlap
<1>1. ASSUME IInv, NEW r \in Requests, InsertLinksRefused(r)
      PROVE  req[r].metrics \cap added[r] # {}
  <2>1. links[req[r].customer] \ doomed[r] \subseteq added[r]
    BY <1>1 DEF IInv, DeletingInv, InsertLinksRefused
  <2> QED
    BY <1>1, <2>1 DEF InsertLinksRefused, Remaining
<1>2. IInv /\ [Next]_vars =>
        [\A r \in Requests : InsertLinksRefused(r) =>
            req[r].metrics \cap added[r] # {}]_vars
  BY <1>1
<1> QED
  BY <1>2, AlwaysIInv, PTL DEF Spec, RefusedOnlyByOverlap

(* An indicator is created beside an entry of the same word only if that    *)
(* entry was inserted after findInCatalogByName: whatever was in the        *)
(* catalog before, the account's or global, is reused.                      *)
THEOREM DuplicateIndicatorsOverlap == Spec => DuplicatesOnlyByOverlap
<1>1. ASSUME IInv, NEW r \in Requests, CreateAndLink(r), NEW m \in Ids,
             catalog[m].owner \in {None, req[r].account},
             Word(catalog[m].name) = Word(req[r].name)
      PROVE  m > horizon[r]
  <2>1. m \in Matches(req[r].account, req[r].name)
    BY <1>1 DEF Matches, Visible, SameName
  <2> QED
    BY <1>1, <2>1 DEF IInv, SearchInv, CreateAndLink
<1>2. IInv /\ [Next]_vars =>
        [\A r \in Requests : CreateAndLink(r) =>
            \A m \in Ids :
               /\ catalog[m].owner \in {None, req[r].account}
               /\ Word(catalog[m].name) = Word(req[r].name)
               => m > horizon[r]]_vars
  BY <1>1
<1> QED
  BY <1>2, AlwaysIInv, PTL DEF Spec, DuplicatesOnlyByOverlap
=============================================================================
