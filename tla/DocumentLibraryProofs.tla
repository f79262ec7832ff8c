------------------------ MODULE DocumentLibraryProofs ------------------------
(* Theorems about DocumentLibrary, for any requests, users, customers,      *)
(* folders and documents.                                                   *)
EXTENDS DocumentLibrary, TLAPS

-----------------------------------------------------------------------------
(* The inductive invariant *)

Steps == {"idle", "parent", "name", "insertFolder", "store", "insertDocument",
          "delete", "answer"}

RequestType ==
    [kind : Kinds \cup {"none"}, user : Users \cup {None},
     customer : Customers \cup {None}, folder : FolderIds \cup {None},
     name : Names \cup {None}, document : DocumentIds \cup {None}]

TypeInv ==
    /\ folders \in [FolderIds -> Folder \cup {None}]
    /\ documents \in [DocumentIds -> Document \cup {None}]
    /\ pc \in [Requests -> Steps]
    /\ req \in [Requests -> RequestType]
    /\ before \in [Requests -> [removed : BOOLEAN, deleted : SUBSET DocumentIds]]
    /\ since \in [Requests -> SUBSET FolderIds]

Adds(r) == pc[r] \in {"parent", "name", "insertFolder", "store", "insertDocument"}
Placed(r) == Adds(r) /\ pc[r] # "parent"

(* The place of a folder or a document: a folder that is there, of the same *)
(* customer, or none.                                                       *)
Place(folder, customer) ==
    folder # None => /\ folder \in FolderIds /\ folders[folder] # None
                     /\ folders[folder].customer = customer

(* What a request is for, and what it has found, holds on: folders and      *)
(* documents never change their customer, nor does a row vanish.            *)
RequestInv(r) ==
    /\ pc[r] # "idle" => req[r].user \in Users /\ req[r].customer \in Customers
    /\ pc[r] = "parent" => req[r].kind \in {"upload", "folder"}
    /\ pc[r] \in {"parent", "name", "insertFolder"} =>
          req[r].kind = "upload" \/ req[r].name \in Names
    /\ pc[r] \in {"name", "insertFolder"} => req[r].name \in Names
    /\ Placed(r) => Place(req[r].folder, req[r].customer)
    /\ pc[r] = "delete" => /\ req[r].document \in DocumentIds
                           /\ documents[req[r].document] # None

(* What had been removed before a request came in is out of its reach.      *)
ReachInv(r) ==
    /\ Adds(r) => ~before[r].removed
    /\ pc[r] # "idle" => before[r].deleted \subseteq Deleted
    /\ pc[r] = "answer" /\ req[r].kind = "url" =>
          req[r].document \notin before[r].deleted

(* The names like that of the new folder came after the request looked.     *)
NameInv(r) ==
    pc[r] = "insertFolder" =>
        FindByName(req[r].customer, req[r].folder, req[r].name) \subseteq since[r]

(* A stored file that has no row yet has one request that will insert it.   *)
StoredInv(r) ==
    pc[r] = "insertDocument" =>
        /\ req[r].document \in files \cap DocumentIds
        /\ documents[req[r].document] = None
        /\ \A t \in Requests \ {r} :
              pc[t] = "insertDocument" => req[t].document # req[r].document

PlaceInv ==
    /\ \A d \in DocumentIds : documents[d] # None =>
          Place(documents[d].folder, documents[d].customer)
    /\ \A f \in FolderIds : folders[f] # None =>
          Place(folders[f].parent, folders[f].customer)

RequestsInv ==
    \A r \in Requests : RequestInv(r) /\ ReachInv(r) /\ NameInv(r) /\ StoredInv(r)

IInv == TypeInv /\ RequestsInv /\ PlaceInv /\ FilesKept

LEMMA InitIInv == Init => IInv
<1> SUFFICES ASSUME Init PROVE IInv
  OBVIOUS
<1>1. TypeInv
  <2>1. NoRequest \in RequestType
    BY DEF NoRequest, RequestType
  <2>2. [customer |-> FirstCustomer, parent |-> None, name |-> RootName] \in Folder
    BY IdsAssumption DEF Folder
  <2>3. Nothing \in [removed : BOOLEAN, deleted : SUBSET DocumentIds]
    BY DEF Nothing
  <2> QED
    BY <2>1, <2>2, <2>3 DEF Init, TypeInv, Steps
<1>2. RequestsInv
  BY DEF Init, RequestsInv, RequestInv, ReachInv, NameInv, StoredInv, Adds, Placed
<1>3. PlaceInv
  BY DEF Init, PlaceInv, Place
<1> QED
  BY <1>1, <1>2, <1>3 DEF IInv, Init, FilesKept

-----------------------------------------------------------------------------
(* The steps *)

(* The statement that ends a request. *)
LEMMA DoneTyped ==
    ASSUME TypeInv, NEW r \in Requests, NEW from, Done(r, from)
    PROVE  /\ pc' \in [Requests -> Steps] /\ req' \in [Requests -> RequestType]
           /\ before' \in [Requests -> [removed : BOOLEAN, deleted : SUBSET DocumentIds]]
           /\ since' \in [Requests -> SUBSET FolderIds]
           /\ pc[r] = from /\ pc'[r] = "idle"
           /\ \A t \in Requests \ {r} :
                 /\ pc'[t] = pc[t] /\ req'[t] = req[t]
                 /\ before'[t] = before[t] /\ since'[t] = since[t]
<1>1. NoRequest \in RequestType
  BY DEF NoRequest, RequestType
<1>2. Nothing \in [removed : BOOLEAN, deleted : SUBSET DocumentIds]
  BY DEF Nothing
<1> QED
  BY <1>1, <1>2 DEF TypeInv, Done, Goto, Steps

(* A step of one request that writes no row. *)
LEMMA UnwrittenStep ==
    ASSUME IInv, NEW r \in Requests, TypeInv', UNCHANGED <<folders, documents>>,
           files \subseteq files', RequestInv(r)', ReachInv(r)', NameInv(r)',
           StoredInv(r)',
           \A t \in Requests \ {r} :
              /\ pc'[t] = pc[t] /\ req'[t] = req[t]
              /\ before'[t] = before[t] /\ since'[t] = since[t]
    PROVE  IInv'
<1>1. ASSUME NEW t \in Requests \ {r}
      PROVE  RequestInv(t)' /\ ReachInv(t)' /\ NameInv(t)' /\ StoredInv(t)'
  <2>1. RequestInv(t)'
    BY DEF IInv, RequestsInv, RequestInv, Adds, Placed, Place
  <2>2. ReachInv(t)'
    BY DEF IInv, RequestsInv, ReachInv, Adds, Deleted
  <2>3. NameInv(t)'
    BY DEF IInv, RequestsInv, NameInv, FindByName, Siblings
  <2>4. StoredInv(t)'
    BY DEF IInv, RequestsInv, StoredInv
  <2> QED
    BY <2>1, <2>2, <2>3, <2>4
<1>2. RequestsInv'
  BY <1>1 DEF RequestsInv
<1>3. PlaceInv'
  BY DEF IInv, PlaceInv, Place
<1>4. FilesKept'
  BY DEF IInv, FilesKept
<1> QED
  BY <1>2, <1>3, <1>4 DEF IInv

LEMMA ReceiveStep == ASSUME IInv, NEW r \in Requests, Receive(r) PROVE IInv'
<1> PICK q \in Asked :
         /\ WellFormed(q) /\ Admitted(q)
         /\ pc' = [pc EXCEPT ![r] = FirstStep(q)]
         /\ req' = [req EXCEPT ![r] = q]
         /\ before' = [before EXCEPT ![r] =
                          [removed |-> q.customer \in removed, deleted |-> Deleted]]
  BY DEF Receive
<1>1. FirstStep(q) \in {"store", "parent", "name", "delete", "answer"}
  BY DEF FirstStep
<1>2. TypeInv'
  <2>1. q \in RequestType
    BY DEF Asked, RequestType
  <2>2. [removed |-> q.customer \in removed, deleted |-> Deleted]
            \in [removed : BOOLEAN, deleted : SUBSET DocumentIds]
    BY DEF Deleted
  <2> QED
    BY <1>1, <2>1, <2>2 DEF Receive, tables, IInv, TypeInv, Steps
<1>3. /\ pc'[r] = FirstStep(q) /\ req'[r] = q
      /\ before'[r] = [removed |-> q.customer \in removed, deleted |-> Deleted]
      /\ UNCHANGED <<removed, folders, documents, files, since>>
      /\ \A t \in Requests \ {r} :
            pc'[t] = pc[t] /\ req'[t] = req[t] /\ before'[t] = before[t]
  BY DEF Receive, tables, IInv, TypeInv
<1>4. /\ q.user \in Users /\ q.customer \in Customers
      /\ q.kind \in Kinds /\ q.folder \in FolderIds \cup {None}
      /\ q.name \in Names \cup {None} /\ q.document \in DocumentIds \cup {None}
  BY DEF Asked
<1>5. RequestInv(r)'
  BY <1>1, <1>3, <1>4 DEF RequestInv, WellFormed, Admitted, FirstStep, FindDocument,
     Placed, Adds, Place, Kinds
<1>6. ReachInv(r)'
  <2>1. FirstStep(q) \in {"store", "parent", "name"} => q.kind \notin {"delete", "url"}
    BY DEF FirstStep
  <2>2. FirstStep(q) \in {"store", "parent", "name"} => q.customer \notin removed
    BY <2>1 DEF Admitted, FindOne
  <2>3. q.kind = "url" => q.document \notin Deleted
    BY DEF Admitted, FindDocument
  <2>4. Deleted' = Deleted
    BY <1>3 DEF Deleted
  <2>5. before'[r].deleted = Deleted /\ (q.customer \notin removed => ~before'[r].removed)
    <3> DEFINE gone == q.customer \in removed
    <3>1. gone \in BOOLEAN /\ before'[r] = [removed |-> gone, deleted |-> Deleted]
      BY <1>3
    <3> HIDE DEF gone
    <3>2. before'[r].deleted = Deleted /\ before'[r].removed = gone
      BY <3>1
    <3> QED
      BY <3>2 DEF gone
  <2>6. Adds(r)' => ~before'[r].removed
    BY <1>1, <1>3, <2>2, <2>5 DEF Adds
  <2> HIDE DEF Deleted
  <2> QED
    BY <1>3, <2>3, <2>4, <2>5, <2>6 DEF ReachInv
<1>7. NameInv(r)' /\ StoredInv(r)'
  BY <1>1, <1>3 DEF NameInv, StoredInv
<1> QED
  BY <1>2, <1>3, <1>5, <1>6, <1>7, UnwrittenStep

LEMMA RefuseStep ==
    ASSUME IInv, NEW r \in Requests, NEW from, Refuse(r, from) PROVE IInv'
<1>1. Done(r, from) /\ UNCHANGED <<removed, folders, documents, files>>
  BY DEF Refuse, tables
<1>2. TypeInv' /\ pc'[r] = "idle"
  BY <1>1, DoneTyped DEF IInv, TypeInv
<1>3. RequestInv(r)' /\ ReachInv(r)' /\ NameInv(r)' /\ StoredInv(r)'
  BY <1>2 DEF RequestInv, ReachInv, NameInv, StoredInv, Adds, Placed
<1> QED
  BY <1>1, <1>2, <1>3, DoneTyped, UnwrittenStep DEF IInv

LEMMA ContinueTyped ==
    ASSUME TypeInv, NEW r \in Requests, NEW from, NEW to \in Steps, Continue(r, from, to)
    PROVE  /\ TypeInv' /\ pc[r] = from /\ pc'[r] = to
           /\ UNCHANGED <<removed, folders, documents, files, req, before, since>>
           /\ \A t \in Requests \ {r} : pc'[t] = pc[t]
  BY DEF TypeInv, Continue, Goto, tables

LEMMA CheckParentStep == ASSUME IInv, NEW r \in Requests, CheckParent(r) PROVE IInv'
<1>1. CASE Refuse(r, "parent")
  BY <1>1, RefuseStep
<1>2. CASE ~Refuse(r, "parent")
  <2> DEFINE to == IF req[r].kind = "upload" THEN "store" ELSE "name"
  <2>1. FindFolder(req[r].folder, req[r].customer, req[r].user) /\ Continue(r, "parent", to)
    BY <1>2 DEF CheckParent
  <2>2. to \in {"store", "name"} /\ to \in Steps /\ (to = "name" => req[r].kind # "upload")
    BY DEF Steps
  <2> HIDE DEF to
  <2>3. /\ TypeInv' /\ pc[r] = "parent" /\ pc'[r] = to
        /\ UNCHANGED <<removed, folders, documents, files, req, before, since>>
        /\ \A t \in Requests \ {r} : pc'[t] = pc[t]
    BY <2>1, <2>2, ContinueTyped DEF IInv
  <2>4. req[r].folder \in FolderIds \cup {None}
    BY DEF IInv, TypeInv, RequestType
  <2>5. RequestInv(r)'
    BY <2>1, <2>2, <2>3, <2>4
       DEF IInv, RequestsInv, RequestInv, FindFolder, Placed, Adds, Place
  <2>6. ReachInv(r)'
    BY <2>2, <2>3 DEF IInv, RequestsInv, ReachInv, Adds, Deleted
  <2>7. NameInv(r)' /\ StoredInv(r)'
    BY <2>2, <2>3 DEF NameInv, StoredInv
  <2> QED
    BY <2>3, <2>5, <2>6, <2>7, UnwrittenStep
<1> QED
  BY <1>1, <1>2

LEMMA CheckNameStep == ASSUME IInv, NEW r \in Requests, CheckName(r) PROVE IInv'
<1>1. CASE Refuse(r, "name")
  BY <1>1, RefuseStep
<1>2. CASE ~Refuse(r, "name")
  <2>1. /\ FindByName(req[r].customer, req[r].folder, req[r].name) = {}
        /\ Continue(r, "name", "insertFolder")
    BY <1>2 DEF CheckName
  <2>2. /\ TypeInv' /\ pc[r] = "name" /\ pc'[r] = "insertFolder"
        /\ UNCHANGED <<removed, folders, documents, files, req, before, since>>
        /\ \A t \in Requests \ {r} : pc'[t] = pc[t]
    BY <2>1, ContinueTyped DEF IInv, Steps
  <2>3. RequestInv(r)'
    BY <2>2 DEF IInv, RequestsInv, RequestInv, Placed, Adds, Place
  <2>4. ReachInv(r)'
    BY <2>2 DEF IInv, RequestsInv, ReachInv, Adds, Deleted
  <2>5. NameInv(r)' /\ StoredInv(r)'
    BY <2>1, <2>2 DEF NameInv, StoredInv, FindByName, Siblings
  <2> QED
    BY <2>2, <2>3, <2>4, <2>5, UnwrittenStep
<1> QED
  BY <1>1, <1>2

LEMMA InsertFolderStep == ASSUME IInv, NEW r \in Requests, InsertFolder(r) PROVE IInv'
<1> DEFINE row == [customer |-> req[r].customer, parent |-> req[r].folder,
                   name |-> req[r].name]
<1> PICK f \in Unused(folders, FolderIds) :
         /\ pc[r] = "insertFolder"
         /\ folders' = [folders EXCEPT ![f] = row]
         /\ pc' = [pc EXCEPT ![r] = "idle"]
         /\ req' = [req EXCEPT ![r] = NoRequest]
         /\ before' = [before EXCEPT ![r] = Nothing]
         /\ since' = [t \in Requests |->
                        IF t # r /\ pc[t] = "insertFolder"
                        THEN since[t] \cup {f} ELSE IF t = r THEN {} ELSE since[t]]
         /\ UNCHANGED <<removed, documents, files>>
  BY DEF InsertFolder, Goto
<1>1. row \in Folder /\ Place(row.parent, row.customer)
  BY DEF IInv, TypeInv, RequestType, RequestsInv, RequestInv, Folder, Placed, Adds
<1> HIDE DEF row
<1>2. f \in FolderIds /\ folders[f] = None
  BY DEF Unused
<1>3. TypeInv'
  <2>1. NoRequest \in RequestType
    BY DEF NoRequest, RequestType
  <2>2. Nothing \in [removed : BOOLEAN, deleted : SUBSET DocumentIds]
    BY DEF Nothing
  <2> QED
    BY <1>1, <1>2, <2>1, <2>2 DEF IInv, TypeInv, Steps
<1>4. /\ folders'[f] = row /\ row # None
      /\ \A g \in FolderIds \ {f} : folders'[g] = folders[g]
      /\ pc'[r] = "idle"
      /\ \A t \in Requests \ {r} :
            pc'[t] = pc[t] /\ req'[t] = req[t] /\ before'[t] = before[t]
  BY <1>1, <1>2, IdsAssumption DEF IInv, TypeInv
<1>5. ASSUME NEW folder, NEW customer, Place(folder, customer)
      PROVE  Place(folder, customer)'
  BY <1>2, <1>4, <1>5 DEF Place
<1>6. ASSUME NEW t \in Requests
      PROVE  RequestInv(t)' /\ ReachInv(t)' /\ NameInv(t)' /\ StoredInv(t)'
  <2>1. CASE t = r
    BY <1>4, <2>1 DEF RequestInv, ReachInv, NameInv, StoredInv, Adds, Placed
  <2>2. CASE t # r
    <3>1. pc'[t] = pc[t] /\ req'[t] = req[t] /\ before'[t] = before[t]
      BY <1>4, <2>2
    <3>2. RequestInv(t)'
      BY <1>5, <3>1 DEF IInv, RequestsInv, RequestInv, Adds, Placed
    <3>3. ReachInv(t)'
      BY <3>1 DEF IInv, RequestsInv, ReachInv, Adds, Deleted
    <3>4. NameInv(t)'
      <4> SUFFICES ASSUME pc[t] = "insertFolder"
                   PROVE  FindByName(req[t].customer, req[t].folder, req[t].name)'
                             \subseteq since[t] \cup {f}
        BY <2>2, <3>1 DEF NameInv
      <4>1. FindByName(req[t].customer, req[t].folder, req[t].name) \subseteq since[t]
        BY DEF IInv, RequestsInv, NameInv
      <4> QED
        BY <1>4, <3>1, <4>1 DEF FindByName, Siblings
    <3>5. StoredInv(t)'
      BY <1>4, <3>1 DEF IInv, RequestsInv, StoredInv
    <3> QED
      BY <3>2, <3>3, <3>4, <3>5
  <2> QED
    BY <2>1, <2>2
<1>7. PlaceInv'
  BY <1>1, <1>4, <1>5 DEF IInv, PlaceInv
<1>8. FilesKept'
  BY DEF IInv, FilesKept
<1> QED
  BY <1>3, <1>6, <1>7, <1>8 DEF IInv, RequestsInv

LEMMA UploadStep == ASSUME IInv, NEW r \in Requests, Upload(r) PROVE IInv'
<1> PICK d \in {i \in DocumentIds : NewName(i)} :
         /\ Goto(r, "store", "insertDocument")
         /\ files' = files \cup {d}
         /\ req' = [req EXCEPT ![r].document = d]
         /\ UNCHANGED <<removed, folders, documents, before, since>>
  BY DEF Upload, tables
<1>1. TypeInv'
  BY DEF IInv, TypeInv, Goto, Steps, RequestType
<1>2. /\ pc[r] = "store" /\ pc'[r] = "insertDocument" /\ req'[r].document = d
      /\ req'[r].user = req[r].user /\ req'[r].customer = req[r].customer
      /\ req'[r].folder = req[r].folder
      /\ \A t \in Requests \ {r} : pc'[t] = pc[t] /\ req'[t] = req[t]
  BY DEF IInv, TypeInv, Goto, RequestType
<1>3. RequestInv(r)'
  BY <1>2 DEF IInv, RequestsInv, RequestInv, Placed, Adds, Place
<1>4. ReachInv(r)'
  BY <1>2 DEF IInv, RequestsInv, ReachInv, Adds, Deleted
<1>5. NameInv(r)'
  BY <1>2 DEF NameInv
<1>6. ASSUME NEW t \in Requests \ {r}
      PROVE  RequestInv(t)' /\ ReachInv(t)' /\ NameInv(t)'
  <2>1. RequestInv(t)'
    BY <1>2 DEF IInv, RequestsInv, RequestInv, Adds, Placed, Place
  <2>2. ReachInv(t)'
    BY <1>2 DEF IInv, RequestsInv, ReachInv, Adds, Deleted
  <2>3. NameInv(t)'
    BY <1>2 DEF IInv, RequestsInv, NameInv, FindByName, Siblings
  <2> QED
    BY <2>1, <2>2, <2>3
<1>7. \A t \in Requests : StoredInv(t)'
  BY <1>2 DEF IInv, RequestsInv, StoredInv, NewName
<1>8. PlaceInv'
  BY DEF IInv, PlaceInv, Place
<1>9. FilesKept'
  BY DEF IInv, FilesKept
<1> QED
  BY <1>1, <1>3, <1>4, <1>5, <1>6, <1>7, <1>8, <1>9 DEF IInv, RequestsInv

(* A request that writes the row of a document whose file is stored, and is *)
(* over.                                                                    *)
LEMMA DocumentWritten ==
    ASSUME IInv, NEW r \in Requests, NEW from, from # "idle", Done(r, from),
           NEW d \in DocumentIds, NEW row \in Document, d \in files,
           documents' = [documents EXCEPT ![d] = row],
           UNCHANGED <<removed, folders, files>>,
           Place(row.folder, row.customer),
           documents[d] # None /\ documents[d].deletedBy # None => row.deletedBy # None,
           \A t \in Requests \ {r} : pc[t] = "insertDocument" => req[t].document # d
    PROVE  IInv'
<1>1. /\ TypeInv' /\ pc'[r] = "idle"
      /\ \A t \in Requests \ {r} :
            /\ pc'[t] = pc[t] /\ req'[t] = req[t]
            /\ before'[t] = before[t] /\ since'[t] = since[t]
  BY DoneTyped DEF IInv, TypeInv
<1>2. /\ documents'[d] = row /\ row # None
      /\ \A e \in DocumentIds \ {d} : documents'[e] = documents[e]
  BY IdsAssumption DEF IInv, TypeInv
<1>3. Deleted \subseteq Deleted'
  BY <1>2 DEF Deleted
<1>4. ASSUME NEW t \in Requests
      PROVE  RequestInv(t)' /\ ReachInv(t)' /\ NameInv(t)' /\ StoredInv(t)'
  <2>1. CASE t = r
    BY <1>1, <2>1 DEF RequestInv, ReachInv, NameInv, StoredInv, Adds, Placed
  <2>2. CASE t # r
    <3>1. /\ pc'[t] = pc[t] /\ req'[t] = req[t]
          /\ before'[t] = before[t] /\ since'[t] = since[t]
      BY <1>1, <2>2
    <3>2. RequestInv(t)'
      BY <1>2, <3>1 DEF IInv, RequestsInv, RequestInv, Adds, Placed, Place
    <3>3. ReachInv(t)'
      BY <1>3, <3>1 DEF IInv, RequestsInv, ReachInv, Adds
    <3>4. NameInv(t)'
      BY <3>1 DEF IInv, RequestsInv, NameInv, FindByName, Siblings
    <3>5. StoredInv(t)'
      BY <1>1, <1>2, <2>2, <3>1 DEF IInv, RequestsInv, StoredInv
    <3> QED
      BY <3>2, <3>3, <3>4, <3>5
  <2> QED
    BY <2>1, <2>2
<1>5. PlaceInv'
  BY <1>2 DEF IInv, PlaceInv, Place
<1>6. FilesKept'
  BY <1>2 DEF IInv, FilesKept
<1> QED
  BY <1>1, <1>4, <1>5, <1>6 DEF IInv, RequestsInv

LEMMA InsertDocumentStep ==
    ASSUME IInv, NEW r \in Requests, InsertDocument(r) PROVE IInv'
<1> DEFINE row == [customer |-> req[r].customer, folder |-> req[r].folder,
                   uploadedBy |-> req[r].user, deletedBy |-> None]
           d == req[r].document
<1>1. /\ Done(r, "insertDocument") /\ documents' = [documents EXCEPT ![d] = row]
      /\ UNCHANGED <<removed, folders, files>>
  BY DEF InsertDocument
<1>2. pc[r] = "insertDocument"
  BY <1>1 DEF Done, Goto
<1>3. row \in Document /\ Place(row.folder, row.customer)
  BY <1>2 DEF IInv, TypeInv, RequestType, RequestsInv, RequestInv, Document, Placed, Adds
<1>4. /\ d \in DocumentIds /\ d \in files /\ documents[d] = None
      /\ \A t \in Requests \ {r} : pc[t] = "insertDocument" => req[t].document # d
  BY <1>2 DEF IInv, RequestsInv, StoredInv
<1> HIDE DEF row, d
<1> QED
  BY <1>1, <1>3, <1>4, DocumentWritten

LEMMA SoftDeleteStep ==
    ASSUME IInv, NEW r \in Requests, SoftDelete(r) PROVE IInv'
<1> DEFINE d == req[r].document
           row == [documents[d] EXCEPT !.deletedBy = req[r].user]
<1>1. /\ Done(r, "delete") /\ documents' = [documents EXCEPT ![d] = row]
      /\ UNCHANGED <<removed, folders, files>>
  BY DEF SoftDelete
<1>2. pc[r] = "delete"
  BY <1>1 DEF Done, Goto
<1>3. /\ d \in DocumentIds /\ documents[d] # None /\ req[r].user \in Users
  BY <1>2 DEF IInv, RequestsInv, RequestInv
<1>4. documents[d] \in Document
  BY <1>3 DEF IInv, TypeInv
<1>5. /\ row \in Document /\ row.deletedBy # None
      /\ row.folder = documents[d].folder /\ row.customer = documents[d].customer
  BY <1>3, <1>4, IdsAssumption DEF Document
<1>6. d \in files /\ Place(row.folder, row.customer)
  BY <1>3, <1>5 DEF IInv, FilesKept, PlaceInv
<1>7. \A t \in Requests \ {r} : pc[t] = "insertDocument" => req[t].document # d
  BY <1>3 DEF IInv, RequestsInv, StoredInv
<1> HIDE DEF row, d
<1> QED
  BY <1>1, <1>3, <1>5, <1>6, <1>7, DocumentWritten

LEMMA QuietStep ==
    ASSUME IInv, UNCHANGED <<folders, documents, files, pc, req, before, since>>
    PROVE  IInv'
  BY DEF IInv, TypeInv, RequestsInv, RequestInv, ReachInv, NameInv, StoredInv,
         Adds, Placed, Place, PlaceInv, FilesKept, Deleted, FindByName, Siblings

LEMMA StepIInv == IInv /\ [Next]_vars => IInv'
<1> SUFFICES ASSUME IInv, [Next]_vars PROVE IInv'
  OBVIOUS
<1>1. ASSUME NEW r \in Requests, Receive(r) PROVE IInv'
  BY <1>1, ReceiveStep
<1>2. ASSUME NEW r \in Requests, CheckParent(r) PROVE IInv'
  BY <1>2, CheckParentStep
<1>3. ASSUME NEW r \in Requests, CheckName(r) PROVE IInv'
  BY <1>3, CheckNameStep
<1>4. ASSUME NEW r \in Requests, InsertFolder(r) PROVE IInv'
  BY <1>4, InsertFolderStep
<1>5. ASSUME NEW r \in Requests, FolderRefused(r) \/ Answer(r) \/ Fail(r) PROVE IInv'
  BY <1>5, RefuseStep DEF FolderRefused, Answer, Fail
<1>6. ASSUME NEW r \in Requests, Upload(r) PROVE IInv'
  BY <1>6, UploadStep
<1>7. ASSUME NEW r \in Requests, InsertDocument(r) PROVE IInv'
  BY <1>7, InsertDocumentStep
<1>8. ASSUME NEW r \in Requests, SoftDelete(r) PROVE IInv'
  BY <1>8, SoftDeleteStep
<1>9. ASSUME NEW c \in Removable, RemoveCustomer(c) PROVE IInv'
  BY <1>9, QuietStep DEF RemoveCustomer
<1>10. CASE UNCHANGED vars
  BY <1>10, QuietStep DEF vars
<1> QED
  BY <1>1, <1>2, <1>3, <1>4, <1>5, <1>6, <1>7, <1>8, <1>9, <1>10 DEF Next

LEMMA AlwaysIInv == Spec => []IInv
  BY InitIInv, StepIInv, PTL DEF Spec

-----------------------------------------------------------------------------
(* The theorems *)

(* However the uploads of any number of users interleave and fail, the file *)
(* of every document, a deleted one included, is in the storage: the bytes  *)
(* are stored before the row, under a name no other request was given.      *)
THEOREM DocumentsHaveTheirFiles == Spec => []FilesKept
  BY AlwaysIInv, PTL DEF IInv

(* Whatever folder a request names beside whatever customer, no document    *)
(* and no folder is ever put into the folder of another customer:           *)
(* findByIdForOwner asks for the folder with the customer of the path, and  *)
(* no later statement changes either.                                       *)
THEOREM FoldersKeepToTheirCustomer == Spec => []InOwnFolders
<1>1. IInv => InOwnFolders
  BY DEF IInv, PlaceInv, Place, InOwnFolders
<1> QED
  BY <1>1, AlwaysIInv, PTL

(* A folder beside one of the same letters is only made by a request that   *)
(* had looked for the name before the other folder was inserted: between    *)
(* findByName and create there is no lock, and the index lets it by.        *)
THEOREM DuplicateFoldersOverlap == Spec => DuplicatesOnlyByOverlap
<1>1. IInv /\ [Next]_vars =>
        [\A r \in Requests : InsertFolder(r) =>
            {f \in Siblings(req[r].customer, req[r].folder) :
                SameLetters(folders[f].name, req[r].name)} \subseteq since[r]]_vars
  BY DEF IInv, RequestsInv, NameInv, InsertFolder, FindByName
<1> QED
  BY <1>1, AlwaysIInv, PTL DEF Spec, DuplicatesOnlyByOverlap

(* A request that comes in after a customer was removed adds nothing to it, *)
(* and one that comes in after a document was deleted is told nothing of    *)
(* it, however long it takes and whatever else happens.                     *)
THEOREM RemovedIsOutOfReach == Spec => RemovedOutOfReach
<1>1. ASSUME IInv, NEW r \in Requests
      PROVE  /\ InsertFolder(r) \/ InsertDocument(r) => ~before[r].removed
             /\ Answer(r) => Shown(r) \cap before[r].deleted = {}
  <2>1. InsertFolder(r) \/ InsertDocument(r) => ~before[r].removed
    BY <1>1 DEF IInv, RequestsInv, ReachInv, Adds, InsertFolder, InsertDocument, Done, Goto
  <2>2. Answer(r) => Shown(r) \cap before[r].deleted = {}
    BY <1>1 DEF IInv, RequestsInv, ReachInv, Answer, Shown, ActiveDocuments
  <2> QED
    BY <2>1, <2>2
<1>2. IInv /\ [Next]_vars =>
        [\A r \in Requests :
            /\ InsertFolder(r) \/ InsertDocument(r) => ~before[r].removed
            /\ Answer(r) => Shown(r) \cap before[r].deleted = {}]_vars
  BY <1>1
<1> QED
  BY <1>2, AlwaysIInv, PTL DEF Spec, RemovedOutOfReach
=============================================================================
