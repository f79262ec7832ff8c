--------------------------- MODULE DocumentLibrary ---------------------------
(* The documents and folders of the customers, and the files behind them:   *)
(* the use cases of modules/documents, each a request that asks the         *)
(* database one query after the other, beside a customer being removed.     *)
EXTENDS FiniteSets

CONSTANTS
    Requests, Users, Customers,
    OwnerOf,      \* the user each customer belongs to
    FolderIds, DocumentIds,
    Names,        \* folder names, as <<letters, case>>
    Root,         \* a folder there is at first, of FirstCustomer
    FirstCustomer, RootName,
    Removable,    \* bound: the customers that may be removed
    None          \* SQL NULL, no row, and an absent field

VARIABLES
    removed,      \* customers with isDeleted
    folders,      \* document_folder
    documents,    \* document
    files,        \* the object keys the storage holds
    pc,           \* the step each request is at
    req,          \* what each request asks for
    before,       \* what had been removed when it came in (history)
    since         \* folders inserted since it looked for its name (history)

tables == <<removed, folders, documents>>
vars == <<removed, folders, documents, files, pc, req, before, since>>

Folder == [customer : Customers, parent : FolderIds \cup {None}, name : Names]
Document == [customer : Customers, folder : FolderIds \cup {None},
             uploadedBy : Users, deletedBy : Users \cup {None}]

ASSUME IdsAssumption ==
    /\ None \notin Folder \cup Document \cup FolderIds \cup Users \cup Names
    /\ Root \in FolderIds /\ FirstCustomer \in Customers /\ RootName \in Names

NoRequest == [kind |-> "none", user |-> None, customer |-> None,
              folder |-> None, name |-> None, document |-> None]
Nothing == [removed |-> FALSE, deleted |-> {}]

Deleted == {d \in DocumentIds : documents[d] # None
                                  /\ documents[d].deletedBy # None}
Unused(table, ids) == {i \in ids : table[i] = None}

-----------------------------------------------------------------------------
(* Queries *)

(* CustomerRepository.findOne *)
MutantFindOne(c, user) == OwnerOf[c] = user
FindOne(c, user) == OwnerOf[c] = user /\ c \notin removed

(* findByIdForOwner.  Neither asks whether the customer was removed. *)
MutantFindFolder(f, c, user) == folders[f] # None
FindFolder(f, c, user) ==
    folders[f] # None /\ folders[f].customer = c /\ OwnerOf[c] = user

FindDocument(d, c, user) ==
    /\ documents[d] # None /\ d \notin Deleted
    /\ documents[d].customer = c /\ OwnerOf[c] = user

Siblings(c, parent) ==
    {f \in FolderIds : /\ folders[f] # None
                       /\ folders[f].customer = c /\ folders[f].parent = parent}

SameLetters(n, m) == n[1] = m[1]

(* findByName, with mode: 'insensitive' *)
MutantFindByName(c, parent, name) ==
    {f \in Siblings(c, parent) : folders[f].name = name}
FindByName(c, parent, name) ==
    {f \in Siblings(c, parent) : SameLetters(folders[f].name, name)}

(* The unique index takes the case for a difference, and two NULL parents.  *)
IndexRefuses(c, parent, name) ==
    parent # None /\ \E f \in Siblings(c, parent) : folders[f].name = name

(* findActiveByCustomerId; the order of the list is left out. *)
ActiveDocuments(c) ==
    {d \in DocumentIds \ Deleted :
        documents[d] # None /\ documents[d].customer = c}

-----------------------------------------------------------------------------
(* Requests *)

Goto(r, from, to) == pc[r] = from /\ pc' = [pc EXCEPT ![r] = to]

Kinds == {"upload", "folder", "delete", "url", "list"}

Asked ==
    [kind : Kinds, user : Users, customer : Customers,
     folder : FolderIds \cup {None}, name : Names \cup {None},
     document : DocumentIds \cup {None}]

(* A folder of another customer may be named, or one that is not there. *)
WellFormed(q) ==
    /\ (q.name # None) <=> (q.kind = "folder")
    /\ (q.document # None) <=> (q.kind \in {"delete", "url"})
    /\ q.kind \notin {"upload", "folder"} => q.folder = None

(* Reading a URL, and deleting, ask for the document alone. *)
Admitted(q) ==
    IF q.kind \in {"delete", "url"} THEN FindDocument(q.document, q.customer, q.user)
    ELSE FindOne(q.customer, q.user)

FirstStep(q) ==
    CASE q.kind = "upload" -> IF q.folder = None THEN "store" ELSE "parent"
      [] q.kind = "folder" -> IF q.folder = None THEN "name" ELSE "parent"
      [] q.kind = "delete" -> "delete"
      [] OTHER -> "answer"

(* The request comes in and makes its first query.  One that finds nothing  *)
(* is answered 404 and changes nothing.                                     *)
Receive(r) ==
    /\ pc[r] = "idle"
    /\ \E q \in Asked :
          /\ WellFormed(q) /\ Admitted(q)
          /\ pc' = [pc EXCEPT ![r] = FirstStep(q)]
          /\ req' = [req EXCEPT ![r] = q]
          /\ before' = [before EXCEPT ![r] =
                           [removed |-> q.customer \in removed, deleted |-> Deleted]]
    /\ UNCHANGED <<tables, files, since>>

(* The answer has been sent, whatever it is. *)
Done(r, from) ==
    /\ Goto(r, from, "idle")
    /\ req' = [req EXCEPT ![r] = NoRequest]
    /\ before' = [before EXCEPT ![r] = Nothing]
    /\ since' = [since EXCEPT ![r] = {}]

Refuse(r, from) == Done(r, from) /\ UNCHANGED <<tables, files>>

Continue(r, from, to) ==
    /\ Goto(r, from, to)
    /\ UNCHANGED <<tables, files, req, before, since>>

(* The folder a document goes to, or the parent of a new folder. *)
CheckParent(r) ==
    /\ pc[r] = "parent"
    /\ IF FindFolder(req[r].folder, req[r].customer, req[r].user)
       THEN Continue(r, "parent", IF req[r].kind = "upload" THEN "store" ELSE "name")
       ELSE Refuse(r, "parent")

CheckName(r) ==
    /\ pc[r] = "name"
    /\ IF FindByName(req[r].customer, req[r].folder, req[r].name) = {}
       THEN Continue(r, "name", "insertFolder")
       ELSE Refuse(r, "name")

InsertFolder(r) ==
    \E f \in Unused(folders, FolderIds) :
        /\ pc[r] = "insertFolder"
        /\ ~IndexRefuses(req[r].customer, req[r].folder, req[r].name)
        /\ folders' = [folders EXCEPT ![f] =
                         [customer |-> req[r].customer,
                          parent |-> req[r].folder, name |-> req[r].name]]
        /\ Goto(r, "insertFolder", "idle")
        /\ req' = [req EXCEPT ![r] = NoRequest]
        /\ before' = [before EXCEPT ![r] = Nothing]
        /\ since' = [t \in Requests |->
                       IF t # r /\ pc[t] = "insertFolder"
                       THEN since[t] \cup {f} ELSE IF t = r THEN {} ELSE since[t]]
        /\ UNCHANGED <<removed, documents, files>>

(* P2002, which no filter translates: an internal error. *)
FolderRefused(r) ==
    /\ pc[r] = "insertFolder"
    /\ IndexRefuses(req[r].customer, req[r].folder, req[r].name)
    /\ Refuse(r, "insertFolder")

(* The object's random name is as good as the identity of the row to be. *)
NewName(d) == documents[d] = None /\ d \notin files
                /\ \A t \in Requests : pc[t] = "insertDocument" => req[t].document # d

MutantUpload(r) ==
    \E d \in {i \in DocumentIds : NewName(i)} :
        /\ Goto(r, "store", "insertDocument")
        /\ req' = [req EXCEPT ![r].document = d]
        /\ UNCHANGED <<tables, files, before, since>>

(* FileStorage.upload: the bytes are stored under a name of their own.      *)
Upload(r) ==
    \E d \in {i \in DocumentIds : NewName(i)} :
        /\ Goto(r, "store", "insertDocument")
        /\ files' = files \cup {d}
        /\ req' = [req EXCEPT ![r].document = d]
        /\ UNCHANGED <<tables, before, since>>

InsertDocument(r) ==
    /\ Done(r, "insertDocument")
    /\ documents' = [documents EXCEPT ![req[r].document] =
                       [customer |-> req[r].customer, folder |-> req[r].folder,
                        uploadedBy |-> req[r].user, deletedBy |-> None]]
    /\ UNCHANGED <<removed, folders, files>>

(* The row and the stored file are kept. *)
SoftDelete(r) ==
    /\ Done(r, "delete")
    /\ documents' = [documents EXCEPT ![req[r].document].deletedBy = req[r].user]
    /\ UNCHANGED <<removed, folders, files>>

(* The documents a request is told of; a URL is made from the row it read.  *)
Shown(r) ==
    IF req[r].kind = "url" THEN {req[r].document}
    ELSE IF req[r].kind = "list" THEN ActiveDocuments(req[r].customer) ELSE {}

Answer(r) == pc[r] = "answer" /\ Refuse(r, "answer")

(* A query or the upload fails, or the process dies. *)
Fail(r) == pc[r] # "idle" /\ Refuse(r, pc[r])

RemoveCustomer(c) ==
    /\ c \notin removed
    /\ removed' = removed \cup {c}
    /\ UNCHANGED <<folders, documents, files, pc, req, before, since>>

Init ==
    /\ removed = {} /\ files = {}
    /\ folders = [f \in FolderIds |->
                    IF f # Root THEN None
                    ELSE [customer |-> FirstCustomer, parent |-> None,
                          name |-> RootName]]
    /\ documents = [d \in DocumentIds |-> None]
    /\ pc = [r \in Requests |-> "idle"]
    /\ req = [r \in Requests |-> NoRequest]
    /\ before = [r \in Requests |-> Nothing]
    /\ since = [r \in Requests |-> {}]

Next ==
    \/ \E r \in Requests :
          \/ Receive(r) \/ CheckParent(r) \/ CheckName(r) \/ InsertFolder(r) \/ FolderRefused(r)
          \/ Upload(r) \/ InsertDocument(r) \/ SoftDelete(r)
          \/ Answer(r) \/ Fail(r)
    \/ \E c \in Removable : RemoveCustomer(c)

Spec == Init /\ [][Next]_vars

-----------------------------------------------------------------------------
(* Properties *)

(* The file of every document is stored, even of a deleted one, and however *)
(* the upload and the insert of two requests interleave and fail            *)
(* (softDelete: "The row and the stored file are kept on purpose").         *)
FilesKept ==
    \A d \in DocumentIds : documents[d] # None => d \in files

(* A document lies in a folder of its own customer, and so does a folder,   *)
(* though the folder comes from the body and the customer from the path.    *)
InOwnFolders ==
    /\ \A d \in DocumentIds : documents[d] # None /\ documents[d].folder # None =>
          folders[documents[d].folder].customer = documents[d].customer
    /\ \A f \in FolderIds : folders[f] # None /\ folders[f].parent # None =>
          folders[folders[f].parent].customer = folders[f].customer

(* Two folders of one place whose names differ in their case alone, or two  *)
(* of the same name at the top, are only made by requests that overlap.     *)
DuplicatesOnlyByOverlap ==
    [][\A r \in Requests : InsertFolder(r) =>
          {f \in Siblings(req[r].customer, req[r].folder) :
              SameLetters(folders[f].name, req[r].name)} \subseteq since[r]]_vars

(* What was removed or deleted before a request came in is out of its       *)
(* reach: it adds no folder and no document to a removed customer, and is   *)
(* neither listed nor given a deleted document.                             *)
RemovedOutOfReach ==
    [][\A r \in Requests :
          /\ InsertFolder(r) \/ InsertDocument(r) => ~before[r].removed
          /\ Answer(r) => Shown(r) \cap before[r].deleted = {}]_vars
=============================================================================
