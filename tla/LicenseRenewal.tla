--------------------------- MODULE LicenseRenewal ---------------------------
(***************************************************************************)
(* The lifecycle of environmental licenses: registration, renewal, and the *)
(* conditions of a license that other requests append, edit, delete and    *)
(* mark as fulfilled while a renewal is running.                           *)
(*                                                                         *)
(* A request that stores a file takes several steps, because it awaits     *)
(* between its checks, the upload and the database write; every other      *)
(* request may run between two of them.  A request that only touches       *)
(* conditions is one step, its transaction's commit.                       *)
(*                                                                         *)
(* Isolation.  The renewal, the edit and the deletion of a condition run   *)
(* SERIALIZABLE; appending conditions and saving fulfillment run at the    *)
(* database's default, READ COMMITTED.  PostgreSQL aborts a serializable   *)
(* transaction that would rewrite a row committed since its snapshot,      *)
(* whoever wrote it, and one caught in a read/write cycle, but a cycle is  *)
(* only seen between serializable transactions.  tx[r].stale remembers     *)
(* that a commit which forces the renewal of r to abort has happened.      *)
(*                                                                         *)
(* Abstracted: owner and customer scoping (a request that fails it is      *)
(* rejected), dates other than the completion date, the stored status of a *)
(* license that is not archived (CURRENT stands for REGULAR, ATTENTION and *)
(* EXPIRED), the descriptive fields and the position of a condition.       *)
(***************************************************************************)
EXTENDS Naturals, FiniteSets

CONSTANTS
    Requests,     \* license registrations and renewals the server receives
    Licenses,     \* ids of license rows
    Conditions,   \* ids of license_condition rows
    Dates,        \* values of completion_date
    None          \* SQL NULL, and "no row"

ASSUME IdsAssumption == None \notin Requests \cup Licenses \cup Dates

VARIABLES
    status,        \* licenses.status; ABSENT: no such row
    previous,      \* licenses.previous_license_id
    documentUrl,   \* licenses.document_url
    condLicense,   \* license_condition.license_id; None: no such row
    condStatus,    \* license_condition.condition_status; UNUSED, DELETED: no row
    completion,    \* license_condition.completion_date
    stored,        \* files in the document storage
    pc,            \* how far each request has come
    job,           \* what each renewal was asked to do
    tx             \* each renewal's transaction: what it read and will write

licenseRows == <<status, previous, documentUrl>>
conditionRows == <<condLicense, condStatus, completion>>
vars == <<status, previous, documentUrl, condLicense, condStatus, completion,
          stored, pc, job, tx>>

(* A file is named by a fresh random UUID, so the request that uploads it   *)
(* stands for it: each request uploads at most one.                         *)
Files == Requests

LicenseStatus == {"ABSENT", "CURRENT", "ARCHIVED"}
LiveStatus == {"IN_PROGRESS", "OVERDUE", "FULFILLED"}
ConditionStatus == LiveStatus \cup {"UNUSED", "DELETED"}
Ended == {"done", "rejected", "failed"}
Progress == Ended \cup {"idle", "checked", "uploaded", "inTx"}

(* What the edit form may set: status and completion date are independent,  *)
(* and either may be sent as it was.                                        *)
Edits == [status : LiveStatus, completion : Dates \cup {None}]

Job == [license : Licenses \cup {None}, decided : SUBSET Conditions,
        fulfilled : SUBSET Conditions, copied : SUBSET Conditions]
NoJob == [license |-> None, decided |-> {}, fulfilled |-> {}, copied |-> {}]

Transaction == [fulfill : SUBSET Conditions, reopen : SUBSET Conditions,
                stale : BOOLEAN]
NoTransaction == [fulfill |-> {}, reopen |-> {}, stale |-> FALSE]

-----------------------------------------------------------------------------
(* Rows *)

Exists(l) == status[l] # "ABSENT"
ConditionsOf(l) == {c \in Conditions : condLicense[c] = l}
UnusedConditions == {c \in Conditions : condStatus[c] = "UNUSED"}

(* f with the value v at every point of S. *)
Assign(f, S, v) == [x \in DOMAIN f |-> IF x \in S THEN v ELSE f[x]]

MutantFulfillAny(S) == S

(* The rows of S that "fulfilled" rewrites: a condition that is already     *)
(* fulfilled keeps its completion date.                                     *)
Fulfillable(S) ==
    {c \in S : condStatus[c] # "FULFILLED" \/ completion[c] = None}

(* The rows of S that "not fulfilled" rewrites. *)
Reopenable(S) == {c \in S : condStatus[c] = "FULFILLED"}

(* The decisions cover exactly the conditions the license has right now. *)
EveryConditionDecided(l, decided) == decided = ConditionsOf(l)

-----------------------------------------------------------------------------
(* Open renewals *)

IsRenewal(r) == job[r].license # None
Open(r) == pc[r] = "inTx"
RenewalsOf(l) == {r \in Requests : Open(r) /\ job[r].license = l}

(* Open renewals whose own writes hit a row of S. *)
RenewalsWriting(S) ==
    {r \in Requests : Open(r) /\ (tx[r].fulfill \cup tx[r].reopen) \cap S # {}}

(* A commit that every open renewal in R has to abort for. *)
Invalidate(R) ==
    tx' = [r \in Requests |-> [tx[r] EXCEPT !.stale = @ \/ r \in R]]

Advance(r, from, to) == pc[r] = from /\ pc' = [pc EXCEPT ![r] = to]

-----------------------------------------------------------------------------
(* Registering and renewing a license *)

(* The customer belongs to the owner and the dates are in order. *)
CheckCreate(r) ==
    /\ Advance(r, "idle", "checked")
    /\ UNCHANGED <<licenseRows, conditionRows, stored, job, tx>>

(* The license may be renewed. *)
Renewable(l) == Exists(l) /\ status[l] # "ARCHIVED"

(* The license is the owner's and not archived, and the decisions the       *)
(* caller took from the list it had loaded still cover its conditions.      *)
CheckRenewal(r, l, decided, fulfilled, copied) ==
    /\ Renewable(l)
    /\ EveryConditionDecided(l, decided)
    /\ fulfilled \cup copied \subseteq decided
    /\ Advance(r, "idle", "checked")
    /\ job' = [job EXCEPT ![r] =
                 [license |-> l, decided |-> decided,
                  fulfilled |-> fulfilled, copied |-> copied]]
    /\ UNCHANGED <<licenseRows, conditionRows, stored, tx>>

(* A check before the upload fails: unknown customer or license, dates or   *)
(* due dates out of range, an archived license, an outdated list.  The      *)
(* filter answers, and nothing changes.                                     *)
Reject(r) ==
    /\ Advance(r, "idle", "rejected")
    /\ UNCHANGED <<licenseRows, conditionRows, stored, job, tx>>

MutantUpload(r) ==
    /\ Advance(r, "checked", "uploaded")
    /\ UNCHANGED <<licenseRows, conditionRows, stored, job, tx>>

Upload(r) ==
    /\ Advance(r, "checked", "uploaded")
    /\ stored' = stored \cup {r}
    /\ UNCHANGED <<licenseRows, conditionRows, job, tx>>

InsertLicense(r, l) ==
    /\ ~IsRenewal(r)
    /\ ~Exists(l)
    /\ Advance(r, "uploaded", "done")
    /\ status' = [status EXCEPT ![l] = "CURRENT"]
    /\ documentUrl' = [documentUrl EXCEPT ![l] = r]
    /\ UNCHANGED <<previous, conditionRows, stored, job, tx>>

(* The renewal transaction reads the conditions, its snapshot, and checks   *)
(* the decisions again.  What applyConditionsFulfillment will rewrite is    *)
(* fixed here: its updates see the same snapshot.                           *)
BeginRenewal(r) ==
    LET asked == job[r] IN
    /\ IsRenewal(r)
    /\ EveryConditionDecided(asked.license, asked.decided)
    /\ Advance(r, "uploaded", "inTx")
    /\ tx' = [tx EXCEPT ![r] =
                [fulfill |-> Fulfillable(asked.fulfilled),
                 reopen |-> Reopenable(asked.decided \ asked.fulfilled),
                 stale |-> FALSE]]
    /\ UNCHANGED <<licenseRows, conditionRows, stored, job>>

RejectOutdated(r) ==
    /\ IsRenewal(r)
    /\ ~EveryConditionDecided(job[r].license, job[r].decided)
    /\ Advance(r, "uploaded", "failed")
    /\ UNCHANGED <<licenseRows, conditionRows, stored, job, tx>>

MutantNoConflict(r) == TRUE

(* Nothing committed since the snapshot makes the database refuse. *)
NoConflict(r) == ~tx[r].stale

MutantArchive(old, new) == [status EXCEPT ![new] = "CURRENT"]
MutantArchiveStatus(old, new) ==
    [status EXCEPT ![new] = "CURRENT", ![old] = "RENEWED"]

(* The new license, and the previous one archived. *)
Archive(old, new) == [status EXCEPT ![new] = "CURRENT", ![old] = "ARCHIVED"]

MutantLink(old, new) == [previous EXCEPT ![new] = new]

Link(old, new) == [previous EXCEPT ![new] = old]

(* The commit: the new license with its copies of the conditions marked for *)
(* it, the previous one archived, the fulfillment decisions recorded.       *)
CommitRenewal(r, l, copies, now) ==
    LET old == job[r].license
        mine == tx[r]
    IN
    /\ NoConflict(r)
    /\ ~Exists(l)
    /\ copies \subseteq UnusedConditions
    /\ Cardinality(copies) = Cardinality(job[r].copied)
    /\ Advance(r, "inTx", "done")
    /\ status' = Archive(old, l)
    /\ previous' = Link(old, l)
    /\ documentUrl' = [documentUrl EXCEPT ![l] = r]
    /\ condLicense' = Assign(condLicense, copies, l)
    /\ condStatus' = Assign(Assign(condStatus, mine.fulfill, "FULFILLED"),
                            mine.reopen \cup copies, "IN_PROGRESS")
    /\ completion' = Assign(Assign(completion, mine.fulfill, now),
                            mine.reopen, None)
    /\ Invalidate(RenewalsOf(old))
    /\ UNCHANGED <<stored, job>>

(* An await that rejects after the checks: the upload, the insert, a        *)
(* serialization failure, a lost connection, or the process dying.          *)
Fail(r) ==
    /\ \E from \in {"checked", "uploaded", "inTx"} : Advance(r, from, "failed")
    /\ UNCHANGED <<licenseRows, conditionRows, stored, job, tx>>

-----------------------------------------------------------------------------
(* Conditions *)

(* Both routes that add conditions; neither looks at the license's status.  *)
AppendConditions(l, new) ==
    /\ Exists(l)
    /\ new # {} /\ new \subseteq UnusedConditions
    /\ condLicense' = Assign(condLicense, new, l)
    /\ condStatus' = Assign(condStatus, new, "IN_PROGRESS")
    /\ UNCHANGED <<licenseRows, completion, stored, pc, job, tx>>

(* Whatever an edit writes, it read the license row a renewal updates and   *)
(* writes a row the renewal read.                                           *)
EditCondition(c, edit) ==
    /\ condLicense[c] # None
    /\ condStatus' = [condStatus EXCEPT ![c] = edit.status]
    /\ completion' = [completion EXCEPT ![c] = edit.completion]
    /\ Invalidate(RenewalsOf(condLicense[c]))
    /\ UNCHANGED <<licenseRows, condLicense, stored, pc, job>>

DeleteCondition(c) ==
    /\ condLicense[c] # None
    /\ condLicense' = [condLicense EXCEPT ![c] = None]
    /\ condStatus' = [condStatus EXCEPT ![c] = "DELETED"]
    /\ completion' = [completion EXCEPT ![c] = None]
    /\ Invalidate(RenewalsOf(condLicense[c]))
    /\ UNCHANGED <<licenseRows, stored, pc, job>>

(* SaveConditionsFulfillmentUseCase: every item is a condition of the       *)
(* license.                                                                 *)
Savable(l, items) == Exists(l) /\ items # {} /\ items \subseteq ConditionsOf(l)

(* The fulfillment form: one update for the items marked fulfilled, then    *)
(* one for the others.  An item listed twice may be in both.  Only a row it *)
(* rewrites can hurt an open renewal.                                       *)
SaveFulfillment(l, yes, no, now) ==
    LET fulfilled == Fulfillable(yes)
        reopened == no \cap (Reopenable(no) \cup fulfilled)
    IN
    /\ Savable(l, yes \cup no)
    /\ condStatus' = Assign(Assign(condStatus, fulfilled, "FULFILLED"),
                            reopened, "IN_PROGRESS")
    /\ completion' = Assign(Assign(completion, fulfilled, now), reopened, None)
    /\ Invalidate(RenewalsWriting(fulfilled \cup reopened))
    /\ UNCHANGED <<licenseRows, condLicense, stored, pc, job>>

-----------------------------------------------------------------------------

Init ==
    /\ status = [l \in Licenses |-> "ABSENT"]
    /\ previous = [l \in Licenses |-> None]
    /\ documentUrl = [l \in Licenses |-> None]
    /\ condLicense = [c \in Conditions |-> None]
    /\ condStatus = [c \in Conditions |-> "UNUSED"]
    /\ completion = [c \in Conditions |-> None]
    /\ stored = {}
    /\ pc = [r \in Requests |-> "idle"]
    /\ job = [r \in Requests |-> NoJob]
    /\ tx = [r \in Requests |-> NoTransaction]

RequestStep(r) ==
    \/ CheckCreate(r)
    \/ \E l \in Licenses, decided, fulfilled, copied \in SUBSET Conditions :
          CheckRenewal(r, l, decided, fulfilled, copied)
    \/ Reject(r)
    \/ Upload(r)
    \/ \E l \in Licenses : InsertLicense(r, l)
    \/ BeginRenewal(r)
    \/ RejectOutdated(r)
    \/ \E l \in Licenses, copies \in SUBSET Conditions, now \in Dates :
          CommitRenewal(r, l, copies, now)
    \/ Fail(r)

ConditionStep ==
    \/ \E l \in Licenses, yes, no \in SUBSET Conditions, now \in Dates :
          SaveFulfillment(l, yes, no, now)
    \/ \E l \in Licenses, new \in SUBSET Conditions : AppendConditions(l, new)
    \/ \E c \in Conditions, edit \in Edits : EditCondition(c, edit)
    \/ \E c \in Conditions : DeleteCondition(c)

(* Every request has been answered and nobody asks for anything more. *)
Quiescent == (\A r \in Requests : pc[r] \in Ended) /\ UNCHANGED vars

Next == (\E r \in Requests : RequestStep(r)) \/ ConditionStep \/ Quiescent

Spec == Init /\ [][Next]_vars

-----------------------------------------------------------------------------
(* Properties *)

TypeOK ==
    /\ status \in [Licenses -> LicenseStatus]
    /\ previous \in [Licenses -> Licenses \cup {None}]
    /\ documentUrl \in [Licenses -> Files \cup {None}]
    /\ condLicense \in [Conditions -> Licenses \cup {None}]
    /\ condStatus \in [Conditions -> ConditionStatus]
    /\ completion \in [Conditions -> Dates \cup {None}]
    /\ stored \subseteq Files
    /\ pc \in [Requests -> Progress]
    /\ job \in [Requests -> Job]
    /\ tx \in [Requests -> Transaction]

(* Every license has its own file, stored before the row that names it, and *)
(* a file no license names belongs to a request still under way or to one   *)
(* that failed after its upload: a request rejected by a check leaves no    *)
(* file, and a request answered with a license keeps its file               *)
(* (CreateLicenseUseCase: "Uploaded last, only once every other check has   *)
(* passed, so a rejected request never leaves an orphaned file").           *)
FilesAccountedFor ==
    /\ \A l \in Licenses : Exists(l) =>
          /\ documentUrl[l] \in stored
          /\ \A m \in Licenses : documentUrl[m] = documentUrl[l] => m = l
    /\ \A f \in stored :
          \/ \E l \in Licenses : documentUrl[l] = f
          \/ pc[f] \in {"uploaded", "inTx", "failed"}

Commits(r) == pc[r] = "inTx" /\ pc'[r] = "done"

(* When a renewal commits, every condition it decided about still belongs   *)
(* to the license, and every row it rewrites is still in the state that     *)
(* made it rewrite it: no edit, deletion, saved fulfillment or other        *)
(* renewal that committed since its snapshot is lost                        *)
(* (PrismaLicenseRepository.renew, SERIALIZABLE).                           *)
NoLostUpdate ==
    [][\A r \in Requests : Commits(r) =>
          /\ job[r].decided \subseteq ConditionsOf(job[r].license)
          /\ tx[r].fulfill \subseteq Fulfillable(tx[r].fulfill)
          /\ tx[r].reopen \subseteq Reopenable(tx[r].reopen)]_vars

Overdue(c) == condStatus[c] = "OVERDUE"

(* What is recorded for c is not rewritten: the completion date of a        *)
(* condition that stays fulfilled, and an overdue condition that is not     *)
(* being fulfilled.                                                         *)
RecordKept(c) ==
    /\ condStatus[c] = "FULFILLED" /\ completion[c] # None =>
          \/ completion'[c] = completion[c]
          \/ condStatus'[c] = "IN_PROGRESS" /\ completion'[c] = None
    /\ Overdue(c) => condStatus'[c] \in {"OVERDUE", "FULFILLED"}

(* Neither a saved fulfillment nor a renewal, whatever was committed since  *)
(* it read the conditions, rewrites what is recorded for any condition,     *)
(* except one the fulfillment form lists both ways                          *)
(* (applyConditionsFulfillment: "Records the decisions without rewriting    *)
(* what is already recorded").                                              *)
RecordedFulfillmentKept ==
    [][/\ \A l \in Licenses, yes, no \in SUBSET Conditions, now \in Dates :
             SaveFulfillment(l, yes, no, now) =>
                \A c \in Conditions \ (yes \cap no) : RecordKept(c)
       /\ (\E r \in Requests : Commits(r)) =>
             \A c \in Conditions : RecordKept(c)]_vars

(* The license rows behave as the abstract LicenseLineage: what a renewal   *)
(* does to them is one step, whatever runs between its checks, its upload   *)
(* and its transaction.                                                     *)
Lineage == INSTANCE LicenseLineage WITH state <- status, predecessor <- previous

LineageSpec == Lineage!Spec

(* A license is archived exactly when some license renews it.               *)
ArchivedIffRenewed == Lineage!ArchivedIffRenewed

(* No license is, directly or not, a renewal of itself.                     *)
HistoryWellFounded == Lineage!HistoryWellFounded

(* Does not hold.  RenewLicenseUseCase: "The repository checks again inside *)
(* the renewal transaction, where the conditions can no longer change", so  *)
(* the decisions cover every condition when the renewal commits.            *)
EverythingDecidedAtCommit ==
    [][\A r \in Requests : Commits(r) =>
          EveryConditionDecided(job[r].license, job[r].decided)]_vars
=============================================================================
