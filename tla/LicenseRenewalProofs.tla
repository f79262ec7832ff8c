------------------------ MODULE LicenseRenewalProofs ------------------------
(* Theorems about LicenseRenewal, for every set of requests, licenses,      *)
(* conditions and dates; about the lineage of versions it implements; and   *)
(* about LicenseHistory, which reads such a lineage, for every finite set   *)
(* of versions.                                                             *)
EXTENDS LicenseRenewal, LicenseHistory, FiniteSetTheorems, SequenceTheorems,
        WellFoundedInduction, TLAPS

LEMMA AssignRange ==
    ASSUME NEW A, NEW B, NEW f \in [A -> B], NEW S, NEW v \in B
    PROVE Assign(f, S, v) \in [A -> B]
  BY DEF Assign

LEMMA AdvanceTyped ==
    ASSUME TypeOK, NEW r \in Requests, NEW from, NEW to \in Progress,
           Advance(r, from, to)
    PROVE pc' \in [Requests -> Progress]
  BY DEF TypeOK, Advance

LEMMA InvalidateTyped ==
    ASSUME TypeOK, NEW R, Invalidate(R)
    PROVE tx' \in [Requests -> Transaction]
  BY DEF TypeOK, Invalidate, Transaction

-----------------------------------------------------------------------------
(* Type correctness *)

LEMMA InitTypeOK == Init => TypeOK
  BY DEF Init, TypeOK, Progress, Ended, Job, NoJob, Transaction, NoTransaction,
         LicenseStatus, ConditionStatus

LEMMA RequestStepTypeOK ==
    ASSUME TypeOK, NEW r \in Requests, RequestStep(r)
    PROVE TypeOK'
<1> USE DEF licenseRows, conditionRows
<1> {"idle", "checked", "uploaded", "inTx", "done", "rejected", "failed"}
        = Progress
  BY DEF Progress, Ended
<1>1. CASE CheckCreate(r)
  BY <1>1, AdvanceTyped DEF CheckCreate, TypeOK
<1>2. ASSUME NEW l \in Licenses, NEW decided \in SUBSET Conditions,
             NEW fulfilled \in SUBSET Conditions,
             NEW copied \in SUBSET Conditions,
             CheckRenewal(r, l, decided, fulfilled, copied)
      PROVE TypeOK'
  BY <1>2, AdvanceTyped DEF CheckRenewal, TypeOK, Job
<1>3. CASE Reject(r)
  BY <1>3, AdvanceTyped DEF Reject, TypeOK
<1>4. CASE Upload(r)
  BY <1>4, AdvanceTyped DEF Upload, TypeOK, Files
<1>5. ASSUME NEW l \in Licenses, InsertLicense(r, l) PROVE TypeOK'
  BY <1>5, AdvanceTyped DEF InsertLicense, TypeOK, Files, LicenseStatus
<1>6. CASE BeginRenewal(r)
  <2>1. tx' \in [Requests -> Transaction]
    BY <1>6 DEF BeginRenewal, TypeOK, Job, Transaction, Fulfillable, Reopenable
  <2> QED
    BY <1>6, <2>1, AdvanceTyped DEF BeginRenewal, TypeOK
<1>7. CASE RejectOutdated(r)
  BY <1>7, AdvanceTyped DEF RejectOutdated, TypeOK
<1>8. ASSUME NEW l \in Licenses, NEW copies \in SUBSET Conditions,
             NEW now \in Dates, CommitRenewal(r, l, copies, now)
      PROVE TypeOK'
  <2> USE <1>8 DEF CommitRenewal
  <2>1. status' \in [Licenses -> LicenseStatus]
    BY DEF TypeOK, Archive, LicenseStatus
  <2>2. previous' \in [Licenses -> Licenses \cup {None}]
    BY DEF TypeOK, Link, Job
  <2>3. documentUrl' \in [Licenses -> Files \cup {None}]
    BY DEF TypeOK, Files
  <2>4. condLicense' \in [Conditions -> Licenses \cup {None}]
    BY AssignRange DEF TypeOK
  <2>5. condStatus' \in [Conditions -> ConditionStatus]
    <3>1. {"FULFILLED", "IN_PROGRESS"} \subseteq ConditionStatus
      BY DEF ConditionStatus, LiveStatus
    <3>2. Assign(condStatus, tx[r].fulfill, "FULFILLED")
              \in [Conditions -> ConditionStatus]
      BY <3>1, AssignRange DEF TypeOK
    <3> QED
      BY <3>1, <3>2, AssignRange
  <2>6. completion' \in [Conditions -> Dates \cup {None}]
    <3>1. Assign(completion, tx[r].fulfill, now)
              \in [Conditions -> Dates \cup {None}]
      BY AssignRange DEF TypeOK
    <3> QED
      BY <3>1, AssignRange
  <2>7. pc' \in [Requests -> Progress]
    BY AdvanceTyped
  <2>8. tx' \in [Requests -> Transaction]
    BY InvalidateTyped
  <2> QED
    BY <2>1, <2>2, <2>3, <2>4, <2>5, <2>6, <2>7, <2>8 DEF TypeOK
<1>9. CASE Fail(r)
  BY <1>9, AdvanceTyped DEF Fail, TypeOK
<1> QED
  BY <1>1, <1>2, <1>3, <1>4, <1>5, <1>6, <1>7, <1>8, <1>9 DEF RequestStep

LEMMA ConditionStepTypeOK == ASSUME TypeOK, ConditionStep PROVE TypeOK'
<1> USE DEF licenseRows
<1>1. ASSUME NEW l \in Licenses, NEW new \in SUBSET Conditions,
             AppendConditions(l, new)
      PROVE TypeOK'
  <2>1. condLicense' \in [Conditions -> Licenses \cup {None}]
    BY <1>1, AssignRange DEF AppendConditions, TypeOK
  <2>2. condStatus' \in [Conditions -> ConditionStatus]
    BY <1>1, AssignRange DEF AppendConditions, TypeOK, ConditionStatus, LiveStatus
  <2> QED
    BY <1>1, <2>1, <2>2 DEF AppendConditions, TypeOK
<1>2. ASSUME NEW c \in Conditions, NEW edit \in Edits, EditCondition(c, edit)
      PROVE TypeOK'
  BY <1>2, InvalidateTyped DEF EditCondition, Edits, TypeOK, ConditionStatus
<1>3. ASSUME NEW c \in Conditions, DeleteCondition(c) PROVE TypeOK'
  BY <1>3, InvalidateTyped DEF DeleteCondition, TypeOK, ConditionStatus
<1>4. ASSUME NEW l \in Licenses, NEW yes \in SUBSET Conditions,
             NEW no \in SUBSET Conditions, NEW now \in Dates,
             SaveFulfillment(l, yes, no, now)
      PROVE TypeOK'
  <2>1. condStatus' \in [Conditions -> ConditionStatus]
    <3>1. {"FULFILLED", "IN_PROGRESS"} \subseteq ConditionStatus
      BY DEF ConditionStatus, LiveStatus
    <3>2. Assign(condStatus, Fulfillable(yes), "FULFILLED")
              \in [Conditions -> ConditionStatus]
      BY <3>1, AssignRange DEF TypeOK
    <3> QED
      BY <1>4, <3>1, <3>2, AssignRange DEF SaveFulfillment
  <2>2. completion' \in [Conditions -> Dates \cup {None}]
    <3>1. Assign(completion, Fulfillable(yes), now)
              \in [Conditions -> Dates \cup {None}]
      BY AssignRange DEF TypeOK
    <3> QED
      BY <1>4, <3>1, AssignRange DEF SaveFulfillment
  <2> QED
    BY <1>4, <2>1, <2>2, InvalidateTyped DEF SaveFulfillment, TypeOK
<1> QED
  BY <1>1, <1>2, <1>3, <1>4 DEF ConditionStep

LEMMA StutterTypeOK == ASSUME TypeOK, UNCHANGED vars PROVE TypeOK'
  BY DEF TypeOK, vars

(* Every variable keeps its type: no row has a status, a date or a          *)
(* reference outside its domain, whatever the requests do.                  *)
THEOREM RenewalTypeCorrect == Spec => []TypeOK
<1>1. TypeOK /\ [Next]_vars => TypeOK'
  BY RequestStepTypeOK, ConditionStepTypeOK, StutterTypeOK DEF Next, Quiescent
<1> QED
  BY InitTypeOK, <1>1, PTL DEF Spec

-----------------------------------------------------------------------------
(* The inductive invariant *)

(* A condition row names a license exactly while it exists. *)
RowsInv == \A c \in Conditions :
    condLicense[c] # None <=> condStatus[c] \in LiveStatus

(* A renewal is of a license that exists and decides about what it copies   *)
(* and fulfills; only a renewal opens a transaction.                        *)
JobsInv == \A r \in Requests :
    /\ IsRenewal(r) => Exists(job[r].license)
    /\ Open(r) => IsRenewal(r)
    /\ job[r].fulfilled \cup job[r].copied \subseteq job[r].decided

(* A request has stored its file once it is past the upload, the row that   *)
(* names the file is written when the request ends, and by no other.        *)
FilesInv ==
    /\ \A r \in Requests :
          /\ pc[r] \in {"uploaded", "inTx", "done"} => r \in stored
          /\ r \in stored => pc[r] \in {"uploaded", "inTx", "done", "failed"}
          /\ pc[r] = "done" => \E l \in Licenses : documentUrl[l] = r
    /\ \A l \in Licenses :
          /\ Exists(l) => /\ documentUrl[l] \in stored
                         /\ pc[documentUrl[l]] = "done"
          /\ ~Exists(l) => documentUrl[l] = None
          /\ \A m \in Licenses :
                Exists(l) /\ documentUrl[m] = documentUrl[l] => m = l

(* While nothing it conflicts with has committed, what a renewal read is    *)
(* what the tables hold: its conditions are there and the rows it is going  *)
(* to rewrite still need it.                                                *)
SnapshotHolds(r) ==
    /\ job[r].decided \subseteq ConditionsOf(job[r].license)
    /\ tx[r].fulfill \cup tx[r].reopen \subseteq job[r].decided
    /\ tx[r].fulfill \subseteq Fulfillable(tx[r].fulfill)
    /\ tx[r].reopen \subseteq Reopenable(tx[r].reopen)

TxInv == \A r \in Requests : Open(r) /\ ~tx[r].stale => SnapshotHolds(r)

IInv == TypeOK /\ RowsInv /\ JobsInv /\ FilesInv /\ TxInv

LEMMA InitIInv == Init => IInv
<1> SUFFICES ASSUME Init PROVE IInv
  OBVIOUS
<1>1. RowsInv
  BY DEF Init, RowsInv, LiveStatus
<1>2. JobsInv
  BY DEF Init, JobsInv, IsRenewal, Open, NoJob
<1>3. FilesInv
  BY IdsAssumption DEF Init, FilesInv, Exists
<1>4. TxInv
  BY DEF Init, TxInv, Open
<1> QED
  BY <1>1, <1>2, <1>3, <1>4, InitTypeOK DEF IInv

(* Conditions change rows and open transactions only. *)
LEMMA RowsStep ==
    ASSUME IInv, Next \/ UNCHANGED vars PROVE RowsInv'
<1> USE DEF IInv, TypeOK, RowsInv
<1> "FULFILLED" \in LiveStatus /\ "IN_PROGRESS" \in LiveStatus
        /\ "DELETED" \notin LiveStatus /\ "UNUSED" \notin LiveStatus
  BY DEF LiveStatus
<1>1. CASE UNCHANGED conditionRows
  BY <1>1 DEF conditionRows
<1>2. ASSUME NEW r \in Requests, NEW l \in Licenses,
             NEW copies \in SUBSET Conditions, NEW now \in Dates,
             CommitRenewal(r, l, copies, now)
      PROVE RowsInv'
  <2>1. tx[r].fulfill \cup tx[r].reopen \subseteq {c \in Conditions : condLicense[c] # None}
    <3>1. Open(r) /\ IsRenewal(r) /\ job[r].license \in Licenses
      BY <1>2 DEF CommitRenewal, Advance, Open, JobsInv, IsRenewal, Job
    <3>2. SnapshotHolds(r)
      BY <1>2, <3>1 DEF CommitRenewal, NoConflict, TxInv
    <3> QED
      BY <3>1, <3>2, IdsAssumption DEF SnapshotHolds, ConditionsOf
  <2> SUFFICES ASSUME NEW c \in Conditions
               PROVE condLicense'[c] # None <=> condStatus'[c] \in LiveStatus
    OBVIOUS
  <2>2. condLicense'[c] = IF c \in copies THEN l ELSE condLicense[c]
    BY <1>2 DEF CommitRenewal, Assign
  <2>3. condStatus'[c] = IF c \in tx[r].reopen \cup copies THEN "IN_PROGRESS"
                         ELSE IF c \in tx[r].fulfill THEN "FULFILLED"
                         ELSE condStatus[c]
    BY <1>2 DEF CommitRenewal, Assign
  <2> QED
    BY <2>1, <2>2, <2>3, IdsAssumption
<1>3. ASSUME NEW l \in Licenses, NEW new \in SUBSET Conditions,
             AppendConditions(l, new)
      PROVE RowsInv'
  BY <1>3, IdsAssumption DEF AppendConditions, Assign
<1>4. ASSUME NEW c \in Conditions, NEW edit \in Edits, EditCondition(c, edit)
      PROVE RowsInv'
  BY <1>4 DEF EditCondition, Edits
<1>5. ASSUME NEW c \in Conditions, DeleteCondition(c) PROVE RowsInv'
  BY <1>5 DEF DeleteCondition
<1>6. ASSUME NEW l \in Licenses, NEW yes \in SUBSET Conditions,
             NEW no \in SUBSET Conditions, NEW now \in Dates,
             SaveFulfillment(l, yes, no, now)
      PROVE RowsInv'
  BY <1>6, IdsAssumption
     DEF SaveFulfillment, Savable, Assign, ConditionsOf, Fulfillable, Reopenable
<1>7. ASSUME NEW r \in Requests, RequestStep(r) PROVE RowsInv'
  BY <1>1, <1>2, <1>7
     DEF RequestStep, CheckCreate, CheckRenewal, Reject, Upload, InsertLicense,
         BeginRenewal, RejectOutdated, Fail
<1> QED
  BY <1>1, <1>3, <1>4, <1>5, <1>6, <1>7
     DEF Next, ConditionStep, Quiescent, vars, conditionRows

LEMMA JobsStep ==
    ASSUME IInv, Next \/ UNCHANGED vars PROVE JobsInv'
<1> USE DEF IInv, TypeOK, JobsInv, IsRenewal, Exists, Open
<1>1. CASE UNCHANGED <<status, pc, job>>
  BY <1>1
<1>2. ASSUME NEW r \in Requests, NEW l \in Licenses,
             NEW decided \in SUBSET Conditions,
             NEW fulfilled \in SUBSET Conditions, NEW copied \in SUBSET Conditions,
             CheckRenewal(r, l, decided, fulfilled, copied)
      PROVE JobsInv'
  BY <1>2 DEF CheckRenewal, Advance, licenseRows, Renewable
<1>3. ASSUME NEW r \in Requests, NEW l \in Licenses, InsertLicense(r, l)
      PROVE JobsInv'
  BY <1>3 DEF InsertLicense, Advance
<1>4. ASSUME NEW r \in Requests, NEW l \in Licenses,
             NEW copies \in SUBSET Conditions, NEW now \in Dates,
             CommitRenewal(r, l, copies, now)
      PROVE JobsInv'
  <2>1. \A k \in Licenses : status[k] # "ABSENT" => status'[k] # "ABSENT"
    BY <1>4 DEF CommitRenewal, Archive
  <2>2. job' = job /\ \A q \in Requests : pc'[q] = "inTx" => pc[q] = "inTx"
    BY <1>4 DEF CommitRenewal, Advance
  <2> QED
    BY <2>1, <2>2 DEF Job
<1>5. ASSUME NEW r \in Requests,
             \/ CheckCreate(r) \/ Reject(r) \/ Upload(r) \/ BeginRenewal(r)
             \/ RejectOutdated(r) \/ Fail(r)
      PROVE JobsInv'
  <2>1. status' = status /\ job' = job
    BY <1>5 DEF CheckCreate, Reject, Upload, BeginRenewal, RejectOutdated, Fail,
                licenseRows
  <2>2. \A q \in Requests : pc'[q] = "inTx" => pc[q] = "inTx" \/ IsRenewal(q)
    BY <1>5 DEF CheckCreate, Reject, Upload, BeginRenewal, RejectOutdated, Fail,
                Advance
  <2> QED
    BY <2>1, <2>2
<1>6. ASSUME NEW r \in Requests, RequestStep(r) PROVE JobsInv'
  BY <1>2, <1>3, <1>4, <1>5, <1>6 DEF RequestStep
<1>7. ConditionStep => UNCHANGED <<status, pc, job>>
  BY DEF ConditionStep, AppendConditions, EditCondition, DeleteCondition,
         SaveFulfillment, licenseRows
<1> QED
  BY <1>1, <1>6, <1>7 DEF Next, Quiescent, vars

(* The row that names a file is written by the step that ends its request.  *)
LEMMA NamingFile ==
    ASSUME IInv, NEW r \in Requests, NEW l \in Licenses,
           ~Exists(l), r \in stored, pc[r] # "done",
           pc' = [pc EXCEPT ![r] = "done"],
           documentUrl' = [documentUrl EXCEPT ![l] = r],
           UNCHANGED stored,
           status' \in [Licenses -> LicenseStatus], status'[l] # "ABSENT",
           \A k \in Licenses \ {l} : status'[k] = "ABSENT" <=> status[k] = "ABSENT"
    PROVE FilesInv'
<1> USE DEF IInv, TypeOK, Files, Exists
<1>1. \A k \in Licenses : documentUrl[k] # r
  BY IdsAssumption DEF FilesInv
<1>2. ASSUME NEW q \in Requests
      PROVE /\ pc'[q] \in {"uploaded", "inTx", "done"} => q \in stored'
            /\ q \in stored' => pc'[q] \in {"uploaded", "inTx", "done", "failed"}
            /\ pc'[q] = "done" => \E k \in Licenses : documentUrl'[k] = q
  <2>1. documentUrl[l] # q
    BY IdsAssumption DEF FilesInv
  <2>2. CASE q = r
    BY <2>2
  <2>3. CASE q # r
    BY <2>1, <2>3 DEF FilesInv
  <2> QED
    BY <2>2, <2>3
<1>3. ASSUME NEW k \in Licenses
      PROVE /\ status'[k] # "ABSENT" => /\ documentUrl'[k] \in stored'
                                       /\ pc'[documentUrl'[k]] = "done"
            /\ status'[k] = "ABSENT" => documentUrl'[k] = None
            /\ \A m \in Licenses :
                  status'[k] # "ABSENT" /\ documentUrl'[m] = documentUrl'[k] => m = k
  <2>1. CASE k = l
    BY <1>1, <2>1
  <2>2. CASE k # l
    BY <1>1, <2>2 DEF FilesInv
  <2> QED
    BY <2>1, <2>2
<1> QED
  BY <1>2, <1>3 DEF FilesInv

LEMMA FilesStep ==
    ASSUME IInv, Next \/ UNCHANGED vars PROVE FilesInv'
<1> USE DEF IInv, TypeOK, Files
<1>1. CASE UNCHANGED <<status, documentUrl, stored, pc>>
  BY <1>1 DEF FilesInv, Exists
<1>2. ASSUME NEW r \in Requests, NEW from \in {"idle", "checked", "uploaded", "inTx"},
             NEW to \in {"checked", "rejected", "failed", "inTx"},
             to = "checked" => from = "idle", to = "rejected" => from = "idle",
             to = "inTx" => from = "uploaded",
             Advance(r, from, to), UNCHANGED <<status, documentUrl, stored>>
      PROVE FilesInv'
  <2>1. pc[r] # "done" /\ pc' = [pc EXCEPT ![r] = to]
    BY <1>2 DEF Advance
  <2>2. \A k \in Licenses : Exists(k) => documentUrl[k] # r
    BY <2>1 DEF FilesInv
  <2>3. ASSUME NEW q \in Requests
        PROVE /\ pc'[q] \in {"uploaded", "inTx", "done"} => q \in stored'
              /\ q \in stored' => pc'[q] \in {"uploaded", "inTx", "done", "failed"}
              /\ pc'[q] = "done" => \E k \in Licenses : documentUrl'[k] = q
    BY <1>2, <2>1 DEF FilesInv, Advance
  <2>4. ASSUME NEW k \in Licenses, Exists(k)
        PROVE pc'[documentUrl[k]] = "done"
    BY <2>1, <2>2, <2>4 DEF FilesInv
  <2> QED
    BY <1>2, <2>3, <2>4 DEF FilesInv, Exists
<1>3. ASSUME NEW r \in Requests, Upload(r) PROVE FilesInv'
  <2>1. \A k \in Licenses : Exists(k) => documentUrl[k] # r
    BY <1>3 DEF FilesInv, Upload, Advance
  <2> QED
    BY <1>3, <2>1 DEF FilesInv, Upload, Advance, Exists, licenseRows
<1>4. ASSUME NEW r \in Requests, NEW l \in Licenses, InsertLicense(r, l)
      PROVE FilesInv'
  <2>1. r \in stored /\ pc[r] # "done"
    BY <1>4 DEF InsertLicense, Advance, FilesInv
  <2> QED
    BY <1>4, <2>1, NamingFile DEF InsertLicense, Advance, LicenseStatus
<1>5. ASSUME NEW r \in Requests, NEW l \in Licenses,
             NEW copies \in SUBSET Conditions, NEW now \in Dates,
             CommitRenewal(r, l, copies, now)
      PROVE FilesInv'
  <2> DEFINE old == job[r].license
  <2>1. r \in stored /\ pc[r] # "done"
    BY <1>5 DEF CommitRenewal, Advance, FilesInv
  <2>2. old \in Licenses /\ Exists(old)
    BY <1>5 DEF CommitRenewal, Advance, JobsInv, Open, IsRenewal, Job
  <2>3. status' = [status EXCEPT ![l] = "CURRENT", ![old] = "ARCHIVED"]
    BY <1>5 DEF CommitRenewal, Archive
  <2>4. /\ status' \in [Licenses -> LicenseStatus]
        /\ status'[l] # "ABSENT"
        /\ \A k \in Licenses \ {l} : status'[k] = "ABSENT" <=> status[k] = "ABSENT"
    BY <2>2, <2>3 DEF LicenseStatus, Exists
  <2> QED
    BY <1>5, <2>1, <2>4, NamingFile DEF CommitRenewal, Advance
<1>6. ASSUME NEW r \in Requests, RequestStep(r) PROVE FilesInv'
  <2> USE <1>2 DEF licenseRows
  <2>1. CASE CheckCreate(r)
    BY <2>1 DEF CheckCreate
  <2>2. ASSUME NEW l \in Licenses, NEW decided \in SUBSET Conditions,
               NEW fulfilled \in SUBSET Conditions,
               NEW copied \in SUBSET Conditions,
               CheckRenewal(r, l, decided, fulfilled, copied)
        PROVE FilesInv'
    BY <2>2 DEF CheckRenewal
  <2>3. CASE Reject(r)
    BY <2>3 DEF Reject
  <2>4. CASE BeginRenewal(r)
    BY <2>4 DEF BeginRenewal
  <2>5. CASE RejectOutdated(r)
    BY <2>5 DEF RejectOutdated
  <2>6. CASE Fail(r)
    BY <2>6 DEF Fail
  <2> QED
    BY <1>3, <1>4, <1>5, <1>6, <2>1, <2>2, <2>3, <2>4, <2>5, <2>6 DEF RequestStep
<1>7. ConditionStep => UNCHANGED <<status, documentUrl, stored, pc>>
  BY DEF ConditionStep, AppendConditions, EditCondition, DeleteCondition,
         SaveFulfillment, licenseRows
<1> QED
  BY <1>1, <1>6, <1>7 DEF Next, Quiescent, vars

(* A step that leaves alone the rows a renewal read and the renewal itself  *)
(* leaves its snapshot true.                                                *)
LEMMA SnapshotKept ==
    ASSUME IInv, NEW r \in Requests, Open(r), ~tx[r].stale, job'[r] = job[r],
           tx'[r].fulfill = tx[r].fulfill, tx'[r].reopen = tx[r].reopen,
           \A c \in job[r].decided :
              condLicense'[c] = condLicense[c],
           \A c \in tx[r].fulfill \cup tx[r].reopen :
              condStatus'[c] = condStatus[c] /\ completion'[c] = completion[c]
    PROVE SnapshotHolds(r)'
<1>1. SnapshotHolds(r) /\ job[r].decided \subseteq Conditions
  BY DEF IInv, TxInv, TypeOK, Job
<1> QED
  BY <1>1 DEF SnapshotHolds, ConditionsOf, Fulfillable, Reopenable

LEMMA TxRequestStep ==
    ASSUME IInv, NEW r \in Requests, RequestStep(r) PROVE TxInv'
<1> USE DEF IInv, TypeOK, TxInv, Open
<1>1. ASSUME NEW to \in Progress \ {"inTx"}, NEW from, Advance(r, from, to),
             UNCHANGED <<conditionRows, tx>>,
             \/ job' = job
             \/ /\ from = "idle"
                /\ \A q \in Requests \ {r} : job'[q] = job[q]
      PROVE TxInv'
  <2> SUFFICES ASSUME NEW q \in Requests, pc'[q] = "inTx", ~tx'[q].stale
               PROVE SnapshotHolds(q)'
    OBVIOUS
  <2>1. q # r /\ pc[q] = "inTx" /\ job'[q] = job[q]
    BY <1>1 DEF Advance
  <2> QED
    BY <1>1, <2>1, SnapshotKept DEF conditionRows
<1>2. ASSUME BeginRenewal(r) PROVE TxInv'
  <2> SUFFICES ASSUME NEW q \in Requests, pc'[q] = "inTx", ~tx'[q].stale
               PROVE SnapshotHolds(q)'
    OBVIOUS
  <2>1. CASE q # r
    <3>1. pc[q] = "inTx" /\ tx'[q] = tx[q]
      BY <1>2, <2>1 DEF BeginRenewal, Advance
    <3> QED
      BY <1>2, <3>1, SnapshotKept DEF BeginRenewal, conditionRows
  <2>2. CASE q = r
    <3>1. tx'[r] = [fulfill |-> Fulfillable(job[r].fulfilled),
                    reopen |-> Reopenable(job[r].decided \ job[r].fulfilled),
                    stale |-> FALSE]
      BY <1>2 DEF BeginRenewal
    <3>2. job[r].fulfilled \subseteq job[r].decided
      BY DEF JobsInv
    <3>3. job[r].decided = ConditionsOf(job[r].license)
      BY <1>2 DEF BeginRenewal, EveryConditionDecided
    <3>4. UNCHANGED <<condLicense, condStatus, completion, job>>
      BY <1>2 DEF BeginRenewal, conditionRows
    <3> QED
      BY <2>2, <3>1, <3>2, <3>3, <3>4
         DEF SnapshotHolds, ConditionsOf, Fulfillable, Reopenable
  <2> QED
    BY <2>1, <2>2
<1>3. ASSUME NEW l \in Licenses, NEW copies \in SUBSET Conditions,
             NEW now \in Dates, CommitRenewal(r, l, copies, now)
      PROVE TxInv'
  <2> DEFINE old == job[r].license
  <2> SUFFICES ASSUME NEW q \in Requests, pc'[q] = "inTx", ~tx'[q].stale
               PROVE SnapshotHolds(q)'
    OBVIOUS
  <2>1. q # r /\ pc[q] = "inTx"
    BY <1>3 DEF CommitRenewal, Advance
  <2>2. tx'[q] = [tx[q] EXCEPT !.stale = tx[q].stale \/ q \in RenewalsOf(old)]
    BY <1>3 DEF CommitRenewal, Invalidate
  <2>3. /\ tx'[q].fulfill = tx[q].fulfill /\ tx'[q].reopen = tx[q].reopen
        /\ ~tx[q].stale /\ q \notin RenewalsOf(old)
    BY <2>2 DEF Transaction
  <2>4. job[q].license # old
    BY <2>1, <2>3 DEF RenewalsOf
  <2>5. SnapshotHolds(q)
    BY <2>1, <2>3
  <2>6. SnapshotHolds(r) /\ job[r].license \in Licenses
    BY <1>3 DEF CommitRenewal, Advance, NoConflict, JobsInv, IsRenewal, Job
  <2>7. job[q].license \in Licenses
    BY <2>1 DEF JobsInv, IsRenewal, Job
  <2>8. \A c \in job[q].decided :
           c \notin tx[r].fulfill /\ c \notin tx[r].reopen
    BY <2>4, <2>5, <2>6 DEF SnapshotHolds, ConditionsOf
  <2>9. \A c \in job[q].decided : c \in Conditions /\ c \notin copies
    BY <1>3, <2>5, <2>7, IdsAssumption
       DEF SnapshotHolds, ConditionsOf, CommitRenewal, UnusedConditions, RowsInv,
           LiveStatus
  <2>10. \A c \in job[q].decided :
           /\ condLicense'[c] = condLicense[c]
           /\ condStatus'[c] = condStatus[c]
           /\ completion'[c] = completion[c]
    BY <1>3, <2>8, <2>9 DEF CommitRenewal, Assign
  <2>11. tx[q].fulfill \cup tx[q].reopen \subseteq job[q].decided
    BY <2>5 DEF SnapshotHolds
  <2>12. job' = job
    BY <1>3 DEF CommitRenewal
  <2> QED
    BY <2>1, <2>3, <2>10, <2>11, <2>12, SnapshotKept
<1>4. {"checked", "rejected", "uploaded", "done", "failed"}
          \subseteq Progress \ {"inTx"}
  BY DEF Progress, Ended
<1>5. ASSUME \/ CheckCreate(r) \/ Reject(r) \/ Upload(r) \/ RejectOutdated(r)
             \/ Fail(r) \/ \E l \in Licenses : InsertLicense(r, l)
      PROVE TxInv'
  BY <1>1, <1>4, <1>5
     DEF CheckCreate, Reject, Upload, RejectOutdated, Fail, InsertLicense
<1>6. ASSUME NEW l \in Licenses, NEW decided \in SUBSET Conditions,
             NEW fulfilled \in SUBSET Conditions,
             NEW copied \in SUBSET Conditions,
             CheckRenewal(r, l, decided, fulfilled, copied)
      PROVE TxInv'
  BY <1>1, <1>4, <1>6 DEF CheckRenewal
<1> QED
  BY <1>2, <1>3, <1>5, <1>6 DEF RequestStep

(* A commit on the condition tables that invalidates the renewals in R:     *)
(* the others' snapshots stay true if their rows are untouched.             *)
LEMMA TxOutside ==
    ASSUME IInv, NEW R, Invalidate(R), UNCHANGED <<pc, job>>,
           \A r \in Requests \ R : Open(r) /\ ~tx[r].stale =>
              /\ \A c \in job[r].decided : condLicense'[c] = condLicense[c]
              /\ \A c \in tx[r].fulfill \cup tx[r].reopen :
                    condStatus'[c] = condStatus[c] /\ completion'[c] = completion[c]
    PROVE TxInv'
<1> USE DEF IInv, TypeOK, Open
<1> SUFFICES ASSUME NEW r \in Requests, pc'[r] = "inTx", ~tx'[r].stale
             PROVE SnapshotHolds(r)'
  BY DEF TxInv
<1>1. tx'[r] = [tx[r] EXCEPT !.stale = tx[r].stale \/ r \in R]
  BY DEF Invalidate
<1>2. /\ tx'[r].fulfill = tx[r].fulfill /\ tx'[r].reopen = tx[r].reopen
      /\ ~tx[r].stale /\ r \notin R
  BY <1>1 DEF Transaction
<1> QED
  BY <1>2, SnapshotKept

LEMMA TxConditionStep == ASSUME IInv, ConditionStep PROVE TxInv'
<1> USE DEF IInv, TypeOK
<1>1. ASSUME NEW r \in Requests, Open(r), ~tx[r].stale
      PROVE /\ job[r].decided \subseteq ConditionsOf(job[r].license)
            /\ job[r].license \in Licenses
            /\ tx[r].fulfill \cup tx[r].reopen \subseteq job[r].decided
  BY <1>1 DEF TxInv, SnapshotHolds, JobsInv, IsRenewal, Job
<1>2. ASSUME NEW l \in Licenses, NEW new \in SUBSET Conditions,
             AppendConditions(l, new)
      PROVE TxInv'
  <2> SUFFICES ASSUME NEW r \in Requests, Open(r)', ~tx'[r].stale
               PROVE SnapshotHolds(r)'
    BY DEF TxInv
  <2>1. Open(r) /\ tx' = tx /\ job' = job /\ completion' = completion
    BY <1>2 DEF AppendConditions, Open
  <2>2. \A c \in job[r].decided : c \in Conditions /\ c \notin new
    BY <1>1, <1>2, <2>1, IdsAssumption
       DEF AppendConditions, ConditionsOf, UnusedConditions, RowsInv, LiveStatus
  <2>3. \A c \in job[r].decided :
           condLicense'[c] = condLicense[c] /\ condStatus'[c] = condStatus[c]
    BY <1>2, <2>2 DEF AppendConditions, Assign
  <2> QED
    BY <1>1, <2>1, <2>3, SnapshotKept
<1>3. ASSUME NEW c \in Conditions, NEW edit \in Edits, EditCondition(c, edit)
      PROVE TxInv'
  <2>1. \A r \in Requests \ RenewalsOf(condLicense[c]) :
           Open(r) /\ ~tx[r].stale => c \notin job[r].decided
    BY <1>1 DEF RenewalsOf, ConditionsOf
  <2> QED
    BY <1>1, <1>3, <2>1, TxOutside DEF EditCondition
<1>4. ASSUME NEW c \in Conditions, DeleteCondition(c) PROVE TxInv'
  <2>1. \A r \in Requests \ RenewalsOf(condLicense[c]) :
           Open(r) /\ ~tx[r].stale => c \notin job[r].decided
    BY <1>1 DEF RenewalsOf, ConditionsOf
  <2> QED
    BY <1>1, <1>4, <2>1, TxOutside DEF DeleteCondition
<1>5. ASSUME NEW l \in Licenses, NEW yes \in SUBSET Conditions,
             NEW no \in SUBSET Conditions, NEW now \in Dates,
             SaveFulfillment(l, yes, no, now)
      PROVE TxInv'
  <2> DEFINE fulfilled == Fulfillable(yes)
             reopened == no \cap (Reopenable(no) \cup fulfilled)
  <2>1. \A r \in Requests \ RenewalsWriting(fulfilled \cup reopened) :
           Open(r) =>
             \A c \in tx[r].fulfill \cup tx[r].reopen :
                c \notin fulfilled /\ c \notin reopened
    BY DEF RenewalsWriting
  <2>2. \A c \in Conditions : c \notin fulfilled /\ c \notin reopened =>
           condStatus'[c] = condStatus[c] /\ completion'[c] = completion[c]
    BY <1>5 DEF SaveFulfillment, Assign
  <2>3. \A r \in Requests : Open(r) /\ ~tx[r].stale =>
           tx[r].fulfill \cup tx[r].reopen \subseteq Conditions
    BY DEF Transaction
  <2>4. /\ Invalidate(RenewalsWriting(fulfilled \cup reopened))
        /\ UNCHANGED <<pc, job, condLicense>>
    BY <1>5 DEF SaveFulfillment
  <2> QED
    BY <2>1, <2>2, <2>3, <2>4, TxOutside
<1> QED
  BY <1>2, <1>3, <1>4, <1>5 DEF ConditionStep

LEMMA TxStutter == ASSUME IInv, UNCHANGED vars PROVE TxInv'
  BY DEF IInv, TxInv, Open, SnapshotHolds, ConditionsOf, Fulfillable, Reopenable,
         vars

LEMMA StepIInv == IInv /\ [Next]_vars => IInv'
<1> SUFFICES ASSUME IInv, Next \/ UNCHANGED vars PROVE IInv'
  OBVIOUS
<1>1. TypeOK'
  BY RequestStepTypeOK, ConditionStepTypeOK, StutterTypeOK
     DEF IInv, Next, Quiescent
<1>2. TxInv'
  BY TxRequestStep, TxConditionStep, TxStutter DEF Next, Quiescent
<1> QED
  BY <1>1, <1>2, RowsStep, JobsStep, FilesStep DEF IInv

LEMMA Invariance == Spec => []IInv
  BY InitIInv, StepIInv, PTL DEF Spec

(* Only the commit of a renewal ends a transaction with success. *)
LEMMA OnlyRenewalsCommit ==
    ASSUME IInv, Next, NEW r \in Requests, Commits(r)
    PROVE  \E l \in Licenses, copies \in SUBSET Conditions, now \in Dates :
              CommitRenewal(r, l, copies, now)
<1>1. PICK q \in Requests : RequestStep(q)
  BY DEF Next, ConditionStep, Quiescent, vars, Commits, AppendConditions,
         EditCondition, DeleteCondition, SaveFulfillment
<1> QED
  BY <1>1 DEF IInv, TypeOK, Commits, RequestStep, CheckCreate, CheckRenewal,
              Reject, Upload, InsertLicense, BeginRenewal, RejectOutdated,
              CommitRenewal, Fail, Advance

-----------------------------------------------------------------------------
(* The theorems *)

(* Every license has its own stored file, and a file without a license is   *)
(* a request's that is under way or failed after the upload: a request that *)
(* a check rejected, or that was answered with a license, leaves none.      *)
THEOREM RenewalFiles == Spec => []FilesAccountedFor
<1>1. IInv => FilesAccountedFor
  BY DEF IInv, TypeOK, Files, FilesInv, FilesAccountedFor
<1> QED
  BY <1>1, Invariance, PTL

(* No renewal commits over an edit, a deletion, a saved fulfillment or      *)
(* another renewal that committed after the renewal's snapshot.             *)
THEOREM RenewalNoLostUpdate == Spec => NoLostUpdate
<1> DEFINE Kept(r) ==
      /\ job[r].decided \subseteq ConditionsOf(job[r].license)
      /\ tx[r].fulfill \subseteq Fulfillable(tx[r].fulfill)
      /\ tx[r].reopen \subseteq Reopenable(tx[r].reopen)
<1>1. IInv /\ [Next]_vars => [\A r \in Requests : Commits(r) => Kept(r)]_vars
  <2> SUFFICES ASSUME IInv, Next, NEW r \in Requests, Commits(r) PROVE Kept(r)
    BY DEF Kept
  <2>1. PICK l \in Licenses, copies \in SUBSET Conditions, now \in Dates :
           CommitRenewal(r, l, copies, now)
    BY OnlyRenewalsCommit
  <2>2. Open(r) /\ ~tx[r].stale
    BY <2>1 DEF CommitRenewal, NoConflict, Advance, Open
  <2> QED
    BY <2>2 DEF IInv, TxInv, SnapshotHolds
<1> QED
  BY <1>1, Invariance, PTL DEF Spec, NoLostUpdate

(* A saved fulfillment alone: a condition it lists one way is fulfilled     *)
(* unless it already was, or reopened if it was fulfilled.                  *)
LEMMA SaveKeepsRecord ==
    ASSUME IInv, NEW l \in Licenses, NEW yes \in SUBSET Conditions,
           NEW no \in SUBSET Conditions, NEW now \in Dates,
           SaveFulfillment(l, yes, no, now),
           NEW c \in Conditions \ (yes \cap no)
    PROVE  RecordKept(c)
<1> DEFINE fulfilled == Fulfillable(yes)
           reopened == no \cap (Reopenable(no) \cup fulfilled)
<1>1. /\ condStatus \in [Conditions -> ConditionStatus]
      /\ completion \in [Conditions -> Dates \cup {None}]
  BY DEF IInv, TypeOK
<1>2. /\ condStatus'[c] = IF c \in reopened THEN "IN_PROGRESS"
                          ELSE IF c \in fulfilled THEN "FULFILLED"
                          ELSE condStatus[c]
      /\ completion'[c] = IF c \in reopened THEN None
                          ELSE IF c \in fulfilled THEN now ELSE completion[c]
  BY <1>1 DEF SaveFulfillment, Assign
<1>3. /\ c \in fulfilled => condStatus[c] # "FULFILLED" \/ completion[c] = None
      /\ c \in reopened => condStatus[c] = "FULFILLED"
  BY DEF Fulfillable, Reopenable
<1> HIDE DEF fulfilled, reopened
<1> QED
  BY <1>2, <1>3 DEF RecordKept, Overdue

(* A renewal's commit: what it rewrites is still in the state its snapshot  *)
(* found it in, or it would have been aborted (TxInv).                      *)
LEMMA CommitKeepsRecord ==
    ASSUME IInv, NEW r \in Requests, NEW l \in Licenses,
           NEW copies \in SUBSET Conditions, NEW now \in Dates,
           CommitRenewal(r, l, copies, now), NEW c \in Conditions
    PROVE  RecordKept(c)
<1> DEFINE mine == tx[r]
<1>1. /\ condStatus \in [Conditions -> ConditionStatus]
      /\ completion \in [Conditions -> Dates \cup {None}]
  BY DEF IInv, TypeOK
<1>2. Open(r) /\ ~tx[r].stale
  BY DEF CommitRenewal, NoConflict, Advance, Open
<1>3. /\ mine.fulfill \subseteq Fulfillable(mine.fulfill)
      /\ mine.reopen \subseteq Reopenable(mine.reopen)
  BY <1>2 DEF IInv, TxInv, SnapshotHolds
<1>4. /\ c \in mine.fulfill =>
            condStatus[c] # "FULFILLED" \/ completion[c] = None
      /\ c \in mine.reopen => condStatus[c] = "FULFILLED"
      /\ c \in copies => condStatus[c] = "UNUSED"
  BY <1>3 DEF Fulfillable, Reopenable, CommitRenewal, UnusedConditions
<1>5. /\ condStatus'[c] = IF c \in mine.reopen \cup copies THEN "IN_PROGRESS"
                          ELSE IF c \in mine.fulfill THEN "FULFILLED"
                          ELSE condStatus[c]
      /\ completion'[c] = IF c \in mine.reopen THEN None
                          ELSE IF c \in mine.fulfill THEN now ELSE completion[c]
  BY <1>1 DEF CommitRenewal, Assign
<1> HIDE DEF mine
<1> QED
  BY <1>4, <1>5 DEF RecordKept, Overdue

(* Neither form of recording decisions rewrites what is recorded, however   *)
(* many renewals and fulfillment forms are open on a license: an overdue    *)
(* condition is not reopened, and a completion date stays.                  *)
THEOREM RenewalKeepsRecords == Spec => RecordedFulfillmentKept
<1> DEFINE SavesKeep ==
             \A l \in Licenses, yes, no \in SUBSET Conditions, now \in Dates :
                SaveFulfillment(l, yes, no, now) =>
                   \A c \in Conditions \ (yes \cap no) : RecordKept(c)
           CommitsKeep ==
             (\E r \in Requests : Commits(r)) =>
                \A c \in Conditions : RecordKept(c)
<1>1. IInv /\ [Next]_vars => [SavesKeep /\ CommitsKeep]_vars
  <2> SUFFICES ASSUME IInv, Next PROVE SavesKeep /\ CommitsKeep
    OBVIOUS
  <2>1. SavesKeep
    BY SaveKeepsRecord
  <2>2. ASSUME NEW r \in Requests, Commits(r), NEW c \in Conditions
        PROVE RecordKept(c)
    BY <2>2, OnlyRenewalsCommit, CommitKeepsRecord
  <2> QED
    BY <2>1, <2>2
<1> QED
  BY <1>1, Invariance, PTL DEF Spec, RecordedFulfillmentKept

LEMMA InitLineage == Init => Lineage!Init
  BY DEF Init, Lineage!Init

(* A registration maps to Register, a renewal's commit to Renew, and every  *)
(* other step leaves the lineage as it is.                                  *)
LEMMA StepLineage == IInv /\ [Next]_vars => [Lineage!Next]_(Lineage!lineage)
<1> SUFFICES ASSUME IInv, Next \/ UNCHANGED vars
             PROVE Lineage!Next \/ UNCHANGED <<status, previous>>
  BY DEF Lineage!lineage
<1> USE DEF licenseRows
<1>1. ASSUME NEW r \in Requests, RequestStep(r),
             ~UNCHANGED <<status, previous>>
      PROVE \/ \E l \in Licenses : InsertLicense(r, l)
            \/ \E l \in Licenses, copies \in SUBSET Conditions, now \in Dates :
                  CommitRenewal(r, l, copies, now)
  BY <1>1 DEF RequestStep, CheckCreate, CheckRenewal, Reject, Upload,
              BeginRenewal, RejectOutdated, Fail
<1>2. ASSUME NEW r \in Requests, NEW l \in Licenses, InsertLicense(r, l)
      PROVE Lineage!Next
  BY <1>2 DEF InsertLicense, Exists, Lineage!Next, Lineage!Register
<1>3. ASSUME NEW r \in Requests, NEW l \in Licenses,
             NEW copies \in SUBSET Conditions, NEW now \in Dates,
             CommitRenewal(r, l, copies, now)
      PROVE Lineage!Next
  <2>1. job[r].license \in Licenses /\ Exists(job[r].license)
    BY <1>3 DEF CommitRenewal, Advance, IInv, JobsInv, IsRenewal, Open, TypeOK, Job
  <2>2. Lineage!Renew(job[r].license, l)
    BY <1>3, <2>1 DEF CommitRenewal, Archive, Link, Exists, Lineage!Renew
  <2> QED
    BY <2>1, <2>2 DEF Lineage!Next
<1>4. ConditionStep => UNCHANGED <<status, previous>>
  BY DEF ConditionStep, AppendConditions, EditCondition, DeleteCondition,
         SaveFulfillment
<1> QED
  BY <1>1, <1>2, <1>3, <1>4 DEF Next, Quiescent, vars

(* The license rows implement the abstract lineage: registration and        *)
(* renewal are single steps on them.                                        *)
THEOREM RenewalImplementsLineage == Spec => LineageSpec
  BY InitLineage, StepLineage, Invariance, PTL
     DEF Spec, LineageSpec, Lineage!Spec

-----------------------------------------------------------------------------
(* The abstract specification, for every set of licenses *)

LEMMA LineageInitInv == Lineage!Init => Lineage!Inv
  BY IdsAssumption
     DEF Lineage!Init, Lineage!Inv, Lineage!TypeOK, Lineage!ArchivedIffRenewed,
         Lineage!OnlyLicensesRenew

LEMMA LineageRegisterInv ==
    ASSUME Lineage!Inv, NEW new \in Licenses, Lineage!Register(new)
    PROVE  Lineage!Inv'
  BY DEF Lineage!Inv, Lineage!TypeOK, Lineage!ArchivedIffRenewed,
         Lineage!OnlyLicensesRenew, Lineage!Register

LEMMA LineageRenewInv ==
    ASSUME Lineage!Inv, NEW old \in Licenses, NEW new \in Licenses,
           Lineage!Renew(old, new)
    PROVE  Lineage!Inv'
<1> USE IdsAssumption DEF Lineage!Inv, Lineage!TypeOK, Lineage!Renew
<1>1. Lineage!TypeOK'
  OBVIOUS
<1>2. Lineage!OnlyLicensesRenew'
  BY DEF Lineage!OnlyLicensesRenew
<1>3. Lineage!ArchivedIffRenewed'
  <2> SUFFICES ASSUME NEW l \in Licenses
               PROVE (status[l] = "ARCHIVED" <=>
                        \E m \in Licenses : previous[m] = l)'
    BY DEF Lineage!ArchivedIffRenewed
  <2>1. CASE l = old
    BY <2>1
  <2>2. CASE l # old
    <3>1. previous[new] = None
      BY DEF Lineage!OnlyLicensesRenew
    <3>2. status'[l] = "ARCHIVED" <=> status[l] = "ARCHIVED"
      BY <2>2
    <3>3. ASSUME NEW m \in Licenses
          PROVE previous'[m] = l <=> previous[m] = l
      BY <2>2, <3>1
    <3> QED
      BY <3>2, <3>3 DEF Lineage!ArchivedIffRenewed
  <2> QED
    BY <2>1, <2>2
<1> QED
  BY <1>1, <1>2, <1>3

LEMMA LineageStepInv ==
    Lineage!Inv /\ [Lineage!Next]_(Lineage!lineage) => Lineage!Inv'
<1> SUFFICES ASSUME Lineage!Inv, [Lineage!Next]_(Lineage!lineage)
             PROVE Lineage!Inv'
  OBVIOUS
<1>1. CASE Lineage!Next
  BY <1>1, LineageRegisterInv, LineageRenewInv DEF Lineage!Next
<1>2. CASE UNCHANGED Lineage!lineage
  BY <1>2 DEF Lineage!lineage, Lineage!Inv, Lineage!TypeOK,
              Lineage!ArchivedIffRenewed, Lineage!OnlyLicensesRenew
<1> QED
  BY <1>1, <1>2

(* A license is archived exactly when some license renews it, in every      *)
(* behavior of the abstract specification.                                  *)
THEOREM LineageArchived == LineageSpec => []ArchivedIffRenewed
<1>1. Lineage!Inv => ArchivedIffRenewed
  BY DEF Lineage!Inv, ArchivedIffRenewed
<1> QED
  BY LineageInitInv, LineageStepInv, <1>1, PTL DEF LineageSpec, Lineage!Spec

(* A fresh version has no successor, so a set of licenses closed under      *)
(* predecessor after the step was closed before it, the new one left out.   *)
LEMMA LineageRenewWellFounded ==
    ASSUME Lineage!Inv, HistoryWellFounded,
           NEW old \in Licenses, NEW new \in Licenses, Lineage!Renew(old, new)
    PROVE  HistoryWellFounded'
<1> USE DEF HistoryWellFounded, Lineage!HistoryWellFounded
<1> SUFFICES ASSUME NEW S \in SUBSET Licenses, S # {}
             PROVE \E l \in S : previous'[l] \notin S
  OBVIOUS
<1> DEFINE T == S \ {new}
<1>1. \A m \in Licenses : previous[m] # new
  BY DEF Lineage!Inv, Lineage!ArchivedIffRenewed, Lineage!Renew
<1>2. \A m \in T : previous'[m] = previous[m]
  BY DEF Lineage!Inv, Lineage!TypeOK, Lineage!Renew
<1>3. CASE T = {}
  <2>1. S = {new} /\ previous'[new] = old /\ old # new
    BY <1>3 DEF Lineage!Inv, Lineage!TypeOK, Lineage!Renew
  <2> QED
    BY <2>1
<1>4. CASE T # {}
  <2>1. PICK m \in T : previous[m] \notin T
    BY <1>4
  <2> QED
    BY <2>1, <1>1, <1>2
<1> QED
  BY <1>3, <1>4

LEMMA LineageStepWellFounded ==
    Lineage!Inv /\ HistoryWellFounded /\ [Lineage!Next]_(Lineage!lineage)
    => HistoryWellFounded'
<1> SUFFICES ASSUME Lineage!Inv, HistoryWellFounded,
                    [Lineage!Next]_(Lineage!lineage)
             PROVE HistoryWellFounded'
  OBVIOUS
<1> USE DEF HistoryWellFounded, Lineage!HistoryWellFounded
<1>1. ASSUME NEW new \in Licenses, Lineage!Register(new)
      PROVE HistoryWellFounded'
  BY <1>1 DEF Lineage!Register
<1>2. CASE UNCHANGED Lineage!lineage
  BY <1>2 DEF Lineage!lineage
<1> QED
  BY <1>1, <1>2, LineageRenewWellFounded DEF Lineage!Next

(* The chain of versions behind a license never loops, so walking it back   *)
(* through previousLicenseId comes to a first version.                      *)
THEOREM LineageWellFounded == LineageSpec => []HistoryWellFounded
<1>1. Lineage!Init => HistoryWellFounded
  BY IdsAssumption
     DEF Lineage!Init, HistoryWellFounded, Lineage!HistoryWellFounded
<1> QED
  BY LineageInitInv, LineageStepInv, <1>1, LineageStepWellFounded, PTL
     DEF LineageSpec, Lineage!Spec

-----------------------------------------------------------------------------
(* The concurrent specification inherits both *)

(* A license is archived exactly when some license renews it, in every      *)
(* behavior of the requests.                                                *)
THEOREM RenewalArchived == Spec => []ArchivedIffRenewed
  BY LineageArchived, RenewalImplementsLineage, PTL

(* No license renews itself, directly or through others, in every behavior  *)
(* of the requests.                                                         *)
THEOREM RenewalWellFounded == Spec => []HistoryWellFounded
  BY LineageWellFounded, RenewalImplementsLineage, PTL

-----------------------------------------------------------------------------
(* Lines of versions *)

(* Induction over the numbers up to n, on the set of those that hold. *)
LEMMA Upwards ==
    ASSUME NEW n \in Nat, NEW S, 0 \in S,
           \A k \in 0..n : k # n /\ k \in S => k + 1 \in S
    PROVE  \A k \in 0..n : k \in S
<1> DEFINE Bad == {k \in 0..n : k \notin S}
<1> SUFFICES ASSUME Bad # {} PROVE FALSE
  OBVIOUS
<1>1. PICK u \in Bad : \A m \in Bad : <<m, u>> \notin OpToRel(<, Nat)
  <2>1. Bad \subseteq Nat
    OBVIOUS
  <2> HIDE DEF Bad
  <2> QED
    BY <2>1, WFMin, NatLessThanWellFounded
<1>2. \A m \in Nat : m < u => m \notin Bad
  <2>1. u \in Nat
    OBVIOUS
  <2> HIDE DEF Bad
  <2> QED
    BY <1>1, <2>1 DEF OpToRel
<1>3. u # 0
  OBVIOUS
<1>4. u - 1 \in 0..n /\ u - 1 # n /\ u - 1 < u /\ u - 1 \in Nat
  BY <1>3
<1>5. u - 1 \in S
  BY <1>2, <1>4
<1> QED
  BY <1>4, <1>5

(* f counts up to n, repeating a step from some start. *)
IsLoop(f, n, start, step) ==
    f = [k \in 0..n |-> IF k = 0 THEN start ELSE step[f[k - 1]]]

LEMMA LoopExists ==
    ASSUME NEW n \in Nat, NEW start, NEW step
    PROVE  \E f : IsLoop(f, n, start, step)
<1> DEFINE Good == {k \in 0..n : \E f : IsLoop(f, k, start, step)}
<1>1. 0 \in Good
  <2> DEFINE f == [k \in 0..0 |-> start]
  <2>1. f = [k \in 0..0 |-> IF k = 0 THEN start ELSE step[f[k - 1]]]
    OBVIOUS
  <2>2. IsLoop(f, 0, start, step)
    BY <2>1 DEF IsLoop
  <2> HIDE DEF f
  <2> QED
    BY <2>2
<1>2. ASSUME NEW k \in 0..n, k # n, k \in Good
      PROVE  k + 1 \in Good
  <2>1. PICK f : IsLoop(f, k, start, step)
    BY <1>2
  <2> DEFINE g == [i \in 0..(k + 1) |->
                     IF i = 0 THEN start ELSE step[f[i - 1]]]
  <2>2. ASSUME NEW i \in 0..(k + 1), i # 0
        PROVE  g[i - 1] = f[i - 1]
    <3>1. i - 1 \in 0..k /\ i - 1 \in 0..(k + 1)
      BY <2>2
    <3>2. f[i - 1] = IF i - 1 = 0 THEN start ELSE step[f[(i - 1) - 1]]
      BY <2>1, <3>1 DEF IsLoop
    <3> QED
      BY <3>1, <3>2
  <2>3. g = [i \in 0..(k + 1) |-> IF i = 0 THEN start ELSE step[g[i - 1]]]
    BY <2>2
  <2>4. IsLoop(g, k + 1, start, step)
    BY <2>3 DEF IsLoop
  <2>5. k + 1 \in 0..n
    BY <1>2
  <2> HIDE DEF g
  <2> QED
    BY <2>4, <2>5
<1>3. \A k \in 0..n : k \in Good
  <2> HIDE DEF Good
  <2> QED
    BY <1>1, <1>2, Upwards
<1> QED
  BY <1>3

(* A sequence of versions, each created before the one listed above it. *)
Falling(s, stamp) ==
    /\ s \in Seq(Versions)
    /\ Len(s) > 0
    /\ \A i, j \in 1..Len(s) : i < j => stamp[s[j]] < stamp[s[i]]

LEMMA FallingIsShort ==
    ASSUME IsFiniteSet(Versions), NEW stamp \in [Versions -> Nat],
           NEW s, Falling(s, stamp)
    PROVE  Len(s) \in Nat /\ Len(s) <= Cardinality(Versions)
<1>1. Len(s) \in Nat /\ s \in [1..Len(s) -> Versions]
  BY LenProperties DEF Falling
<1>2. ASSUME NEW i \in 1..Len(s), NEW j \in 1..Len(s), s[i] = s[j]
      PROVE  i = j
  <2>1. stamp[s[i]] = stamp[s[j]] /\ stamp[s[i]] \in Nat
    BY <1>1, <1>2
  <2>2. ~(i < j) /\ ~(j < i)
    BY <2>1 DEF Falling
  <2> QED
    BY <1>1, <2>2
<1>3. s \in Injection(1..Len(s), Versions)
  BY <1>1, <1>2 DEF Injection, IsInjective
<1>4. Cardinality(1..Len(s)) = Len(s)
  BY <1>1, FS_Interval
<1>5. Cardinality(1..Len(s)) <= Cardinality(Versions)
  BY <1>3, FS_Injection
<1> QED
  BY <1>1, <1>4, <1>5

(* What the lists newer and older say of the versions: a newer version is   *)
(* created later, an older one earlier.                                     *)
Ordered(newer, older, stamp) ==
    /\ newer \in [Versions -> Versions \cup {Nil}]
    /\ older \in [Versions -> Versions \cup {Nil}]
    /\ stamp \in [Versions -> Nat]
    /\ \A l \in Versions :
          /\ newer[l] # Nil => stamp[l] < stamp[newer[l]]
          /\ older[l] # Nil => stamp[older[l]] < stamp[l]

(* The versions of s down to place k are reached by newer, the others by    *)
(* older.                                                                   *)
IsLine(s, k, newer, older) ==
    /\ s \in Seq(Versions)
    /\ k \in 1..Len(s)
    /\ \A i \in 1..(k - 1) : newer[s[i + 1]] = s[i]
    /\ \A i \in k..(Len(s) - 1) : older[s[i]] = s[i + 1]

(* Such a line through l that goes on at neither end. *)
WholeLine(s, l, newer, older) ==
    /\ \E k \in 1..Len(s) : IsLine(s, k, newer, older) /\ s[k] = l
    /\ newer[s[1]] = Nil
    /\ older[s[Len(s)]] = Nil

AddsNewer(step, newer) ==
    \A s \in Seq(Versions) :
        step[s] = IF newer[s[1]] = Nil \/ \E k \in DOMAIN s : s[k] = newer[s[1]]
                  THEN s ELSE <<newer[s[1]]>> \o s

AddsOlder(step, older) ==
    \A s \in Seq(Versions) :
        step[s] = IF \/ older[s[Len(s)]] = Nil
                     \/ \E k \in DOMAIN s : s[k] = older[s[Len(s)]]
                  THEN s ELSE Append(s, older[s[Len(s)]])

(* One pass of either loop adds a version or has come to the end. *)
LEMMA NewerStep ==
    ASSUME NEW newer, NEW older, NEW stamp, Ordered(newer, older, stamp),
           NEW step, AddsNewer(step, newer),
           NEW s, Falling(s, stamp), IsLine(s, Len(s), newer, older)
    PROVE  LET t == step[s] IN
           /\ Falling(t, stamp) /\ IsLine(t, Len(t), newer, older)
           /\ t[Len(t)] = s[Len(s)]
           /\ IF newer[s[1]] = Nil THEN t = s ELSE Len(t) = Len(s) + 1
<1> DEFINE x == newer[s[1]]
           t == <<x>> \o s
           n == Len(s)
<1>1. /\ s \in Seq(Versions) /\ n \in Nat /\ n > 0 /\ DOMAIN s = 1..n
      /\ \A i \in 1..n : s[i] \in Versions
  BY LenProperties, ElementOfSeq DEF Falling
<1>2. CASE x = Nil
  <2>1. step[s] = s
    BY <1>1, <1>2 DEF AddsNewer
  <2> QED
    BY <1>2, <2>1
<1>3. CASE x # Nil
  <2>0. s[1] \in Versions
    BY <1>1
  <2>1. x \in Versions /\ stamp[s[1]] < stamp[x]
    BY <1>3, <2>0 DEF Ordered
  <2>2. \A l \in Versions : stamp[l] \in Nat
    BY DEF Ordered
  <2> HIDE DEF x
  <2>3. \A i \in 1..n : stamp[s[i]] < stamp[x]
    <3> SUFFICES ASSUME NEW i \in 1..n PROVE stamp[s[i]] < stamp[x]
      OBVIOUS
    <3>1. CASE i = 1
      BY <2>1, <3>1
    <3>2. CASE i # 1
      <4>1. 1 \in 1..n /\ 1 < i
        BY <1>1, <3>2
      <4>2. stamp[s[i]] < stamp[s[1]]
        BY <4>1 DEF Falling
      <4>3. stamp[s[i]] \in Nat /\ stamp[s[1]] \in Nat /\ stamp[x] \in Nat
        BY <1>1, <2>0, <2>1, <2>2
      <4> QED
        BY <2>1, <4>2, <4>3
    <3> QED
      BY <3>1, <3>2
  <2>4. \A k \in DOMAIN s : s[k] # x
    BY <1>1, <2>1, <2>2, <2>3
  <2>5. step[s] = t
    BY <1>1, <1>3, <2>4 DEF AddsNewer, x
  <2>6. /\ t \in Seq(Versions) /\ Len(t) = n + 1 /\ t[1] = x
        /\ \A i \in 1..n : t[i + 1] = s[i]
    <3>1. <<x>> \in Seq(Versions) /\ Len(<<x>>) = 1 /\ <<x>>[1] = x
      BY <2>1
    <3> DEFINE u == <<x>>
    <3>2. u \in Seq(Versions) /\ Len(u) = 1 /\ u[1] = x
      BY <3>1
    <3> HIDE DEF u
    <3>3. /\ u \o s \in Seq(Versions)
          /\ Len(u \o s) = 1 + n
          /\ \A i \in 1..(1 + n) :
                (u \o s)[i] = IF i <= 1 THEN u[i] ELSE s[i - 1]
      BY <1>1, <3>2, ConcatProperties
    <3>4. \A i \in 1..n : i + 1 \in 1..(1 + n) /\ ~(i + 1 <= 1) /\ (i + 1) - 1 = i
      BY <1>1
    <3>5. 1 \in 1..(1 + n)
      BY <1>1
    <3>6. t = u \o s
      BY DEF u
    <3> HIDE DEF t, n
    <3> QED
      BY <1>1, <3>2, <3>3, <3>4, <3>5, <3>6
  <2> HIDE DEF t
  <2>7. \A j \in 1..(n + 1) : j # 1 => j - 1 \in 1..n /\ t[j] = s[j - 1]
    <3> SUFFICES ASSUME NEW j \in 1..(n + 1), j # 1
                 PROVE  j - 1 \in 1..n /\ t[j] = s[j - 1]
      OBVIOUS
    <3>1. j - 1 \in 1..n /\ (j - 1) + 1 = j
      BY <1>1
    <3> QED
      BY <2>6, <3>1
  <2>8. Falling(t, stamp)
    <3> SUFFICES ASSUME NEW i \in 1..(n + 1), NEW j \in 1..(n + 1), i < j
                 PROVE  stamp[t[j]] < stamp[t[i]]
      BY <1>1, <2>6 DEF Falling
    <3>1. j - 1 \in 1..n /\ t[j] = s[j - 1]
      BY <1>1, <2>7
    <3>2. CASE i = 1
      BY <2>3, <2>6, <3>1, <3>2
    <3>3. CASE i # 1
      <4>1. i - 1 \in 1..n /\ t[i] = s[i - 1] /\ i - 1 < j - 1
        BY <1>1, <2>7, <3>3
      <4> QED
        BY <3>1, <4>1 DEF Falling
    <3> QED
      BY <3>2, <3>3
  <2>9. IsLine(t, n + 1, newer, older)
    <3>1. n + 1 \in 1..(n + 1) /\ \A i \in (n + 1)..((n + 1) - 1) : FALSE
      BY <1>1
    <3>2. ASSUME NEW i \in 1..((n + 1) - 1)
          PROVE  newer[t[i + 1]] = t[i]
      <4>1. i \in 1..n /\ t[i + 1] = s[i]
        BY <1>1, <2>6
      <4>2. CASE i = 1
        BY <2>6, <4>1, <4>2 DEF x
      <4>3. CASE i # 1
        <5>1. i - 1 \in 1..(n - 1) /\ (i - 1) + 1 = i
          BY <1>1, <4>1, <4>3
        <5>2. t[i] = s[i - 1]
          BY <2>7, <4>1, <4>3
        <5>3. newer[s[(i - 1) + 1]] = s[i - 1]
          BY <5>1 DEF IsLine
        <5> QED
          BY <4>1, <5>1, <5>2, <5>3
      <4> QED
        BY <4>2, <4>3
    <3> QED
      BY <2>6, <3>1, <3>2 DEF IsLine
  <2>10. t[n + 1] = s[n]
    BY <1>1, <2>6
  <2> QED
    BY <1>3, <2>5, <2>6, <2>8, <2>9, <2>10 DEF x
<1> QED
  BY <1>2, <1>3

LEMMA OlderStep ==
    ASSUME NEW newer, NEW older, NEW stamp, Ordered(newer, older, stamp),
           NEW step, AddsOlder(step, older),
           NEW s, NEW k, Falling(s, stamp), IsLine(s, k, newer, older)
    PROVE  LET t == step[s] IN
           /\ Falling(t, stamp) /\ IsLine(t, k, newer, older)
           /\ t[k] = s[k] /\ t[1] = s[1]
           /\ IF older[s[Len(s)]] = Nil THEN t = s ELSE Len(t) = Len(s) + 1
<1> DEFINE n == Len(s)
           y == older[s[n]]
           t == Append(s, y)
<1>1. /\ s \in Seq(Versions) /\ n \in Nat /\ n > 0 /\ DOMAIN s = 1..n
      /\ \A i \in 1..n : s[i] \in Versions
  BY LenProperties, ElementOfSeq DEF Falling
<1>2. CASE y = Nil
  <2>1. step[s] = s
    BY <1>1, <1>2 DEF AddsOlder
  <2> QED
    BY <1>2, <2>1
<1>3. CASE y # Nil
  <2>0. s[n] \in Versions /\ n \in 1..n
    BY <1>1
  <2>1. y \in Versions /\ stamp[y] < stamp[s[n]]
    BY <1>3, <2>0 DEF Ordered
  <2>2. \A l \in Versions : stamp[l] \in Nat
    BY DEF Ordered
  <2> HIDE DEF y
  <2>3. \A i \in 1..n : stamp[y] < stamp[s[i]]
    <3> SUFFICES ASSUME NEW i \in 1..n PROVE stamp[y] < stamp[s[i]]
      OBVIOUS
    <3>1. CASE i = n
      BY <2>1, <3>1
    <3>2. CASE i # n
      <4>1. i < n
        <5> HIDE DEF n
        <5> QED
          BY <1>1, <3>2
      <4>2. stamp[s[n]] < stamp[s[i]]
        BY <2>0, <4>1 DEF Falling
      <4>3. stamp[s[i]] \in Nat /\ stamp[s[n]] \in Nat /\ stamp[y] \in Nat
        BY <1>1, <2>0, <2>1, <2>2
      <4> QED
        BY <2>1, <4>2, <4>3
    <3> QED
      BY <3>1, <3>2
  <2>4. \A i \in DOMAIN s : s[i] # y
    BY <1>1, <2>1, <2>2, <2>3
  <2>5. step[s] = t
    BY <1>1, <1>3, <2>4 DEF AddsOlder, y
  <2>6. /\ t \in Seq(Versions) /\ Len(t) = n + 1 /\ t[n + 1] = y
        /\ \A i \in 1..n : t[i] = s[i]
    BY <1>1, <2>1, AppendProperties
  <2> HIDE DEF t
  <2>7. Falling(t, stamp)
    <3> SUFFICES ASSUME NEW i \in 1..(n + 1), NEW j \in 1..(n + 1), i < j
                 PROVE  stamp[t[j]] < stamp[t[i]]
      BY <1>1, <2>6 DEF Falling
    <3>1. i \in 1..n /\ t[i] = s[i]
      BY <1>1, <2>6
    <3>2. CASE j = n + 1
      BY <2>3, <2>6, <3>1, <3>2
    <3>3. CASE j # n + 1
      <4>1. j \in 1..n /\ t[j] = s[j]
        BY <1>1, <2>6, <3>3
      <4> QED
        BY <3>1, <4>1 DEF Falling
    <3> QED
      BY <3>2, <3>3
  <2>8. k \in 1..n /\ k \in 1..(n + 1) /\ 1 \in 1..n
    BY <1>1 DEF IsLine
  <2>9. IsLine(t, k, newer, older)
    <3>1. ASSUME NEW i \in 1..(k - 1)
          PROVE  newer[t[i + 1]] = t[i]
      <4>1. i \in 1..n /\ i + 1 \in 1..n
        BY <1>1, <2>8
      <4> QED
        BY <2>6, <4>1 DEF IsLine
    <3>2. ASSUME NEW i \in k..((n + 1) - 1)
          PROVE  older[t[i]] = t[i + 1]
      <4>1. i \in 1..n
        BY <1>1, <2>8
      <4>2. CASE i = n
        BY <2>6, <4>1, <4>2 DEF y
      <4>3. CASE i # n
        <5>1. i \in k..(n - 1) /\ i + 1 \in 1..n
          <6> HIDE DEF n
          <6> QED
            BY <1>1, <2>8, <4>1, <4>3
        <5> QED
          BY <2>6, <4>1, <5>1 DEF IsLine
      <4> QED
        BY <4>2, <4>3
    <3> QED
      BY <2>6, <2>8, <3>1, <3>2 DEF IsLine
  <2> QED
    BY <1>3, <2>5, <2>6, <2>7, <2>8, <2>9 DEF y
<1> QED
  BY <1>2, <1>3

(* No line is longer than there are licenses, so as many passes are enough. *)
LEMMA NewerLoop ==
    ASSUME IsFiniteSet(Versions),
           NEW newer, NEW older, NEW stamp, Ordered(newer, older, stamp),
           NEW step, AddsNewer(step, newer), NEW l \in Versions,
           NEW f, IsLoop(f, Cardinality(Versions), <<l>>, step)
    PROVE  LET s == f[Cardinality(Versions)] IN
           /\ Falling(s, stamp) /\ IsLine(s, Len(s), newer, older)
           /\ s[Len(s)] = l /\ newer[s[1]] = Nil
<1> DEFINE n == Cardinality(Versions)
           Reached(s, i) ==
              /\ Falling(s, stamp) /\ IsLine(s, Len(s), newer, older)
              /\ s[Len(s)] = l
              /\ newer[s[1]] = Nil \/ Len(s) > i
           Good == {i \in 0..n : Reached(f[i], i)}
<1>1. n \in Nat
  BY FS_CardinalityType
<1>2. 0 \in Good
  <2>1. /\ <<l>> \in Seq(Versions) /\ Len(<<l>>) = 1 /\ <<l>>[1] = l
        /\ \A i, j \in 1..1 : ~(i < j)
    OBVIOUS
  <2>2. 1..(1 - 1) = {} /\ 1 \in 1..1
    OBVIOUS
  <2> DEFINE s == <<l>>
  <2>3. /\ s \in Seq(Versions) /\ Len(s) = 1 /\ s[1] = l
    BY <2>1
  <2>4. f[0] = s
    BY <1>1 DEF IsLoop
  <2> HIDE DEF s, n
  <2>5. Falling(s, stamp)
    BY <2>1, <2>3 DEF Falling
  <2>6. IsLine(s, Len(s), newer, older)
    BY <2>2, <2>3 DEF IsLine
  <2> QED
    BY <1>1, <2>3, <2>4, <2>5, <2>6
<1>3. ASSUME NEW i \in 0..n, i # n, i \in Good
      PROVE  i + 1 \in Good
  <2> DEFINE s == f[i]
             t == step[s]
  <2>1. i + 1 \in 0..n /\ (i + 1) - 1 = i /\ i + 1 # 0
    BY <1>1, <1>3
  <2>2. f[i + 1] = t
    BY <2>1 DEF IsLoop
  <2>3. Reached(s, i)
    BY <1>3
  <2> HIDE DEF t, s
  <2>4. /\ Falling(t, stamp) /\ IsLine(t, Len(t), newer, older)
        /\ t[Len(t)] = s[Len(s)]
        /\ IF newer[s[1]] = Nil THEN t = s ELSE Len(t) = Len(s) + 1
    BY <2>3, NewerStep DEF t
  <2>5. newer[t[1]] = Nil \/ Len(t) > i + 1
    <3>1. Len(s) \in Nat
      BY <2>3, LenProperties DEF Falling
    <3> QED
      BY <2>3, <2>4, <3>1
  <2>6. Reached(t, i + 1)
    BY <2>3, <2>4, <2>5
  <2> HIDE DEF Reached, n
  <2> QED
    BY <2>1, <2>2, <2>6
<1>4. \A i \in 0..n : i \in Good
  <2> HIDE DEF Good, n
  <2> QED
    BY <1>1, <1>2, <1>3, Upwards
<1> DEFINE s == f[n]
<1>5. Reached(s, n)
  <2> HIDE DEF Reached, n
  <2> QED
    BY <1>1, <1>4
<1>6. Len(s) \in Nat /\ Len(s) <= n
  <2> HIDE DEF s
  <2> QED
    BY <1>5, FallingIsShort DEF Ordered
<1>7. newer[s[1]] = Nil
  <2> HIDE DEF s, n
  <2> QED
    BY <1>1, <1>5, <1>6
<1> HIDE DEF n, s
<1> QED
  BY <1>5, <1>7 DEF n, s

LEMMA OlderLoop ==
    ASSUME IsFiniteSet(Versions),
           NEW newer, NEW older, NEW stamp, Ordered(newer, older, stamp),
           NEW step, AddsOlder(step, older), NEW start, NEW k,
           Falling(start, stamp), IsLine(start, k, newer, older),
           NEW f, IsLoop(f, Cardinality(Versions), start, step)
    PROVE  LET s == f[Cardinality(Versions)] IN
           /\ IsLine(s, k, newer, older)
           /\ s[k] = start[k] /\ s[1] = start[1]
           /\ older[s[Len(s)]] = Nil
<1> DEFINE n == Cardinality(Versions)
           Reached(s, i) ==
              /\ Falling(s, stamp) /\ IsLine(s, k, newer, older)
              /\ s[k] = start[k] /\ s[1] = start[1]
              /\ older[s[Len(s)]] = Nil \/ Len(s) > i
           Good == {i \in 0..n : Reached(f[i], i)}
<1>1. n \in Nat
  BY FS_CardinalityType
<1>2. 0 \in Good
  <2>1. f[0] = start
    BY <1>1 DEF IsLoop
  <2>2. Len(start) > 0
    BY DEF Falling
  <2> HIDE DEF n
  <2> QED
    BY <1>1, <2>1, <2>2
<1>3. ASSUME NEW i \in 0..n, i # n, i \in Good
      PROVE  i + 1 \in Good
  <2> DEFINE s == f[i]
             t == step[s]
  <2>1. i + 1 \in 0..n /\ (i + 1) - 1 = i /\ i + 1 # 0
    BY <1>1, <1>3
  <2>2. f[i + 1] = t
    BY <2>1 DEF IsLoop
  <2>3. Reached(s, i)
    BY <1>3
  <2> HIDE DEF t, s
  <2>4. /\ Falling(t, stamp) /\ IsLine(t, k, newer, older)
        /\ t[k] = s[k] /\ t[1] = s[1]
        /\ IF older[s[Len(s)]] = Nil THEN t = s ELSE Len(t) = Len(s) + 1
    BY <2>3, OlderStep DEF t
  <2>5. older[t[Len(t)]] = Nil \/ Len(t) > i + 1
    <3>1. Len(s) \in Nat
      BY <2>3, LenProperties DEF Falling
    <3> QED
      BY <2>3, <2>4, <3>1
  <2>6. Reached(t, i + 1)
    BY <2>3, <2>4, <2>5
  <2> HIDE DEF Reached, n
  <2> QED
    BY <2>1, <2>2, <2>6
<1>4. \A i \in 0..n : i \in Good
  <2> HIDE DEF Good, n
  <2> QED
    BY <1>1, <1>2, <1>3, Upwards
<1> DEFINE s == f[n]
<1>5. Reached(s, n)
  <2> HIDE DEF Reached, n
  <2> QED
    BY <1>1, <1>4
<1>6. Len(s) \in Nat /\ Len(s) <= n
  <2> HIDE DEF s
  <2> QED
    BY <1>5, FallingIsShort DEF Ordered
<1>7. older[s[Len(s)]] = Nil
  <2> HIDE DEF s, n
  <2> QED
    BY <1>1, <1>5, <1>6
<1> HIDE DEF n, s
<1> QED
  BY <1>5, <1>7 DEF n, s

-----------------------------------------------------------------------------
(* There is one line through a version *)

(* What lies below place k of s lies below place j of t. *)
Below(s, k, t, j) ==
    /\ Len(s) - k <= Len(t) - j
    /\ \A i \in 0..(Len(s) - k) : s[k + i] = t[j + i]

LEMMA SameBelow ==
    ASSUME NEW newer, NEW older, NEW s, NEW t, NEW k, NEW j,
           IsLine(s, k, newer, older), IsLine(t, j, newer, older),
           s[k] = t[j], older[t[Len(t)]] = Nil
    PROVE  Below(s, k, t, j)
<1> DEFINE n == Len(s) - k
           m == Len(t) - j
           Good == {i \in 0..n : i <= m /\ s[k + i] = t[j + i]}
<1>1. /\ Len(s) \in Nat /\ Len(t) \in Nat
      /\ \A i \in 1..Len(s) : s[i] \in Versions
  BY LenProperties, ElementOfSeq DEF IsLine
<1>2. k \in 1..Len(s) /\ j \in 1..Len(t) /\ n \in Nat /\ m \in Nat
  BY <1>1 DEF IsLine
<1>3. 0 \in Good
  BY <1>1, <1>2
<1>4. ASSUME NEW i \in 0..n, i # n, i \in Good
      PROVE  i + 1 \in Good
  <2>1. /\ k + i \in k..(Len(s) - 1) /\ k + i \in 1..Len(s)
        /\ (k + i) + 1 \in 1..Len(s) /\ (k + i) + 1 = k + (i + 1)
    BY <1>1, <1>2, <1>4
  <2>2. older[s[k + i]] = s[k + (i + 1)] /\ s[k + (i + 1)] \in Versions
    BY <1>1, <2>1 DEF IsLine
  <2>3. s[k + i] = t[j + i] /\ i <= m
    BY <1>4
  <2>4. j + i # Len(t)
    BY <2>2, <2>3, VersionsAssumption
  <2>5. j + i \in j..(Len(t) - 1) /\ (j + i) + 1 = j + (i + 1) /\ i + 1 <= m
    BY <1>1, <1>2, <2>3, <2>4
  <2>6. older[t[j + i]] = t[j + (i + 1)]
    BY <2>5 DEF IsLine
  <2> QED
    BY <1>2, <1>4, <2>2, <2>3, <2>5, <2>6
<1>5. \A i \in 0..n : i \in Good
  <2> HIDE DEF Good, n
  <2> QED
    BY <1>2, <1>3, <1>4, Upwards
<1>6. n \in 0..n
  BY <1>2
<1> QED
  BY <1>5, <1>6 DEF Below

LEMMA SameAbove ==
    ASSUME NEW newer, NEW older, NEW s, NEW t, NEW k, NEW j,
           IsLine(s, k, newer, older), IsLine(t, j, newer, older),
           s[k] = t[j], newer[t[1]] = Nil
    PROVE  k <= j /\ \A i \in 0..(k - 1) : s[k - i] = t[j - i]
<1> DEFINE n == k - 1
           m == j - 1
           Good == {i \in 0..n : i <= m /\ s[k - i] = t[j - i]}
<1>1. /\ Len(s) \in Nat /\ Len(t) \in Nat
      /\ \A i \in 1..Len(s) : s[i] \in Versions
  BY LenProperties, ElementOfSeq DEF IsLine
<1>2. k \in 1..Len(s) /\ j \in 1..Len(t) /\ n \in Nat /\ m \in Nat
  BY <1>1 DEF IsLine
<1>3. 0 \in Good
  BY <1>1, <1>2
<1>4. ASSUME NEW i \in 0..n, i # n, i \in Good
      PROVE  i + 1 \in Good
  <2>1. /\ k - (i + 1) \in 1..(k - 1) /\ k - (i + 1) \in 1..Len(s)
        /\ (k - (i + 1)) + 1 = k - i
    BY <1>1, <1>2, <1>4
  <2>2. newer[s[k - i]] = s[k - (i + 1)] /\ s[k - (i + 1)] \in Versions
    BY <1>1, <2>1 DEF IsLine
  <2>3. s[k - i] = t[j - i] /\ i <= m
    BY <1>4
  <2>4. j - i # 1
    BY <2>2, <2>3, VersionsAssumption
  <2>5. j - (i + 1) \in 1..(j - 1) /\ (j - (i + 1)) + 1 = j - i /\ i + 1 <= m
    BY <1>1, <1>2, <2>3, <2>4
  <2>6. newer[t[j - i]] = t[j - (i + 1)]
    BY <2>5 DEF IsLine
  <2> QED
    BY <1>2, <1>4, <2>2, <2>3, <2>5, <2>6
<1>5. \A i \in 0..n : i \in Good
  <2> HIDE DEF Good, n
  <2> QED
    BY <1>2, <1>3, <1>4, Upwards
<1>6. n \in 0..n
  BY <1>2
<1> QED
  BY <1>2, <1>5, <1>6

LEMMA OneLine ==
    ASSUME NEW newer, NEW older, NEW l, NEW s, NEW t,
           WholeLine(s, l, newer, older), WholeLine(t, l, newer, older)
    PROVE  s = t
<1>1. PICK k \in 1..Len(s) : IsLine(s, k, newer, older) /\ s[k] = l
  BY DEF WholeLine
<1>2. PICK j \in 1..Len(t) : IsLine(t, j, newer, older) /\ t[j] = l
  BY DEF WholeLine
<1>3. /\ s \in Seq(Versions) /\ t \in Seq(Versions)
      /\ Len(s) \in Nat /\ Len(t) \in Nat
  BY <1>1, <1>2, LenProperties DEF IsLine
<1>4. /\ s[k] = t[j] /\ newer[s[1]] = Nil /\ newer[t[1]] = Nil
      /\ older[s[Len(s)]] = Nil /\ older[t[Len(t)]] = Nil
  BY <1>1, <1>2 DEF WholeLine
<1>5. Below(s, k, t, j) /\ Below(t, j, s, k)
  BY <1>1, <1>2, <1>4, SameBelow
<1>6. /\ k <= j /\ \A i \in 0..(k - 1) : s[k - i] = t[j - i]
      /\ j <= k
  BY <1>1, <1>2, <1>4, SameAbove
<1>7. /\ Len(s) - k = Len(t) - j
      /\ \A i \in 0..(Len(s) - k) : s[k + i] = t[j + i]
  BY <1>1, <1>2, <1>3, <1>5 DEF Below
<1>8. k = j /\ Len(s) = Len(t)
  BY <1>1, <1>2, <1>3, <1>6, <1>7
<1>9. ASSUME NEW i \in 1..Len(s)
      PROVE  s[i] = t[i]
  <2>1. CASE i <= k
    <3>1. k - i \in 0..(k - 1) /\ k - (k - i) = i
      BY <1>1, <1>3, <2>1
    <3> QED
      BY <1>6, <1>8, <3>1
  <2>2. CASE i > k
    <3>1. i - k \in 0..(Len(s) - k) /\ k + (i - k) = i
      BY <1>1, <1>3, <2>2
    <3> QED
      BY <1>7, <1>8, <3>1
  <2> QED
    BY <1>1, <1>3, <2>1, <2>2
<1> QED
  BY <1>3, <1>8, <1>9, SeqEqual

-----------------------------------------------------------------------------
(* The state of the history *)

(* The writes of LicenseHistory are those of LicenseLineage. *)
LEMMA AncestryInitInv == Ancestry!Init => Ancestry!Inv
  BY VersionsAssumption
     DEF Ancestry!Init, Ancestry!Inv, Ancestry!TypeOK, Ancestry!ArchivedIffRenewed,
         Ancestry!OnlyLicensesRenew

LEMMA AncestryRegisterInv ==
    ASSUME Ancestry!Inv, NEW new \in Versions, Ancestry!Register(new)
    PROVE  Ancestry!Inv'
  BY DEF Ancestry!Inv, Ancestry!TypeOK, Ancestry!ArchivedIffRenewed,
         Ancestry!OnlyLicensesRenew, Ancestry!Register

LEMMA AncestryRenewInv ==
    ASSUME Ancestry!Inv, NEW old \in Versions, NEW new \in Versions,
           Ancestry!Renew(old, new)
    PROVE  Ancestry!Inv'
<1> USE VersionsAssumption DEF Ancestry!Inv, Ancestry!TypeOK, Ancestry!Renew
<1>1. Ancestry!TypeOK'
  OBVIOUS
<1>2. Ancestry!OnlyLicensesRenew'
  BY DEF Ancestry!OnlyLicensesRenew
<1>3. Ancestry!ArchivedIffRenewed'
  <2> SUFFICES ASSUME NEW l \in Versions
               PROVE (state[l] = "ARCHIVED" <=>
                        \E m \in Versions : predecessor[m] = l)'
    BY DEF Ancestry!ArchivedIffRenewed
  <2>1. CASE l = old
    BY <2>1
  <2>2. CASE l # old
    <3>1. predecessor[new] = Nil
      BY DEF Ancestry!OnlyLicensesRenew
    <3>2. state'[l] = "ARCHIVED" <=> state[l] = "ARCHIVED"
      BY <2>2
    <3>3. ASSUME NEW m \in Versions
          PROVE predecessor'[m] = l <=> predecessor[m] = l
      BY <2>2, <3>1
    <3> QED
      BY <3>2, <3>3 DEF Ancestry!ArchivedIffRenewed
  <2> QED
    BY <2>1, <2>2
<1> QED
  BY <1>1, <1>2, <1>3

Existing == {l \in Versions : Known(l)}

(* A stamp names a version; a renewal is of the same customer and later. *)
StampInv ==
    /\ created \in [Versions -> Nat]
    /\ \A l \in Existing : created[l] <= Cardinality(Existing)
    /\ \A l, m \in Existing : created[l] = created[m] => l = m

RenewalInv ==
    /\ customer \in [Versions -> Customers \cup {Nil}]
    /\ \A m \in Versions : predecessor[m] # Nil =>
          /\ customer[m] = customer[predecessor[m]]
          /\ created[predecessor[m]] < created[m]

(* What the open request loaded: a version is never taken off the archive. *)
ReadingInv ==
    reading # NotReading =>
        /\ reading.id \in Existing
        /\ reading = [id |-> reading.id, status |-> reading.status]
        /\ reading.status \in {"CURRENT", "ARCHIVED"}
        /\ reading.status = "ARCHIVED" => state[reading.id] = "ARCHIVED"

HistoryInv ==
    /\ Ancestry!Inv
    /\ StampInv
    /\ RenewalInv
    /\ ReadingInv

LEMMA HistoryInitInv == ASSUME IsFiniteSet(Versions), HistoryInit PROVE HistoryInv
<1>1. Ancestry!Inv
  <2>1. Ancestry!Init
    BY DEF HistoryInit, Ancestry!Init, Ancestry!Init
  <2> QED
    BY <2>1, AncestryInitInv
<1>2. Existing = {}
  BY DEF Existing, Known, HistoryInit, Ancestry!Init
<1>3. StampInv
  BY <1>2 DEF StampInv, HistoryInit
<1>4. RenewalInv
  BY DEF RenewalInv, HistoryInit, Ancestry!Init
<1>5. ReadingInv
  BY DEF ReadingInv, HistoryInit
<1> QED
  BY <1>1, <1>3, <1>4, <1>5 DEF HistoryInv

(* What a registration and a renewal have in common. *)
Adds(new) ==
    /\ new \in Versions /\ ~Known(new)
    /\ Existing' = Existing \cup {new}
    /\ created' = [created EXCEPT ![new] = 1 + Cardinality(Existing)]
    /\ reading' = reading
    /\ \A l \in Versions : state[l] = "ARCHIVED" => state'[l] = "ARCHIVED"

LEMMA AddedStamp ==
    ASSUME IsFiniteSet(Versions), StampInv, ReadingInv, NEW new, Adds(new)
    PROVE  /\ StampInv' /\ ReadingInv'
           /\ \A l \in Existing : created'[l] = created[l]
           /\ \A l \in Existing : created[l] < created'[new]
<1>1. IsFiniteSet(Existing) /\ Existing \in SUBSET Versions
  BY FS_Subset DEF Existing
<1>2. Cardinality(Existing) \in Nat /\ new \notin Existing
  BY <1>1, FS_CardinalityType DEF Adds, Existing
<1>3. Cardinality(Existing') = Cardinality(Existing) + 1
  BY <1>1, <1>2, FS_AddElement DEF Adds
<1>4. /\ created' \in [Versions -> Nat]
      /\ created'[new] = 1 + Cardinality(Existing)
      /\ \A l \in Versions : l # new => created'[l] = created[l]
  BY <1>2 DEF StampInv, Adds
<1>5. /\ Existing' = Existing \cup {new}
      /\ \A l \in Existing : created'[l] = created[l] /\ created[l] \in Nat
  BY <1>1, <1>2, <1>4 DEF Adds, StampInv
<1>6. \A l \in Existing : created[l] < created'[new]
  BY <1>2, <1>4, <1>5 DEF StampInv
<1>7. StampInv'
  <2>1. ASSUME NEW l \in Existing' PROVE created'[l] <= Cardinality(Existing')
    BY <1>2, <1>3, <1>4, <1>5 DEF StampInv
  <2>2. ASSUME NEW l \in Existing', NEW m \in Existing', created'[l] = created'[m]
        PROVE  l = m
    BY <1>2, <1>4, <1>5, <1>6, <2>2 DEF StampInv
  <2> QED
    BY <1>4, <2>1, <2>2 DEF StampInv
<1>8. ReadingInv'
  BY <1>1, <1>5 DEF ReadingInv, Adds, NotReading
<1> QED
  BY <1>5, <1>6, <1>7, <1>8

LEMMA RegisterAdds ==
    ASSUME HistoryInv, NEW new \in Versions, NEW c \in Customers,
           Register(new, c)
    PROVE  Adds(new) /\ Ancestry!Register(new)
<1>1. Ancestry!Register(new)
  BY DEF Register, Ancestry!Register, Ancestry!Register
<1>2. Ancestry!TypeOK
  BY DEF HistoryInv, Ancestry!Inv
<1>3. /\ state' = [state EXCEPT ![new] = "CURRENT"]
      /\ state \in [Versions -> {"ABSENT", "CURRENT", "ARCHIVED"}]
      /\ state[new] = "ABSENT"
  BY <1>1, <1>2 DEF Ancestry!Register, Ancestry!TypeOK
<1>4. Existing' = Existing \cup {new} /\ ~Known(new)
  BY <1>3 DEF Existing, Known
<1>5. Existing = {l \in Versions : Known(l)}
  BY DEF Existing, Known, Known
<1>6. created' = [created EXCEPT ![new] = 1 + Cardinality(Existing)]
  BY <1>5 DEF Register, Stamp
<1> QED
  BY <1>1, <1>3, <1>4, <1>6 DEF Adds, Register

LEMMA RenewAdds ==
    ASSUME HistoryInv, NEW old \in Versions, NEW new \in Versions,
           Renew(old, new)
    PROVE  Adds(new) /\ Ancestry!Renew(old, new) /\ old \in Existing
<1>1. Ancestry!Renew(old, new)
  BY DEF Renew, Ancestry!Renew, Ancestry!Renew
<1>2. Ancestry!TypeOK
  BY DEF HistoryInv, Ancestry!Inv
<1>3. /\ state' = [state EXCEPT ![new] = "CURRENT", ![old] = "ARCHIVED"]
      /\ state \in [Versions -> {"ABSENT", "CURRENT", "ARCHIVED"}]
      /\ state[new] = "ABSENT" /\ state[old] # "ABSENT"
  BY <1>1, <1>2 DEF Ancestry!Renew, Ancestry!TypeOK
<1>4. Existing' = Existing \cup {new} /\ ~Known(new) /\ old \in Existing
  BY <1>3 DEF Existing, Known
<1>5. Existing = {l \in Versions : Known(l)}
  BY DEF Existing, Known, Known
<1>6. created' = [created EXCEPT ![new] = 1 + Cardinality(Existing)]
  BY <1>5 DEF Renew, Stamp
<1>7. \A l \in Versions : state[l] = "ARCHIVED" => state'[l] = "ARCHIVED"
  BY <1>3
<1> QED
  BY <1>1, <1>4, <1>6, <1>7 DEF Adds, Renew

(* A renewed version and its renewal both exist. *)
LEMMA RenewedExist ==
    ASSUME Ancestry!Inv, NEW m \in Versions, predecessor[m] # Nil
    PROVE  m \in Existing /\ predecessor[m] \in Existing
  BY DEF Ancestry!Inv, Ancestry!TypeOK, Ancestry!ArchivedIffRenewed,
         Ancestry!OnlyLicensesRenew, Existing, Known

LEMMA RegisterInv ==
    ASSUME IsFiniteSet(Versions), HistoryInv, NEW new \in Versions,
           NEW c \in Customers, Register(new, c)
    PROVE  HistoryInv'
<1>1. /\ Ancestry!Inv /\ StampInv /\ RenewalInv /\ ReadingInv
      /\ Adds(new) /\ Ancestry!Register(new)
  BY RegisterAdds DEF HistoryInv
<1>2. Ancestry!Inv'
  BY <1>1, AncestryRegisterInv
<1>3. /\ StampInv' /\ ReadingInv'
      /\ \A l \in Existing : created'[l] = created[l]
  BY <1>1, AddedStamp
<1>4. RenewalInv'
  <2>1. /\ customer' = [customer EXCEPT ![new] = c]
        /\ predecessor' = predecessor
        /\ customer \in [Versions -> Customers \cup {Nil}]
    BY <1>1 DEF Register, Ancestry!Register, RenewalInv
  <2>2. new \notin Existing
    BY <1>1 DEF Adds, Existing
  <2>3. ASSUME NEW m \in Versions, predecessor'[m] # Nil
        PROVE  /\ customer'[m] = customer'[predecessor'[m]]
               /\ created'[predecessor'[m]] < created'[m]
    <3>1. m \in Existing /\ predecessor[m] \in Existing
      BY <1>1, <2>1, <2>3, RenewedExist
    <3>2. m # new /\ predecessor[m] # new /\ predecessor[m] \in Versions
      BY <2>2, <3>1 DEF Existing
    <3> QED
      BY <1>1, <1>3, <2>1, <2>3, <3>1, <3>2 DEF RenewalInv
  <2> QED
    BY <2>1, <2>3 DEF RenewalInv
<1> QED
  BY <1>2, <1>3, <1>4 DEF HistoryInv

LEMMA RenewInv ==
    ASSUME IsFiniteSet(Versions), HistoryInv, NEW old \in Versions,
           NEW new \in Versions, Renew(old, new)
    PROVE  HistoryInv'
<1>1. /\ Ancestry!Inv /\ StampInv /\ RenewalInv /\ ReadingInv
      /\ Adds(new) /\ Ancestry!Renew(old, new) /\ old \in Existing
  BY RenewAdds DEF HistoryInv
<1>2. Ancestry!Inv'
  BY <1>1, AncestryRenewInv
<1>3. /\ StampInv' /\ ReadingInv'
      /\ \A l \in Existing : created'[l] = created[l]
      /\ \A l \in Existing : created[l] < created'[new]
  BY <1>1, AddedStamp
<1>4. RenewalInv'
  <2>1. /\ customer' = [customer EXCEPT ![new] = customer[old]]
        /\ predecessor' = [predecessor EXCEPT ![new] = old]
        /\ predecessor \in [Versions -> Versions \cup {Nil}]
        /\ customer \in [Versions -> Customers \cup {Nil}]
    BY <1>1 DEF Renew, Heir, Ancestry!Renew, RenewalInv,
                Ancestry!Inv, Ancestry!TypeOK
  <2>2. new \notin Existing
    BY <1>1 DEF Adds, Existing
  <2>3. ASSUME NEW m \in Versions, predecessor'[m] # Nil
        PROVE  /\ customer'[m] = customer'[predecessor'[m]]
               /\ created'[predecessor'[m]] < created'[m]
    <3>1. CASE m = new
      <4>1. predecessor'[m] = old /\ old # new
        BY <1>1, <2>1, <2>2, <3>1
      <4> QED
        BY <1>1, <1>3, <2>1, <3>1, <4>1
    <3>2. CASE m # new
      <4>1. predecessor'[m] = predecessor[m]
        BY <2>1, <3>2
      <4>2. m \in Existing /\ predecessor[m] \in Existing
        BY <1>1, <2>3, <4>1, RenewedExist
      <4>3. predecessor[m] # new /\ predecessor[m] \in Versions
        BY <2>2, <4>2 DEF Existing
      <4> QED
        BY <1>1, <1>3, <2>1, <2>3, <3>2, <4>1, <4>2, <4>3 DEF RenewalInv
    <3> QED
      BY <3>1, <3>2
  <2>4. customer' \in [Versions -> Customers \cup {Nil}]
    BY <2>1
  <2> QED
    BY <2>3, <2>4 DEF RenewalInv
<1> QED
  BY <1>2, <1>3, <1>4 DEF HistoryInv

LEMMA HistoryStep ==
    ASSUME IsFiniteSet(Versions), HistoryInv, [HistoryNext]_(historyVars)
    PROVE  HistoryInv'
<1>1. ASSUME UNCHANGED <<state, predecessor, customer, created>>
      PROVE  /\ Ancestry!Inv' /\ StampInv' /\ RenewalInv'
             /\ Existing' = Existing
  <2>1. Existing' = Existing
    BY <1>1 DEF Existing, Known
  <2>2. Ancestry!Inv'
    BY <1>1 DEF HistoryInv, Ancestry!Inv, Ancestry!TypeOK,
       Ancestry!ArchivedIffRenewed, Ancestry!OnlyLicensesRenew
  <2> QED
    BY <1>1, <2>1, <2>2 DEF HistoryInv, StampInv, RenewalInv
<1>2. ASSUME NEW l \in Versions, ReadRequested(l)
      PROVE  HistoryInv'
  <2>1. UNCHANGED <<state, predecessor, customer, created>>
    BY <1>2 DEF ReadRequested, written
  <2>2. reading' = [id |-> l, status |-> state[l]] /\ l \in Existing
    BY <1>2 DEF ReadRequested, Known, Existing, Known
  <2>3. state[l] \in {"CURRENT", "ARCHIVED"}
    BY <2>2 DEF HistoryInv, Ancestry!Inv, Ancestry!TypeOK, Existing, Known
  <2>4. ReadingInv'
    BY <1>1, <2>1, <2>2, <2>3 DEF ReadingInv
  <2> QED
    BY <1>1, <2>1, <2>4 DEF HistoryInv
<1>3. ASSUME AnswerHistory
      PROVE  HistoryInv'
  <2>1. UNCHANGED <<state, predecessor, customer, created>>
    BY <1>3 DEF AnswerHistory, written
  <2>2. ReadingInv'
    BY <1>3 DEF ReadingInv, AnswerHistory, NotReading
  <2> QED
    BY <1>1, <2>1, <2>2 DEF HistoryInv
<1>4. ASSUME UNCHANGED historyVars
      PROVE  HistoryInv'
  <2>1. UNCHANGED <<state, predecessor, customer, created, reading>>
    BY <1>4 DEF historyVars
  <2>2. ReadingInv'
    BY <1>1, <2>1 DEF ReadingInv, HistoryInv, NotReading
  <2> QED
    BY <1>1, <2>1, <2>2 DEF HistoryInv
<1> QED
  BY <1>2, <1>3, <1>4, RegisterInv, RenewInv DEF HistoryNext

-----------------------------------------------------------------------------
(* The walk *)

Renewed(l) == \E m \in Versions : predecessor[m] = l

(* m is the oldest renewal of l. *)
OldestRenewal(m, l) ==
    /\ m \in Versions /\ predecessor[m] = l
    /\ \A o \in Versions : predecessor[o] = l => created[m] <= created[o]

LEMMA RenewalsAre ==
    ASSUME HistoryInv, NEW l \in Versions
    PROVE  RenewalsListed(l) = {m \in Versions : predecessor[m] = l}
<1>1. Ancestry!Inv /\ RenewalInv /\ l # Nil
  BY VersionsAssumption DEF HistoryInv
<1>2. ASSUME NEW m \in Versions, predecessor[m] = l
      PROVE  Known(m) /\ customer[m] = customer[l]
  <2>1. m \in Existing
    BY <1>1, <1>2, RenewedExist
  <2> QED
    BY <1>1, <1>2, <2>1 DEF Existing, Known, Known, RenewalInv
<1> QED
  BY <1>2 DEF RenewalsListed, LicensesOf

LEMMA LeastStamp ==
    ASSUME NEW S, S # {}, NEW stamp, \A m \in S : stamp[m] \in Nat
    PROVE  \E m \in S : \A o \in S : stamp[m] <= stamp[o]
<1> DEFINE stamps == {stamp[m] : m \in S}
<1>1. PICK u \in stamps : \A v \in stamps : <<v, u>> \notin OpToRel(<, Nat)
  <2>1. stamps # {} /\ stamps \subseteq Nat
    OBVIOUS
  <2> HIDE DEF stamps
  <2> QED
    BY <2>1, WFMin, NatLessThanWellFounded
<1>2. PICK m \in S : stamp[m] = u
  OBVIOUS
<1>3. u \in Nat /\ stamps \subseteq Nat
  OBVIOUS
<1>4. ASSUME NEW v \in stamps PROVE u <= v
  <2>1. v \in Nat /\ ~(v < u)
    <3> HIDE DEF stamps
    <3> QED
      BY <1>1, <1>3 DEF OpToRel
  <2> QED
    BY <1>3, <2>1
<1>5. \A o \in S : stamp[o] \in stamps
  OBVIOUS
<1> HIDE DEF stamps
<1> QED
  BY <1>2, <1>4, <1>5

LEMMA RenewalIsOldest ==
    ASSUME HistoryInv
    PROVE  /\ Renewal \in [Versions -> Versions \cup {Nil}]
           /\ \A l \in Versions :
                 IF Renewed(l) THEN OldestRenewal(Renewal[l], l)
                 ELSE Renewal[l] = Nil
<1>1. ASSUME NEW l \in Versions
      PROVE  IF Renewed(l) THEN OldestRenewal(Renewal[l], l)
             ELSE Renewal[l] = Nil
  <2> DEFINE S == {m \in Versions : predecessor[m] = l}
  <2>1. RenewalsListed(l) = S
    BY RenewalsAre
  <2>2. Renewal[l] = IF S = {} THEN Nil ELSE Oldest(S)
    <3> HIDE DEF S
    <3> QED
      BY <2>1 DEF Renewal
  <2>3. CASE S = {}
    BY <2>2, <2>3 DEF Renewed
  <2>4. CASE S # {}
    <3>1. \A m \in S : created[m] \in Nat
      BY DEF HistoryInv, StampInv
    <3>2. \E m \in S : \A o \in S : created[m] <= created[o]
      <4> HIDE DEF S
      <4> QED
        BY <2>4, <3>1, LeastStamp
    <3>3. Oldest(S) \in S /\ \A o \in S : created[Oldest(S)] <= created[o]
      <4> HIDE DEF S
      <4> QED
        BY <3>2 DEF Oldest
    <3> QED
      BY <2>2, <2>4, <3>3 DEF Renewed, OldestRenewal
  <2> QED
    BY <2>3, <2>4
<1>2. \A l \in Versions : Renewal[l] \in Versions \cup {Nil}
  BY <1>1 DEF OldestRenewal
<1>3. Renewal = [l \in Versions |-> Renewal[l]]
  BY DEF Renewal
<1> QED
  BY <1>1, <1>2, <1>3

LEMMA PreviousIsPrevious == HistoryInv => Previous = predecessor
<1> SUFFICES ASSUME HistoryInv PROVE Previous = predecessor
  OBVIOUS
<1>1. /\ Ancestry!Inv /\ RenewalInv
      /\ predecessor \in [Versions -> Versions \cup {Nil}]
  BY DEF HistoryInv, Ancestry!Inv, Ancestry!TypeOK
<1>2. ASSUME NEW l \in Versions
      PROVE  predecessor[l] = IF predecessor[l] \in LicensesOf(customer[l])
                           THEN predecessor[l] ELSE Nil
  <2>1. CASE predecessor[l] = Nil
    BY <2>1
  <2>2. CASE predecessor[l] # Nil
    <3>1. predecessor[l] \in Existing
      BY <1>1, <2>2, RenewedExist
    <3>2. predecessor[l] \in LicensesOf(customer[l])
      BY <1>1, <2>2, <3>1
         DEF RenewalInv, Existing, Known, LicensesOf, Known
    <3> QED
      BY <3>2
  <2> QED
    BY <2>1, <2>2
<1>3. Previous =
         [l \in Versions |->
            IF predecessor[l] \in LicensesOf(customer[l])
            THEN predecessor[l] ELSE Nil]
  BY DEF Previous
<1> QED
  BY <1>1, <1>2, <1>3

LEMMA WalkOrdered == HistoryInv => Ordered(Renewal, predecessor, created)
<1> SUFFICES ASSUME HistoryInv
             PROVE  Ordered(Renewal, predecessor, created)
  OBVIOUS
<1>1. /\ created \in [Versions -> Nat]
      /\ predecessor \in [Versions -> Versions \cup {Nil}]
      /\ \A m \in Versions : predecessor[m] # Nil =>
            created[predecessor[m]] < created[m]
  BY DEF HistoryInv, StampInv, RenewalInv, Ancestry!Inv, Ancestry!TypeOK
<1>2. ASSUME NEW l \in Versions, Renewal[l] # Nil
      PROVE  created[l] < created[Renewal[l]]
  <2>1. OldestRenewal(Renewal[l], l)
    BY <1>2, RenewalIsOldest
  <2> QED
    BY <1>1, <2>1, VersionsAssumption DEF OldestRenewal
<1> QED
  BY <1>1, <1>2, RenewalIsOldest DEF Ordered

LEMMA AddNewerAdds == AddsNewer(AddNewer, Renewal)
  BY DEF AddsNewer, AddNewer, Seen

LEMMA AddOlderAdds ==
    HistoryInv => AddsOlder(AddOlder, predecessor)
<1> SUFFICES ASSUME HistoryInv PROVE AddsOlder(AddOlder, predecessor)
  OBVIOUS
<1>1. Previous = predecessor
  BY PreviousIsPrevious
<1> QED
  BY <1>1 DEF AddsOlder, AddOlder, Seen, Last

(* What the two loops list for l: its whole line. *)
LEMMA ChainIsWholeLine ==
    IsFiniteSet(Versions) /\ HistoryInv =>
        \A l \in Versions :
            WholeLine(Chain(l), l, Renewal, predecessor)
<1> SUFFICES ASSUME IsFiniteSet(Versions), HistoryInv, NEW l \in Versions
             PROVE  WholeLine(Chain(l), l, Renewal, predecessor)
  OBVIOUS
<1> DEFINE last == Cardinality(Versions)
           newer == CHOOSE f : f = [k \in 0..last |->
                       IF k = 0 THEN <<l>> ELSE AddNewer[f[k - 1]]]
           older == CHOOSE f : f = [k \in 0..last |->
                       IF k = 0 THEN newer[last] ELSE AddOlder[f[k - 1]]]
<1>1. Chain(l) = older[last]
  BY DEF Chain
<1>2. last \in Nat
  BY FS_CardinalityType
<1> HIDE DEF last
<1>3. IsLoop(newer, last, <<l>>, AddNewer)
  <2>1. PICK g : IsLoop(g, last, <<l>>, AddNewer)
    BY <1>2, LoopExists
  <2>2. g = [k \in 0..last |->
               IF k = 0 THEN <<l>> ELSE AddNewer[g[k - 1]]]
    BY <2>1 DEF IsLoop
  <2> QED
    BY <2>2, Zenon DEF IsLoop
<1> DEFINE start == newer[last]
<1>4. IsLoop(older, last, start, AddOlder)
  <2> HIDE DEF newer
  <2>1. PICK g : IsLoop(g, last, start, AddOlder)
    BY <1>2, LoopExists
  <2>2. g = [k \in 0..last |->
               IF k = 0 THEN start ELSE AddOlder[g[k - 1]]]
    BY <2>1 DEF IsLoop
  <2> QED
    BY <2>2, Zenon DEF IsLoop
<1> HIDE DEF newer, older
<1>5. Ordered(Renewal, predecessor, created)
  BY WalkOrdered
<1>6. /\ Falling(start, created)
      /\ IsLine(start, Len(start), Renewal, predecessor)
      /\ start[Len(start)] = l /\ Renewal[start[1]] = Nil
  BY <1>3, <1>5, AddNewerAdds, NewerLoop DEF last
<1>7. /\ IsLine(older[last], Len(start), Renewal, predecessor)
      /\ older[last][Len(start)] = start[Len(start)]
      /\ older[last][1] = start[1]
      /\ predecessor[older[last][Len(older[last])]] = Nil
  BY <1>4, <1>5, <1>6, AddOlderAdds, OlderLoop DEF last
<1>8. Len(start) \in 1..Len(older[last])
  BY <1>7 DEF IsLine
<1> QED
  BY <1>1, <1>6, <1>7, <1>8 DEF WholeLine

(* Every version of a line renews the one listed after it. *)
LEMMA LineRenews ==
    ASSUME HistoryInv, NEW l \in Versions, NEW s,
           WholeLine(s, l, Renewal, predecessor)
    PROVE  /\ s \in Seq(Versions) /\ Len(s) \in Nat
           /\ \E k \in 1..Len(s) : s[k] = l
           /\ \A i \in 1..(Len(s) - 1) : predecessor[s[i]] = s[i + 1]
           /\ predecessor[s[Len(s)]] = Nil
           /\ ~Renewed(s[1])
<1>1. PICK k \in 1..Len(s) :
         IsLine(s, k, Renewal, predecessor) /\ s[k] = l
  BY DEF WholeLine
<1>2. /\ s \in Seq(Versions) /\ Len(s) \in Nat
      /\ \A i \in 1..Len(s) : s[i] \in Versions
  BY <1>1, LenProperties, ElementOfSeq DEF IsLine
<1>3. ASSUME NEW i \in 1..(Len(s) - 1)
      PROVE  predecessor[s[i]] = s[i + 1]
  <2>1. CASE i < k
    <3>1. i \in 1..(k - 1) /\ i + 1 \in 1..Len(s) /\ i \in 1..Len(s)
      BY <1>2, <2>1
    <3>2. Renewal[s[i + 1]] = s[i] /\ s[i] # Nil
      BY <1>1, <1>2, <3>1, VersionsAssumption DEF IsLine
    <3>3. OldestRenewal(s[i], s[i + 1])
      BY <1>2, <3>1, <3>2, RenewalIsOldest
    <3> QED
      BY <3>3 DEF OldestRenewal
  <2>2. CASE ~(i < k)
    <3>1. i \in k..(Len(s) - 1)
      BY <1>2, <2>2
    <3> QED
      BY <1>1, <3>1 DEF IsLine
  <2> QED
    BY <2>1, <2>2
<1>4. ~Renewed(s[1])
  <2>1. s[1] \in Versions /\ Renewal[s[1]] = Nil
    BY <1>1, <1>2 DEF WholeLine
  <2>2. Renewed(s[1]) => OldestRenewal(Renewal[s[1]], s[1])
    BY <2>1, RenewalIsOldest
  <2> QED
    BY <2>1, <2>2, VersionsAssumption DEF OldestRenewal
<1> QED
  BY <1>1, <1>2, <1>3, <1>4 DEF WholeLine

-----------------------------------------------------------------------------
(* What a history lists *)

LEMMA AlwaysHistoryInv ==
    ASSUME IsFiniteSet(Versions)
    PROVE  HistorySpec => []HistoryInv
<1>1. HistoryInit => HistoryInv
  BY HistoryInitInv
<1>2. HistoryInv /\ [HistoryNext]_(historyVars) => HistoryInv'
  BY HistoryStep
<1> QED
  BY <1>1, <1>2, PTL DEF HistorySpec

(* The step that answers lists the whole line of the requested license. *)
LEMMA AnswerListsLine ==
    ASSUME IsFiniteSet(Versions), HistoryInv,
           [HistoryNext]_(historyVars), Answers
    PROVE  /\ reading.id \in Versions
           /\ \E s : /\ WholeLine(s, reading.id, Renewal, predecessor)
                     /\ answer' = [k \in 1..Len(s) |-> Shown(s[k])]
<1>1. AnswerHistory
  BY DEF Answers, HistoryNext, Register, Renew,
         ReadRequested, historyVars
<1>2. reading.id \in Versions
  BY DEF HistoryInv, ReadingInv, Answers, Existing
<1> DEFINE s == Chain(reading.id)
<1>3. answer' = [k \in DOMAIN s |-> Shown(s[k])]
  BY <1>1 DEF AnswerHistory
<1> HIDE DEF s
<1>4. WholeLine(s, reading.id, Renewal, predecessor)
  BY <1>2, ChainIsWholeLine DEF s
<1>5. DOMAIN s = 1..Len(s)
  BY <1>4, LenProperties DEF WholeLine, IsLine
<1> QED
  BY <1>2, <1>3, <1>4, <1>5

(* Every history answered is a whole line of versions: it holds the license *)
(* asked for, each version renews the one below it, nothing is below the    *)
(* last and no renewal is missing above the first, even when renewals       *)
(* commit between the two reads of ListLicenseHistoryUseCase.               *)
THEOREM EveryHistoryIsWhole ==
    ASSUME IsFiniteSet(Versions)
    PROVE  HistorySpec => HistoryIsWholeLine
<1>1. ASSUME HistoryInv, [HistoryNext]_(historyVars), Answers
      PROVE  /\ \E k \in DOMAIN answer' : answer'[k].id = reading.id
             /\ \A k \in DOMAIN answer' :
                  predecessor[answer'[k].id] =
                     IF k = Len(answer') THEN Nil ELSE answer'[k + 1].id
             /\ \A m \in Versions : predecessor[m] # answer'[1].id
  <2>1. PICK s : /\ WholeLine(s, reading.id, Renewal, predecessor)
                 /\ answer' = [k \in 1..Len(s) |-> Shown(s[k])]
    BY <1>1, AnswerListsLine
  <2>2. reading.id \in Versions
    BY <1>1, AnswerListsLine
  <2>3. /\ s \in Seq(Versions) /\ Len(s) \in Nat
        /\ \E k \in 1..Len(s) : s[k] = reading.id
        /\ \A i \in 1..(Len(s) - 1) : predecessor[s[i]] = s[i + 1]
        /\ predecessor[s[Len(s)]] = Nil
        /\ ~Renewed(s[1])
    BY <1>1, <2>1, <2>2, LineRenews
  <2>4. DOMAIN answer' = 1..Len(s) /\ Len(answer') = Len(s)
    BY <2>1, <2>3
  <2>5. \A k \in 1..Len(s) : answer'[k].id = s[k]
    BY <2>1 DEF Shown
  <2>6. ASSUME NEW k \in 1..Len(s)
        PROVE  predecessor[s[k]] =
                  IF k = Len(s) THEN Nil ELSE answer'[k + 1].id
    BY <2>3, <2>5
  <2>7. 1 \in 1..Len(s)
    BY <2>3
  <2> QED
    BY <2>3, <2>4, <2>5, <2>6, <2>7 DEF Renewed
<1> QED
  BY <1>1, AlwaysHistoryInv, PTL DEF HistorySpec, HistoryIsWholeLine

(* A version is shown with the status it has when the answer is built, the  *)
(* newest as current and the others as archived; only the requested one,    *)
(* loaded by the first read of ListLicenseHistoryUseCase, may be shown as   *)
(* it was then, under a version that renewed it meanwhile.                  *)
THEOREM OnlyRequestedIsStale ==
    ASSUME IsFiniteSet(Versions)
    PROVE  HistorySpec => OnlyRequestedMayBeStale
<1>1. ASSUME HistoryInv, [HistoryNext]_(historyVars), Answers
      PROVE  \A k \in DOMAIN answer' :
                \/ answer'[k].status = IF k = 1 THEN "CURRENT" ELSE "ARCHIVED"
                \/ answer'[k] = reading /\ k > 1
  <2>1. PICK s : /\ WholeLine(s, reading.id, Renewal, predecessor)
                 /\ answer' = [k \in 1..Len(s) |-> Shown(s[k])]
    BY <1>1, AnswerListsLine
  <2>2. /\ Ancestry!Inv
        /\ reading.id \in Existing /\ reading.id \in Versions
        /\ reading = [id |-> reading.id, status |-> reading.status]
        /\ reading.status \in {"CURRENT", "ARCHIVED"}
        /\ reading.status = "ARCHIVED" => state[reading.id] = "ARCHIVED"
    BY <1>1 DEF HistoryInv, ReadingInv, Answers, Existing
  <2>3. /\ s \in Seq(Versions) /\ Len(s) \in Nat
        /\ \E k \in 1..Len(s) : s[k] = reading.id
        /\ \A i \in 1..(Len(s) - 1) : predecessor[s[i]] = s[i + 1]
        /\ ~Renewed(s[1])
        /\ \A i \in 1..Len(s) : s[i] \in Versions
    BY <1>1, <2>1, <2>2, LineRenews, ElementOfSeq
  <2>4. /\ \A l \in Versions : state[l] = "ARCHIVED" <=> Renewed(l)
        /\ \A l \in Existing : state[l] \in {"CURRENT", "ARCHIVED"}
    BY <2>2 DEF Ancestry!Inv, Ancestry!ArchivedIffRenewed, Ancestry!TypeOK,
                Renewed, Existing, Known
  <2>5. ASSUME NEW k \in 1..Len(s), s[k] = reading.id
        PROVE  \/ reading.status = IF k = 1 THEN "CURRENT" ELSE "ARCHIVED"
               \/ k > 1
    BY <2>2, <2>3, <2>4, <2>5
  <2>6. ASSUME NEW k \in 1..Len(s), s[k] # reading.id
        PROVE  state[s[k]] = IF k = 1 THEN "CURRENT" ELSE "ARCHIVED"
    <3>1. CASE k = 1
      <4>1. Len(s) > 1
        BY <2>3, <2>6, <3>1
      <4>2. s[1] \in Versions /\ s[2] \in Versions /\ predecessor[s[1]] = s[2]
        BY <2>3, <4>1
      <4>3. s[1] \in Existing
        BY <2>2, <4>2, RenewedExist, VersionsAssumption
      <4> QED
        BY <2>3, <2>4, <3>1, <4>2, <4>3
    <3>2. CASE k # 1
      <4>1. k - 1 \in 1..(Len(s) - 1) /\ (k - 1) + 1 = k /\ k - 1 \in 1..Len(s)
        BY <2>3, <3>2
      <4>2. predecessor[s[k - 1]] = s[k] /\ s[k - 1] \in Versions
        BY <2>3, <4>1
      <4> QED
        BY <2>3, <2>4, <3>2, <4>2 DEF Renewed
    <3> QED
      BY <3>1, <3>2
  <2>7. ASSUME NEW k \in 1..Len(s)
        PROVE  \/ answer'[k].status = IF k = 1 THEN "CURRENT" ELSE "ARCHIVED"
               \/ answer'[k] = reading /\ k > 1
    <3>1. answer'[k] =
             [id |-> s[k],
              status |-> IF s[k] = reading.id THEN reading.status
                         ELSE state[s[k]]]
      BY <2>1 DEF Shown
    <3>2. CASE s[k] = reading.id
      <4>1. answer'[k] = reading /\ answer'[k].status = reading.status
        BY <2>2, <3>1, <3>2
      <4> QED
        BY <2>5, <3>2, <4>1
    <3>3. CASE s[k] # reading.id
      BY <2>6, <3>1, <3>3
    <3> QED
      BY <3>2, <3>3
  <2> QED
    BY <2>1, <2>7
<1> QED
  BY <1>1, AlwaysHistoryInv, PTL DEF HistorySpec, OnlyRequestedMayBeStale

LEMMA AtMostOne ==
    ASSUME NEW S, IsFiniteSet(S), Cardinality(S) <= 1, NEW a \in S, NEW b \in S
    PROVE  a = b
<1> SUFFICES ASSUME a # b PROVE FALSE
  OBVIOUS
<1>1. IsFiniteSet({a}) /\ Cardinality({a}) = 1
  BY FS_Singleton
<1>2. IsFiniteSet({a} \cup {b}) /\ Cardinality({a} \cup {b}) = 2
  <2> DEFINE A == {a}
  <2>1. IsFiniteSet(A) /\ Cardinality(A) = 1 /\ b \notin A
    BY <1>1
  <2> HIDE DEF A
  <2>2. IsFiniteSet(A \cup {b}) /\ Cardinality(A \cup {b}) = Cardinality(A) + 1
    BY <2>1, FS_AddElement
  <2> QED
    BY <2>1, <2>2 DEF A
<1>3. {a} \cup {b} \subseteq S
  OBVIOUS
<1>4. Cardinality({a} \cup {b}) <= Cardinality(S) /\ Cardinality(S) \in Nat
  BY <1>3, FS_Subset, FS_CardinalityType
<1> QED
  BY <1>2, <1>4

LEMMA SameForAll ==
    ASSUME IsFiniteSet(Versions), HistoryInv
    PROVE  SameHistoryForAll
<1> DEFINE Heirs(l) == {m \in Versions : predecessor[m] = l}
<1>1. SUFFICES ASSUME \A l \in Versions : Cardinality(Heirs(l)) <= 1,
                      NEW l \in Versions
               PROVE  \A k \in DOMAIN Chain(l) :
                         Chain(Chain(l)[k]) = Chain(l)
  BY DEF SameHistoryForAll
<1> DEFINE s == Chain(l)
<1> HIDE DEF s
<1>2. WholeLine(s, l, Renewal, predecessor)
  BY ChainIsWholeLine DEF s
<1>3. /\ s \in Seq(Versions) /\ Len(s) \in Nat
      /\ \A i \in 1..(Len(s) - 1) : predecessor[s[i]] = s[i + 1]
      /\ \A i \in 1..Len(s) : s[i] \in Versions
      /\ DOMAIN s = 1..Len(s)
  BY <1>2, LineRenews, ElementOfSeq, LenProperties
<1>4. ASSUME NEW i \in 1..(Len(s) - 1)
      PROVE  Renewal[s[i + 1]] = s[i]
  <2>1. /\ s[i] \in Versions /\ s[i + 1] \in Versions
        /\ predecessor[s[i]] = s[i + 1]
    BY <1>3
  <2>2. OldestRenewal(Renewal[s[i + 1]], s[i + 1])
    BY <2>1, RenewalIsOldest DEF Renewed
  <2>3. /\ s[i] \in Heirs(s[i + 1])
        /\ Renewal[s[i + 1]] \in Heirs(s[i + 1])
    BY <2>1, <2>2 DEF OldestRenewal
  <2>4. /\ IsFiniteSet(Heirs(s[i + 1]))
        /\ Cardinality(Heirs(s[i + 1])) <= 1
    BY <1>1, <2>1, FS_Subset
  <2> HIDE DEF Heirs
  <2> QED
    BY <2>3, <2>4, AtMostOne
<1>5. ASSUME NEW k \in 1..Len(s)
      PROVE  Chain(s[k]) = s
  <2>1. \A i \in k..(Len(s) - 1) : predecessor[s[i]] = s[i + 1]
    BY <1>3
  <2>2. \A i \in 1..(k - 1) : Renewal[s[i + 1]] = s[i]
    BY <1>3, <1>4
  <2>3. IsLine(s, k, Renewal, predecessor)
    BY <1>3, <2>1, <2>2 DEF IsLine
  <2>4. WholeLine(s, s[k], Renewal, predecessor)
    BY <1>2, <2>3 DEF WholeLine
  <2>5. WholeLine(Chain(s[k]), s[k], Renewal, predecessor)
    BY <1>3, ChainIsWholeLine
  <2> QED
    BY <2>4, <2>5, OneLine
<1> QED
  BY <1>3, <1>5 DEF s

(* While no license was renewed twice, ListLicenseHistoryUseCase answers    *)
(* the same history for every version of a line.                            *)
THEOREM SameHistoryForEveryVersion ==
    ASSUME IsFiniteSet(Versions)
    PROVE  HistorySpec => []SameHistoryForAll
<1>1. HistoryInv => SameHistoryForAll
  BY SameForAll
<1> QED
  BY <1>1, AlwaysHistoryInv, PTL

LEMMA SuffixOnTop ==
    ASSUME NEW s \in Seq(Versions), NEW x \in Versions
    PROVE  IsSuffix(s, s) /\ IsSuffix(s, <<x>> \o s)
<1> DEFINE n == Len(s)
           u == <<x>> \o s
<1>1. n \in Nat /\ Len(u) = n + 1
  BY LenProperties
<1>2. \A i \in 1..n : u[i + 1] = s[i]
  BY <1>1
<1>3. IsSuffix(s, s)
  BY <1>1 DEF IsSuffix, IsPrefix, Reverse
<1>4. /\ Len(Reverse(s)) = n /\ Len(Reverse(u)) = n + 1
      /\ \A i \in 1..n : Reverse(s)[i] = Reverse(u)[i]
  <2> HIDE DEF u
  <2>1. Reverse(s) = [i \in 1..n |-> s[(n - i) + 1]]
    BY DEF Reverse
  <2>2. Reverse(u) = [i \in 1..(n + 1) |-> u[((n + 1) - i) + 1]]
    BY <1>1 DEF Reverse
  <2>3. ASSUME NEW i \in 1..n
        PROVE  s[(n - i) + 1] = u[((n + 1) - i) + 1]
    <3>1. (n - i) + 1 \in 1..n /\ ((n + 1) - i) + 1 = ((n - i) + 1) + 1
      BY <1>1
    <3> QED
      BY <1>2, <3>1
  <2>4. ASSUME NEW i \in 1..n
        PROVE  Reverse(s)[i] = Reverse(u)[i]
    <3>1. i \in 1..(n + 1)
      BY <1>1
    <3> QED
      BY <2>1, <2>2, <2>3, <3>1
  <2>5. Len(Reverse(s)) = n
    BY <1>1, <2>1
  <2>6. Len(Reverse(u)) = n + 1
    BY <1>1, <2>2
  <2> QED
    BY <2>4, <2>5, <2>6
<1>5. IsSuffix(s, u)
  <2> HIDE DEF u
  <2>1. SubSeq(Reverse(s), 1, n) = SubSeq(Reverse(u), 1, n)
    BY <1>1, <1>4
  <2> QED
    BY <1>1, <1>4, <2>1 DEF IsSuffix, IsPrefix
<1> QED
  BY <1>3, <1>5

(* A line whose versions keep their older ones, and but for the newest      *)
(* their newer ones, goes on at most by one version on top.                 *)
LEMMA LineGrows ==
    ASSUME NEW newer, NEW older, NEW newerNow, NEW olderNow,
           NEW l, NEW s, NEW t,
           WholeLine(s, l, newer, older), WholeLine(t, l, newerNow, olderNow),
           \A i \in 1..Len(s) : olderNow[s[i]] = older[s[i]],
           \A i \in 2..Len(s) : newerNow[s[i]] = newer[s[i]],
           \/ newerNow[s[1]] = Nil
           \/ /\ newerNow[s[1]] \in Versions
              /\ newerNow[newerNow[s[1]]] = Nil
    PROVE  IsSuffix(s, t)
<1>1. PICK k \in 1..Len(s) : IsLine(s, k, newer, older) /\ s[k] = l
  BY DEF WholeLine
<1> DEFINE n == Len(s)
<1>2. /\ s \in Seq(Versions) /\ n \in Nat /\ k \in 1..n
      /\ \A i \in 1..(k - 1) : newer[s[i + 1]] = s[i]
      /\ \A i \in k..(n - 1) : older[s[i]] = s[i + 1]
      /\ older[s[n]] = Nil
  BY <1>1, LenProperties DEF IsLine, WholeLine
<1>3. ASSUME NEW i \in 1..(k - 1) PROVE newerNow[s[i + 1]] = s[i]
  <2>1. i + 1 \in 2..n
    BY <1>2
  <2> QED
    BY <1>2, <2>1
<1>4. ASSUME NEW i \in k..(n - 1) PROVE olderNow[s[i]] = s[i + 1]
  <2>1. i \in 1..n
    BY <1>2
  <2> QED
    BY <1>2, <2>1
<1>5. olderNow[s[n]] = Nil
  BY <1>2
<1>6. CASE newerNow[s[1]] = Nil
  <2>1. IsLine(s, k, newerNow, olderNow)
    BY <1>2, <1>3, <1>4 DEF IsLine
  <2>2. WholeLine(s, l, newerNow, olderNow)
    BY <1>1, <1>5, <1>6, <2>1 DEF WholeLine
  <2>3. t = s
    BY <2>2, OneLine
  <2>4. s[1] \in Versions
    BY <1>2, ElementOfSeq
  <2> QED
    BY <1>2, <2>3, <2>4, SuffixOnTop
<1>7. CASE /\ newerNow[s[1]] \in Versions
           /\ newerNow[newerNow[s[1]]] = Nil
  <2> DEFINE x == newerNow[s[1]]
             u == <<x>> \o s
  <2>1. /\ u \in Seq(Versions) /\ Len(u) = n + 1
        /\ u[1] = x /\ \A i \in 1..n : u[i + 1] = s[i]
    BY <1>2, <1>7
  <2> HIDE DEF u
  <2>2. ASSUME NEW i \in 1..((k + 1) - 1) PROVE newerNow[u[i + 1]] = u[i]
    <3>1. i \in 1..n /\ u[i + 1] = s[i]
      BY <1>2, <2>1
    <3>2. CASE i = 1
      BY <2>1, <3>1, <3>2
    <3>3. CASE i # 1
      <4>1. i - 1 \in 1..(k - 1) /\ i - 1 \in 1..n /\ (i - 1) + 1 = i
        BY <1>2, <3>3
      <4>2. newerNow[s[i]] = s[i - 1] /\ u[i] = s[i - 1]
        BY <1>3, <2>1, <4>1
      <4> QED
        BY <3>1, <4>2
    <3> QED
      BY <3>2, <3>3
  <2>3. ASSUME NEW i \in (k + 1)..(Len(u) - 1) PROVE olderNow[u[i]] = u[i + 1]
    <3>1. /\ i - 1 \in k..(n - 1) /\ i - 1 \in 1..n /\ i \in 1..n
          /\ (i - 1) + 1 = i
      BY <1>2, <2>1
    <3>2. u[i] = s[i - 1] /\ u[i + 1] = s[i]
      BY <2>1, <3>1
    <3>3. olderNow[s[i - 1]] = s[i]
      BY <1>4, <3>1
    <3> QED
      BY <3>2, <3>3
  <2>4. k + 1 \in 1..Len(u) /\ u[k + 1] = l /\ u[Len(u)] = s[n]
    BY <1>1, <1>2, <2>1
  <2>5. IsLine(u, k + 1, newerNow, olderNow)
    BY <2>1, <2>2, <2>3, <2>4 DEF IsLine
  <2>6. WholeLine(u, l, newerNow, olderNow)
    BY <1>5, <1>7, <2>1, <2>4, <2>5 DEF WholeLine
  <2>7. t = u
    BY <2>6, OneLine
  <2> QED
    BY <1>2, <1>7, <2>7, SuffixOnTop DEF u
<1> QED
  BY <1>6, <1>7

RenewalsKnown ==
    \A l \in Versions :
        IF Renewed(l) THEN OldestRenewal(Renewal[l], l)
        ELSE Renewal[l] = Nil

ChainsKnown ==
    \A l \in Versions :
        WholeLine(Chain(l), l, Renewal, predecessor)

RenewedKnown ==
    \A m \in Versions : predecessor[m] # Nil =>
        /\ m \in Existing /\ predecessor[m] \in Existing
        /\ created[predecessor[m]] < created[m]

LEMMA WalkKnown ==
    IsFiniteSet(Versions) /\ HistoryInv =>
        RenewalsKnown /\ ChainsKnown /\ RenewedKnown
<1> SUFFICES ASSUME IsFiniteSet(Versions), HistoryInv
             PROVE  RenewalsKnown /\ ChainsKnown /\ RenewedKnown
  OBVIOUS
<1>1. RenewalsKnown
  BY RenewalIsOldest DEF RenewalsKnown
<1>2. ChainsKnown
  BY ChainIsWholeLine DEF ChainsKnown
<1>3. RenewedKnown
  BY RenewedExist DEF RenewedKnown, HistoryInv, RenewalInv
<1> QED
  BY <1>1, <1>2, <1>3

LEMMA WalkKnownNext ==
    (IsFiniteSet(Versions) /\ HistoryInv)' =>
        (RenewalsKnown /\ ChainsKnown /\ RenewedKnown)'
  BY WalkKnown, PTL

(* A new version goes on top of the line of the one it renews, if that was  *)
(* the top, and changes no other line.                                      *)
LEMMA ChainGrows ==
    ASSUME IsFiniteSet(Versions), HistoryInv, HistoryInv',
           NEW new, Adds(new),
           \A m \in Versions : m # new => predecessor'[m] = predecessor[m],
           NEW l \in Existing
    PROVE  IsSuffix(Chain(l), Chain(l)')
<1>1. /\ RenewalsKnown /\ ChainsKnown /\ RenewedKnown
      /\ (RenewalsKnown /\ ChainsKnown /\ RenewedKnown)'
  BY WalkKnown, WalkKnownNext
<1>2. /\ \A m \in Existing : created'[m] = created[m]
      /\ \A m \in Existing : created[m] < created'[new]
  BY AddedStamp DEF HistoryInv
<1>3. /\ new \in Versions /\ new \notin Existing
      /\ Existing' = Existing \cup {new} /\ Existing \subseteq Versions
  BY DEF Adds, Existing
<1>4. created \in [Versions -> Nat] /\ created' \in [Versions -> Nat]
  BY DEF HistoryInv, StampInv
<1>5. \A m, o \in Existing' : created'[m] = created'[o] => m = o
  BY DEF HistoryInv, StampInv
<1> DEFINE now(m) == Renewal'[m]
<1>6. ASSUME NEW m \in Existing, Renewed(m)
      PROVE  now(m) = Renewal[m]
  <2>1. OldestRenewal(Renewal[m], m)
    BY <1>1, <1>3, <1>6 DEF RenewalsKnown
  <2> DEFINE o == Renewal[m]
  <2>2. /\ o \in Versions /\ predecessor[o] = m /\ m # Nil
        /\ \A e \in Versions : predecessor[e] = m => created[o] <= created[e]
    BY <1>3, <2>1, VersionsAssumption DEF OldestRenewal
  <2> HIDE DEF o
  <2>3. o \in Existing /\ predecessor'[o] = m
    BY <1>1, <1>3, <2>2 DEF RenewedKnown
  <2>4. Renewed(m)'
    BY <2>2, <2>3 DEF Renewed
  <2>5. OldestRenewal(Renewal[m], m)'
    BY <1>1, <1>3, <2>4 DEF RenewalsKnown
  <2>6. /\ now(m) \in Versions /\ predecessor'[now(m)] = m
        /\ \A e \in Versions : predecessor'[e] = m =>
              created'[now(m)] <= created'[e]
    BY <2>5 DEF OldestRenewal
  <2> HIDE DEF now
  <2>7. created'[o] <= created'[now(m)]
    <3>1. CASE now(m) = new
      BY <1>2, <1>3, <1>4, <2>3, <3>1
    <3>2. CASE now(m) # new
      <4>1. predecessor[now(m)] = m
        BY <2>6, <3>2
      <4>2. now(m) \in Existing
        BY <1>1, <2>2, <2>6, <4>1 DEF RenewedKnown
      <4>3. created[o] <= created[now(m)]
        BY <2>2, <2>6, <4>1
      <4> QED
        BY <1>2, <2>3, <4>2, <4>3
    <3> QED
      BY <3>1, <3>2
  <2>8. created'[now(m)] <= created'[o]
    BY <2>2, <2>3, <2>6
  <2>9. created'[now(m)] = created'[o]
    BY <1>4, <2>2, <2>6, <2>7, <2>8
  <2>10. now(m) \in Existing'
    BY <1>1, <2>2, <2>6 DEF RenewedKnown
  <2> QED
    BY <1>3, <1>5, <2>3, <2>9, <2>10 DEF o
<1>7. ~Renewed(new)' /\ now(new) = Nil
  <2>1. ASSUME NEW m \in Versions, predecessor'[m] = new
        PROVE  FALSE
    <3>1. m \in Existing' /\ created'[new] < created'[m]
      BY <1>1, <1>3, <2>1, VersionsAssumption DEF RenewedKnown
    <3>2. m # new
      BY <1>4, <3>1
    <3> QED
      BY <1>2, <1>3, <1>4, <3>1, <3>2
  <2> QED
    BY <1>1, <1>3, <2>1 DEF Renewed, RenewalsKnown
<1>8. ASSUME NEW m \in Existing, ~Renewed(m)
      PROVE  now(m) = Nil \/ now(m) = new
  <2>1. CASE Renewed(m)'
    <3>1. OldestRenewal(Renewal[m], m)'
      BY <1>1, <1>3, <2>1 DEF RenewalsKnown
    <3>2. now(m) \in Versions /\ predecessor'[now(m)] = m
      BY <3>1 DEF OldestRenewal
    <3> HIDE DEF now
    <3> QED
      BY <1>8, <3>2 DEF Renewed
  <2>2. CASE ~Renewed(m)'
    BY <1>1, <1>3, <2>2 DEF RenewalsKnown
  <2> QED
    BY <2>1, <2>2
<1> DEFINE s == Chain(l)
<1>9. WholeLine(s, l, Renewal, predecessor)
  BY <1>1, <1>3 DEF ChainsKnown
<1>10. WholeLine(s', l, Renewal', predecessor')
  BY <1>1, <1>3 DEF ChainsKnown
<1> HIDE DEF s, now
<1>11. /\ s \in Seq(Versions) /\ Len(s) \in Nat /\ Len(s) > 0
       /\ \A i \in 1..(Len(s) - 1) : predecessor[s[i]] = s[i + 1]
       /\ \A i \in 1..Len(s) : s[i] \in Versions
       /\ ~Renewed(s[1])
  <2>1. /\ s \in Seq(Versions) /\ Len(s) \in Nat
        /\ \E k \in 1..Len(s) : s[k] = l
        /\ \A i \in 1..(Len(s) - 1) : predecessor[s[i]] = s[i + 1]
        /\ ~Renewed(s[1])
    <3>1. l \in Versions
      BY <1>3
    <3> QED
      BY <3>1, <1>9, LineRenews
  <2>2. Len(s) > 0
    BY <2>1
  <2>3. \A i \in 1..Len(s) : s[i] \in Versions
    BY <2>1, ElementOfSeq
  <2> QED
    BY <2>1, <2>2, <2>3
<1>12. ASSUME NEW i \in 2..Len(s)
       PROVE  Renewed(s[i])
  <2>1. i - 1 \in 1..(Len(s) - 1) /\ (i - 1) + 1 = i /\ i - 1 \in 1..Len(s)
    BY <1>11
  <2> QED
    BY <1>11, <2>1 DEF Renewed
<1>13. ASSUME NEW i \in 1..Len(s)
       PROVE  s[i] \in Existing
  <2>1. CASE i > 1
    <3>1. i \in 2..Len(s) /\ s[i] \in Versions
      BY <1>11, <2>1
    <3>2. PICK m \in Versions : predecessor[m] = s[i]
      BY <1>12, <3>1 DEF Renewed
    <3> QED
      BY <1>1, <3>1, <3>2, VersionsAssumption DEF RenewedKnown
  <2>2. CASE i < Len(s)
    <3>1. /\ i \in 1..(Len(s) - 1) /\ i + 1 \in 1..Len(s)
      BY <1>11, <2>2
    <3>2. /\ predecessor[s[i]] = s[i + 1]
          /\ s[i] \in Versions /\ s[i + 1] \in Versions
      BY <1>11, <3>1
    <3> QED
      BY <1>1, <3>2, VersionsAssumption DEF RenewedKnown
  <2>3. CASE i = 1 /\ Len(s) = 1
    <3>1. \E k \in 1..Len(s) : s[k] = l
      BY <1>9 DEF WholeLine
    <3> QED
      BY <2>3, <3>1
  <2>4. Len(s) \in Nat
    BY <1>11
  <2>5. \A n \in Nat : \A k \in 1..n : k > 1 \/ k < n \/ (k = 1 /\ n = 1)
    OBVIOUS
  <2>6. i > 1 \/ i < Len(s) \/ (i = 1 /\ Len(s) = 1)
    BY <2>4, <2>5
  <2> QED
    BY <2>1, <2>2, <2>3, <2>6
<1>14. \A i \in 1..Len(s) : predecessor'[s[i]] = predecessor[s[i]]
  BY <1>3, <1>11, <1>13
<1>15. \A i \in 2..Len(s) : now(s[i]) = Renewal[s[i]]
  <2>1. \A i \in 2..Len(s) : i \in 1..Len(s)
    BY <1>11
  <2> QED
    BY <1>6, <1>12, <1>13, <2>1
<1>16. \/ now(s[1]) = Nil
       \/ now(s[1]) \in Versions /\ now(now(s[1])) = Nil
  <2>1. s[1] \in Existing
    BY <1>11, <1>13
  <2> QED
    BY <1>3, <1>7, <1>8, <1>11, <2>1
<1>17. IsSuffix(s, s')
  BY <1>9, <1>10, <1>14, <1>15, <1>16, LineGrows DEF now
<1> QED
  BY <1>17 DEF s

(* What ListLicenseHistoryUseCase lists for a license only ever grows, by   *)
(* newer versions on top: no registration and no renewal, not even a second *)
(* renewal of a version already renewed, changes the line shown before.     *)
THEOREM HistoriesOnlyGrow ==
    ASSUME IsFiniteSet(Versions)
    PROVE  HistorySpec => HistoryOnlyGrows
<1>1. ASSUME HistoryInv, HistoryInv', [HistoryNext]_(historyVars),
             NEW l \in Versions, Known(l)
      PROVE  IsSuffix(Chain(l), Chain(l)')
  <2>1. l \in Existing
    BY <1>1 DEF Existing, Known, Known
  <2>2. ASSUME NEW new \in Versions, NEW c \in Customers,
               Register(new, c)
        PROVE  IsSuffix(Chain(l), Chain(l)')
    <3>1. Adds(new) /\ predecessor' = predecessor
      BY <1>1, <2>2, RegisterAdds DEF Ancestry!Register
    <3> QED
      BY <1>1, <2>1, <3>1, ChainGrows
  <2>3. ASSUME NEW old \in Versions, NEW new \in Versions,
               Renew(old, new)
        PROVE  IsSuffix(Chain(l), Chain(l)')
    <3>1. Adds(new) /\ predecessor' = [predecessor EXCEPT ![new] = old]
      BY <1>1, <2>3, RenewAdds DEF Ancestry!Renew
    <3>2. predecessor \in [Versions -> Versions \cup {Nil}]
      BY <1>1 DEF HistoryInv, Ancestry!Inv, Ancestry!TypeOK
    <3>3. \A m \in Versions : m # new => predecessor'[m] = predecessor[m]
      BY <3>1, <3>2
    <3> QED
      BY <1>1, <2>1, <3>1, <3>3, ChainGrows
  <2>4. ASSUME UNCHANGED <<state, predecessor, customer, created>>
        PROVE  IsSuffix(Chain(l), Chain(l)')
    <3>1. /\ WholeLine(Chain(l), l, Renewal, predecessor)
          /\ WholeLine(Chain(l)', l, Renewal', predecessor')
      BY <1>1, WalkKnown, WalkKnownNext DEF ChainsKnown
    <3>2. Renewal' = Renewal /\ predecessor' = predecessor
      BY <2>4 DEF Renewal, RenewalsListed, LicensesOf,
                  Known, Oldest
    <3>3. Chain(l)' = Chain(l)
      BY <3>1, <3>2, OneLine
    <3>4. Chain(l) \in Seq(Versions)
      BY <3>1 DEF WholeLine, IsLine
    <3> QED
      BY <3>3, <3>4, SuffixOnTop
  <2>5. ASSUME \/ \E m \in Versions : ReadRequested(m)
               \/ AnswerHistory
               \/ UNCHANGED historyVars
        PROVE  UNCHANGED <<state, predecessor, customer, created>>
    BY <2>5 DEF ReadRequested, AnswerHistory, written,
                historyVars
  <2> QED
    BY <1>1, <2>2, <2>3, <2>4, <2>5 DEF HistoryNext
<1>2. HistoryInv /\ [HistoryNext]_(historyVars) => HistoryInv'
  BY HistoryStep
<1>3. HistoryInv /\ HistoryInv' /\ [HistoryNext]_(historyVars) =>
         \A l \in Versions : Known(l) =>
            IsSuffix(Chain(l), Chain(l)')
  BY <1>1
<1> QED
  BY <1>2, <1>3, AlwaysHistoryInv, PTL DEF HistorySpec, HistoryOnlyGrows
=============================================================================
