------------------------- MODULE MonthlyRecordsProofs -------------------------
(* Theorems about MonthlyRecords, for any requests, indicators, values,     *)
(* numbers of changes, and any finite set of months.                        *)
EXTENDS MonthlyRecords, FiniteSetTheorems, SequenceTheorems, WellFoundedInduction,
        TLAPS

-----------------------------------------------------------------------------
(* Lemmas about the operators *)

LEMMA ListTyped ==
    ASSUME NEW changes \in Lists
    PROVE  /\ Len(changes) \in Nat /\ DOMAIN changes = 1 .. Len(changes)
           /\ changes \in [1 .. Len(changes) -> Change]
<1> PICK n \in 0 .. MaxChanges : changes \in [1..n -> Change]
  BY DEF Lists
<1>1. n \in Nat
  BY ValuesAssumption
<1>2. changes \in Seq(Change)
  BY <1>1, SeqDef
<1> QED
  BY <1>2, LenProperties

(* What assertNoDuplicates counts: no indicator is listed twice.            *)
LEMMA DistinctIndicators ==
    ASSUME NEW changes \in Lists, Distinct(changes),
           NEW k \in DOMAIN changes, NEW l \in DOMAIN changes,
           changes[k][1] = changes[l][1]
    PROVE  k = l
<1> DEFINE n == Len(changes)
           f == [x \in 1..n |-> changes[x][1]]
<1>1. n \in Nat /\ DOMAIN changes = 1..n
  BY ListTyped
<1>2. IsFiniteSet(1..n) /\ Cardinality(1..n) = n
  <2> HIDE DEF n
  <2> QED
    BY <1>1, FS_Interval
<1>3. f \in Surjection(1..n, Mentioned(changes))
  BY <1>1 DEF Surjection, Mentioned
<1>4. Cardinality(Mentioned(changes)) = n
  BY DEF Distinct
<1> HIDE DEF n
<1>5. f \in Injection(1..n, Mentioned(changes))
  <2> HIDE DEF f
  <2> QED
    BY <1>2, <1>3, <1>4, FS_Surjection
<1> QED
  BY <1>1, <1>5 DEF Injection, IsInjective

(* Where an indicator is listed. *)
LEMMA PositionOf ==
    ASSUME NEW s, job[s].changes \in Lists, Distinct(job[s].changes),
           NEW k \in DOMAIN job[s].changes
    PROVE  Position(s, job[s].changes[k][1]) = k
<1>1. \A l \in DOMAIN job[s].changes :
         job[s].changes[l][1] = job[s].changes[k][1] <=> l = k
  BY DistinctIndicators
<1> QED
  BY <1>1 DEF Position

LEMMA MonthTyped ==
    ASSUME NEW m \in Months PROVE m[1] \in Int /\ m[2] \in 1..12 /\ m = <<m[1], m[2]>>
  BY ValuesAssumption

(* The month before is the one month that counts one less. *)
LEMMA PreviousMonthCounts ==
    ASSUME NEW m \in Months, NEW n \in Months, Count(m) = Count(n) - 1
    PROVE  PreviousMonth(n) = m
<1>1. ASSUME NEW y \in Int, NEW a \in 1..12, NEW z \in Int, NEW b \in 1..12,
             12 * y + a = 12 * z + b - 1
      PROVE  IF b = 1 THEN y = z - 1 /\ a = 12 ELSE y = z /\ a = b - 1
  BY <1>1
<1>2. IF n[2] = 1 THEN m[1] = n[1] - 1 /\ m[2] = 12
      ELSE m[1] = n[1] /\ m[2] = n[2] - 1
  BY <1>1, MonthTyped DEF Count
<1> QED
  BY <1>2, MonthTyped DEF PreviousMonth

(* Of finitely many months one is the last.                                 *)
LEMMA LastMonthExists ==
    ASSUME NEW S \in SUBSET Months, S # {}
    PROVE  \E m \in S : \A n \in S : ~Later(n, m)
<1> DEFINE HasLast(A) == \E m \in A : \A n \in A : ~Later(n, m)
           Sizes == {k \in Nat : \E A \in SUBSET S :
                        A # {} /\ Cardinality(A) = k /\ ~HasLast(A)}
<1>1. \A A \in SUBSET S : IsFiniteSet(A) /\ Cardinality(A) \in Nat
  BY ValuesAssumption, FS_Subset, FS_CardinalityType
<1>2. SUFFICES ASSUME Sizes # {} PROVE FALSE
  BY <1>1
<1>3. PICK k \in Sizes : \A j \in Sizes : <<j, k>> \notin OpToRel(<, Nat)
  <2> HIDE DEF Sizes
  <2>1. Sizes \subseteq Nat
    BY DEF Sizes
  <2> QED
    BY <1>2, <2>1, WFMin, NatLessThanWellFounded
<1>4. PICK A \in SUBSET S : A # {} /\ Cardinality(A) = k /\ ~HasLast(A)
  OBVIOUS
<1>5. PICK x \in A : TRUE
  BY <1>4
<1> DEFINE B == A \ {x}
<1>6. Cardinality(B) = k - 1 /\ Cardinality(B) \in Nat
  BY <1>1, <1>4, <1>5, FS_RemoveElement
<1>7. B # {}
  <2> SUFFICES ASSUME B = {} PROVE FALSE
    OBVIOUS
  <2>1. \A n \in A : n = x
    OBVIOUS
  <2>2. ~Later(x, x)
    BY MonthTyped DEF Later
  <2> QED
    BY <1>4, <1>5, <2>1, <2>2
<1>8. HasLast(B)
  <2> SUFFICES ASSUME ~HasLast(B) PROVE FALSE
    OBVIOUS
  <2>1. k - 1 \in Sizes
    BY <1>6, <1>7
  <2>2. <<k - 1, k>> \in OpToRel(<, Nat)
    BY <1>6 DEF OpToRel
  <2> QED
    BY <1>3, <2>1, <2>2
<1>9. PICK y \in B : \A n \in B : ~Later(n, y)
  BY <1>8
<1>10. CASE Later(x, y)
  <2>1. \A n \in A : ~Later(n, x)
    BY <1>9, <1>10, MonthTyped DEF Later
  <2> QED
    BY <1>4, <1>5, <2>1
<1>11. CASE ~Later(x, y)
  <2>1. \A n \in A : ~Later(n, y)
    BY <1>9, <1>11
  <2> QED
    BY <1>4, <1>9, <2>1
<1> QED
  BY <1>10, <1>11

LEMMA LatestMonthFound ==
    /\ Reported = {} => LatestMonth = None
    /\ Reported # {} => LatestMonth \in Reported
  BY LastMonthExists DEF LatestMonth, Reported

-----------------------------------------------------------------------------
(* The inductive invariant *)

Cells == [Indicators -> Values \cup {None}]
Queries == {"indicators", "month", "current", "previous"}

PageType ==
    [got : SUBSET Queries, indicators : SUBSET Indicators,
     month : Months \cup {None}, current : Cells, previous : Cells]

Job == [month : Months, changes : Lists]

TypeInv ==
    /\ linked \in SUBSET Indicators
    /\ records \in [Indicators \X Months -> Values \cup {None}]
    /\ pc \in [Requests -> {"idle", "inTx", "reading", "done"}]
    /\ job \in [Requests -> Job \cup {NoJob}]
    /\ next \in [Requests -> Nat \ {0}]
    /\ writes \in [Requests -> [Indicators -> Values \cup {None, Untouched}]]
    /\ inserted \in [Requests -> SUBSET Indicators]
    /\ view \in [Requests -> Kinds]
    /\ page \in [Requests -> PageType]
    /\ quiet \in [Requests -> BOOLEAN]

(* What a transaction has written is what the changes it has applied list;  *)
(* a removal that wrote nothing found no row, or passed one by.             *)
Applied(s) == {k \in DOMAIN job[s].changes : k < next[s]}

SaveInv(s) ==
    IF InTx(s)
    THEN /\ job[s] \in Job /\ Distinct(job[s].changes)
         /\ \A i \in Written(s) :
               \E k \in Applied(s) : job[s].changes[k] = <<i, writes[s][i]>>
         /\ \A k \in Applied(s) :
               LET i == job[s].changes[k][1]
                   value == job[s].changes[k][2]
               IN  \/ writes[s][i] = value
                   \/ /\ value = None /\ writes[s][i] = Untouched
                      /\ Stored(s, i) = None \/ i \in inserted[s]
    ELSE next[s] = 1 /\ writes[s] = NoWrites

(* The order of the queries of a page.                                      *)
OrderInv(r) ==
    pc[r] = "reading" =>
        /\ view[r] # "latest" => page[r].month # None
        /\ page[r].got \cap {"current", "previous"} # {} =>
              FirstQueries(r) \subseteq page[r].got /\ page[r].month # None

(* Each query of an undisturbed page is as a query of now would be.         *)
QuietInv(r) ==
    pc[r] = "reading" /\ quiet[r] =>
        /\ "indicators" \in page[r].got => page[r].indicators = linked
        /\ view[r] = "latest" /\ "month" \in page[r].got => page[r].month = LatestMonth
        /\ "current" \in page[r].got => page[r].current = ValuesOf(page[r].month)
        /\ "previous" \in page[r].got =>
              page[r].previous = ValuesOf(PreviousMonth(page[r].month))

IInv ==
    /\ TypeInv
    /\ \A r \in Requests : SaveInv(r) /\ OrderInv(r) /\ QuietInv(r)

LEMMA PageTyped == \A m \in Months \cup {None} : Page(m) \in PageType
  BY DEF Page, PageType, Empty, Cells

LEMMA ValuesTyped == ASSUME TypeInv, NEW m PROVE ValuesOf(m) \in Cells
  BY DEF TypeInv, ValuesOf, Cells

LEMMA InitIInv == Init => IInv
<1> SUFFICES ASSUME Init PROVE IInv
  OBVIOUS
<1>1. TypeInv
  <2>1. NoWrites \in [Indicators -> Values \cup {None, Untouched}]
    BY DEF NoWrites
  <2>2. Page(None) \in PageType
    BY PageTyped
  <2> QED
    BY <2>1, <2>2 DEF Init, TypeInv, Kinds
<1> QED
  BY <1>1 DEF IInv, Init, SaveInv, OrderInv, QuietInv, InTx

-----------------------------------------------------------------------------
(* The steps *)

(* The transactions beside a step that commits nothing.                     *)
LEMMA OtherSave ==
    ASSUME NEW t \in Requests, SaveInv(t), UNCHANGED records,
           pc'[t] = pc[t], job'[t] = job[t], next'[t] = next[t],
           writes'[t] = writes[t], inserted'[t] = inserted[t]
    PROVE  SaveInv(t)'
  BY DEF SaveInv, InTx, Written, Applied, Stored

LEMMA OtherPage ==
    ASSUME NEW t \in Requests, OrderInv(t), QuietInv(t), UNCHANGED <<linked, records>>,
           pc'[t] = pc[t], view'[t] = view[t], page'[t] = page[t], quiet'[t] = quiet[t]
    PROVE  OrderInv(t)' /\ QuietInv(t)'
<1>1. OrderInv(t)'
  BY DEF OrderInv, FirstQueries
<1>2. QuietInv(t)'
  <2>1. Reported' = Reported
    BY DEF Reported
  <2>2. LatestMonth' = LatestMonth
    BY <2>1 DEF LatestMonth
  <2>3. /\ ValuesOf(page[t].month)' = ValuesOf(page[t].month)
        /\ ValuesOf(PreviousMonth(page[t].month))' = ValuesOf(PreviousMonth(page[t].month))
    BY DEF ValuesOf, PreviousMonth
  <2> QED
    BY <2>2, <2>3 DEF QuietInv
<1> QED
  BY <1>1, <1>2

(* A page that has not been read at all yet.                                *)
LEMMA NewPage ==
    ASSUME NEW r \in Requests, NEW month \in Months \cup {None},
           page'[r] = Page(month), view'[r] # "latest" => month # None
    PROVE  OrderInv(r)' /\ QuietInv(r)'
<1>1. page'[r].got = {} /\ page'[r].month = month
  BY DEF Page
<1> QED
  BY <1>1 DEF OrderInv, QuietInv

LEMMA RejectSaveStep == ASSUME IInv, NEW s \in Requests, RejectSave(s) PROVE IInv'
<1>1. /\ pc' = [pc EXCEPT ![s] = "done"]
      /\ UNCHANGED <<linked, records, job, next, writes, inserted, view, page, quiet>>
  BY DEF RejectSave, Goto, tables, saving, reading
<1>2. /\ TypeInv' /\ pc'[s] = "done"
      /\ \A t \in Requests \ {s} : pc'[t] = pc[t]
  BY <1>1 DEF IInv, TypeInv
<1>3. SaveInv(s)' /\ OrderInv(s)' /\ QuietInv(s)'
  <2>1. next[s] = 1 /\ writes[s] = NoWrites
    BY DEF IInv, SaveInv, InTx, RejectSave, Goto
  <2> QED
    BY <1>1, <1>2, <2>1 DEF SaveInv, OrderInv, QuietInv, InTx
<1>4. \A t \in Requests \ {s} : SaveInv(t)' /\ OrderInv(t)' /\ QuietInv(t)'
  BY <1>1, <1>2, OtherSave, OtherPage DEF IInv
<1> QED
  BY <1>2, <1>3, <1>4 DEF IInv

LEMMA ReceiveSaveStep == ASSUME IInv, NEW s \in Requests, ReceiveSave(s) PROVE IInv'
<1> PICK m \in Months, changes \in Lists :
        /\ Distinct(changes)
        /\ IF changes = <<>>
           THEN /\ Goto(s, "idle", "reading")
                /\ StartReading(s, "list", m)
                /\ quiet' = [quiet EXCEPT ![s] = TRUE]
                /\ UNCHANGED job
           ELSE /\ Goto(s, "idle", "inTx")
                /\ job' = [job EXCEPT ![s] = [month |-> m, changes |-> changes]]
                /\ UNCHANGED reading
        /\ UNCHANGED <<tables, next, writes, inserted>>
  BY DEF ReceiveSave
<1>1. UNCHANGED <<linked, records, next, writes, inserted>>
  BY DEF tables
<1>2. CASE changes = <<>>
  <2>1. /\ pc' = [pc EXCEPT ![s] = "reading"] /\ view' = [view EXCEPT ![s] = "list"]
        /\ page' = [page EXCEPT ![s] = Page(m)] /\ quiet' = [quiet EXCEPT ![s] = TRUE]
        /\ UNCHANGED job
    BY <1>2 DEF Goto, StartReading
  <2>2. TypeInv'
    BY <1>1, <2>1, PageTyped DEF IInv, TypeInv, Kinds
  <2>3. /\ pc'[s] = "reading" /\ page'[s] = Page(m)
        /\ \A t \in Requests \ {s} :
              /\ pc'[t] = pc[t] /\ view'[t] = view[t]
              /\ page'[t] = page[t] /\ quiet'[t] = quiet[t]
    BY <2>1 DEF IInv, TypeInv
  <2>4. m # None
    BY ValuesAssumption
  <2>5. SaveInv(s)' /\ OrderInv(s)' /\ QuietInv(s)'
    <3>1. next[s] = 1 /\ writes[s] = NoWrites
      BY <1>2 DEF IInv, SaveInv, InTx, Goto
    <3> QED
      BY <1>1, <2>3, <2>4, <3>1, NewPage DEF SaveInv, InTx
  <2>6. \A t \in Requests \ {s} : SaveInv(t)' /\ OrderInv(t)' /\ QuietInv(t)'
    BY <1>1, <2>1, <2>3, OtherSave, OtherPage DEF IInv
  <2> QED
    BY <2>2, <2>5, <2>6 DEF IInv
<1>3. CASE changes # <<>>
  <2> DEFINE new == [month |-> m, changes |-> changes]
  <2>1. /\ pc[s] = "idle" /\ pc' = [pc EXCEPT ![s] = "inTx"]
        /\ job' = [job EXCEPT ![s] = new] /\ UNCHANGED <<view, page, quiet>>
    BY <1>3 DEF Goto, reading
  <2>2. new \in Job /\ new.changes = changes
    BY DEF Job
  <2> HIDE DEF new
  <2>3. TypeInv'
    BY <1>1, <2>1, <2>2 DEF IInv, TypeInv
  <2>4. /\ pc'[s] = "inTx" /\ job'[s] = new
        /\ \A t \in Requests \ {s} : pc'[t] = pc[t] /\ job'[t] = job[t]
    BY <2>1 DEF IInv, TypeInv
  <2>5. SaveInv(s)'
    <3>1. next[s] = 1 /\ writes[s] = NoWrites
      BY <2>1 DEF IInv, SaveInv, InTx
    <3>2. \A k \in DOMAIN changes : ~(k < 1)
      BY ListTyped
    <3>3. Applied(s)' = {} /\ Written(s)' = {}
      BY <1>1, <2>2, <2>4, <3>1, <3>2 DEF Applied, Written, NoWrites
    <3> QED
      BY <2>2, <2>4, <3>3 DEF SaveInv, InTx
  <2>6. OrderInv(s)' /\ QuietInv(s)'
    BY <2>4 DEF OrderInv, QuietInv
  <2>7. \A t \in Requests \ {s} : SaveInv(t)' /\ OrderInv(t)' /\ QuietInv(t)'
    BY <1>1, <2>1, <2>4, OtherSave, OtherPage DEF IInv
  <2> QED
    BY <2>3, <2>5, <2>6, <2>7 DEF IInv
<1> QED
  BY <1>2, <1>3

LEMMA ApplyChangeStep == ASSUME IInv, NEW s \in Requests, ApplyChange(s) PROVE IInv'
<1> DEFINE changes == job[s].changes
           n == next[s]
           i == Target(s)
           v == Value(s)
<1>1. /\ InTx(s) /\ n \in DOMAIN changes
      /\ next' = [next EXCEPT ![s] = n + 1]
      /\ UNCHANGED <<linked, records, pc, job, inserted, view, page, quiet>>
      /\ \/ v = None /\ Stored(s, i) = None /\ UNCHANGED writes
         \/ writes' = [writes EXCEPT ![s][i] = v]
  BY DEF ApplyChange, Pending, tables, reading
<1>2. /\ job[s] \in Job /\ changes \in Lists /\ Distinct(changes)
      /\ DOMAIN changes \subseteq Nat
      /\ changes[n] = <<i, v>> /\ i \in Indicators /\ v \in Values \cup {None}
  <2>1. job[s] \in Job /\ changes \in Lists /\ Distinct(changes)
    BY <1>1 DEF IInv, SaveInv, Job
  <2>2. changes[n] \in Change /\ DOMAIN changes \subseteq Nat
    BY <1>1, <2>1, ListTyped
  <2> QED
    BY <2>1, <2>2 DEF Target, Value, Change
<1>3. TypeInv'
  <2>1. next' \in [Requests -> Nat \ {0}]
    BY <1>1 DEF IInv, TypeInv
  <2>2. ASSUME writes' = [writes EXCEPT ![s][i] = v]
        PROVE  writes' \in [Requests -> [Indicators -> Values \cup {None, Untouched}]]
    <3> HIDE DEF i, v
    <3>1. [writes[s] EXCEPT ![i] = v] \in [Indicators -> Values \cup {None, Untouched}]
      BY <1>2 DEF IInv, TypeInv
    <3> QED
      BY <2>2, <3>1 DEF IInv, TypeInv
  <2> QED
    BY <1>1, <2>1, <2>2 DEF IInv, TypeInv
<1>4. n \in Nat /\ next'[s] = n + 1
  BY <1>1 DEF IInv, TypeInv
<1>5. ASSUME NEW k \in Applied(s)
      PROVE  changes[k][1] # i /\ k \in DOMAIN changes /\ k < n
  BY <1>1, <1>2, <1>4, <1>5, DistinctIndicators DEF Applied
<1>6. Applied(s)' = Applied(s) \cup {n}
  BY <1>1, <1>2, <1>4 DEF Applied
<1>7. SaveInv(s)'
  <2>0. /\ \A j \in Written(s) : \E k \in Applied(s) : changes[k] = <<j, writes[s][j]>>
        /\ \A k \in Applied(s) :
              \/ writes[s][changes[k][1]] = changes[k][2]
              \/ /\ changes[k][2] = None /\ writes[s][changes[k][1]] = Untouched
                 /\ \/ Stored(s, changes[k][1]) = None
                    \/ changes[k][1] \in inserted[s]
    BY <1>1 DEF IInv, SaveInv
  <2>1. i \notin Written(s)
    BY <1>5, <2>0
  <2>2. \A j \in Indicators \ {i} : writes'[s][j] = writes[s][j]
    BY <1>1, <1>2 DEF IInv, TypeInv
  <2>3. \/ writes'[s][i] = v
        \/ v = None /\ Stored(s, i) = None /\ writes'[s][i] = Untouched
    BY <1>1, <1>2, <2>1 DEF IInv, TypeInv, Written
  <2>4. ASSUME NEW j \in Written(s)'
        PROVE  \E k \in Applied(s)' : changes[k] = <<j, writes'[s][j]>>
    <3>1. CASE j = i
      BY <1>2, <1>6, <2>3, <2>4, <3>1, ValuesAssumption DEF Written
    <3>2. CASE j # i
      BY <1>6, <2>0, <2>2, <2>4, <3>2 DEF Written
    <3> QED
      BY <3>1, <3>2
  <2>5. ASSUME NEW k \in Applied(s)'
        PROVE  \/ writes'[s][changes[k][1]] = changes[k][2]
               \/ /\ changes[k][2] = None /\ writes'[s][changes[k][1]] = Untouched
                  /\ \/ Stored(s, changes[k][1]) = None
                     \/ changes[k][1] \in inserted[s]
    <3>1. CASE k = n
      BY <1>2, <2>3, <3>1
    <3>2. CASE k # n
      <4>1. k \in Applied(s) /\ k \in DOMAIN changes
        BY <1>5, <1>6, <2>5, <3>2
      <4>2. changes[k] \in Change
        BY <1>2, <4>1, ListTyped
      <4>3. changes[k][1] \in Indicators \ {i}
        BY <1>5, <4>1, <4>2 DEF Change
      <4> QED
        BY <2>0, <2>2, <4>1, <4>3
    <3> QED
      BY <3>1, <3>2
  <2>6. InTx(s)' /\ UNCHANGED <<job, inserted, records>>
    BY <1>1 DEF InTx
  <2> QED
    BY <1>2, <2>4, <2>5, <2>6 DEF SaveInv, Stored
<1>8. \A t \in Requests \ {s} : SaveInv(t)'
  <2>1. \A t \in Requests \ {s} : next'[t] = next[t] /\ writes'[t] = writes[t]
    BY <1>1 DEF IInv, TypeInv
  <2> QED
    BY <1>1, <2>1, OtherSave DEF IInv
<1>9. \A t \in Requests : OrderInv(t)' /\ QuietInv(t)'
  BY <1>1, OtherPage DEF IInv
<1> QED
  BY <1>3, <1>7, <1>8, <1>9 DEF IInv

LEMMA RollbackStep == ASSUME IInv, NEW s \in Requests, Rollback(s) PROVE IInv'
<1>1. /\ pc[s] = "inTx" /\ pc' = [pc EXCEPT ![s] = "done"]
      /\ job' = [job EXCEPT ![s] = NoJob] /\ writes' = [writes EXCEPT ![s] = NoWrites]
      /\ next' = [next EXCEPT ![s] = 1] /\ inserted' = [inserted EXCEPT ![s] = {}]
      /\ UNCHANGED <<linked, records, view, page, quiet>>
  BY DEF Rollback, Goto, tables, reading
<1>2. TypeInv'
  <2>1. NoWrites \in [Indicators -> Values \cup {None, Untouched}]
    BY DEF NoWrites
  <2> QED
    BY <1>1, <2>1 DEF IInv, TypeInv
<1>3. /\ pc'[s] = "done" /\ next'[s] = 1 /\ writes'[s] = NoWrites
      /\ \A t \in Requests \ {s} :
            /\ pc'[t] = pc[t] /\ job'[t] = job[t] /\ next'[t] = next[t]
            /\ writes'[t] = writes[t] /\ inserted'[t] = inserted[t]
  BY <1>1 DEF IInv, TypeInv
<1>4. SaveInv(s)' /\ OrderInv(s)' /\ QuietInv(s)'
  BY <1>3 DEF SaveInv, OrderInv, QuietInv, InTx
<1>5. \A t \in Requests \ {s} : SaveInv(t)' /\ OrderInv(t)' /\ QuietInv(t)'
  BY <1>1, <1>3, OtherSave, OtherPage DEF IInv
<1> QED
  BY <1>2, <1>4, <1>5 DEF IInv

(* What a commit of s does to the row of an indicator, and to what another  *)
(* save whose removal passed by it knows.                                   *)
LEMMA CommittedRow ==
    ASSUME IInv, NEW s \in Requests, InTx(s), NEW i \in Indicators, NEW m \in Months
    PROVE  Committed(s)[i, m] =
              IF m = job[s].month /\ i \in Written(s) THEN writes[s][i] ELSE records[i, m]
<1>1. <<i, m>> \in DOMAIN records
  BY DEF IInv, TypeInv
<1> QED
  BY <1>1 DEF Committed

LEMMA CommitSaveStep == ASSUME IInv, NEW s \in Requests, CommitSave(s) PROVE IInv'
<1>1. /\ InTx(s) /\ pc' = [pc EXCEPT ![s] = "reading"]
      /\ records' = Committed(s) /\ writes' = [writes EXCEPT ![s] = NoWrites]
      /\ inserted' = [t \in Requests |->
                         IF InTx(t) /\ t # s THEN inserted[t] \cup PassedBy(s, t)
                         ELSE IF t = s THEN {} ELSE inserted[t]]
      /\ view' = [view EXCEPT ![s] = "list"]
      /\ page' = [page EXCEPT ![s] = Page(job[s].month)]
      /\ quiet' = [r \in Requests |-> r = s]
      /\ job' = [job EXCEPT ![s] = NoJob] /\ next' = [next EXCEPT ![s] = 1]
      /\ UNCHANGED linked
  BY DEF CommitSave, Goto, StartReading
<1>2. job[s].month \in Months /\ job[s].month # None
  BY <1>1, ValuesAssumption DEF IInv, SaveInv, Job
<1>3. TypeInv'
  <2>1. NoWrites \in [Indicators -> Values \cup {None, Untouched}]
    BY DEF NoWrites
  <2>2. Page(job[s].month) \in PageType
    BY <1>2, PageTyped
  <2>3. records' \in [Indicators \X Months -> Values \cup {None}]
    <3>1. DOMAIN records = Indicators \X Months
      BY DEF IInv, TypeInv
    <3>2. ASSUME NEW k \in Indicators \X Months
          PROVE  (IF k[2] = job[s].month /\ k[1] \in Written(s)
                  THEN writes[s][k[1]] ELSE records[k]) \in Values \cup {None}
      BY DEF IInv, TypeInv, Written
    <3> QED
      BY <1>1, <3>1, <3>2 DEF Committed
  <2>4. inserted' \in [Requests -> SUBSET Indicators]
    <3>1. \A t \in Requests : PassedBy(s, t) \subseteq Indicators
      BY DEF PassedBy, Written
    <3> QED
      BY <1>1, <3>1 DEF IInv, TypeInv
  <2>5. quiet' \in [Requests -> BOOLEAN]
    BY <1>1
  <2>6. /\ pc' \in [Requests -> {"idle", "inTx", "reading", "done"}]
        /\ job' \in [Requests -> Job \cup {NoJob}] /\ next' \in [Requests -> Nat \ {0}]
        /\ view' \in [Requests -> Kinds]
    BY <1>1 DEF IInv, TypeInv, Kinds
  <2>7. /\ writes' \in [Requests -> [Indicators -> Values \cup {None, Untouched}]]
        /\ page' \in [Requests -> PageType] /\ linked' \in SUBSET Indicators
    BY <1>1, <2>1, <2>2 DEF IInv, TypeInv
  <2> QED
    BY <2>3, <2>4, <2>5, <2>6, <2>7 DEF TypeInv
<1>4. /\ pc'[s] = "reading" /\ next'[s] = 1 /\ writes'[s] = NoWrites
      /\ view'[s] = "list" /\ page'[s] = Page(job[s].month)
      /\ \A t \in Requests \ {s} :
            /\ pc'[t] = pc[t] /\ job'[t] = job[t] /\ next'[t] = next[t]
            /\ writes'[t] = writes[t] /\ ~quiet'[t]
            /\ view'[t] = view[t] /\ page'[t] = page[t]
  BY <1>1 DEF IInv, TypeInv
<1>5. SaveInv(s)' /\ OrderInv(s)' /\ QuietInv(s)'
  BY <1>2, <1>4, NewPage DEF SaveInv, InTx
<1>6. ASSUME NEW t \in Requests \ {s} PROVE OrderInv(t)' /\ QuietInv(t)'
  BY <1>4 DEF IInv, OrderInv, QuietInv, FirstQueries
<1>7. ASSUME NEW t \in Requests \ {s} PROVE SaveInv(t)'
  <2> DEFINE changes == job[t].changes
  <2>1. CASE ~InTx(t)
    BY <1>4, <2>1 DEF IInv, SaveInv, InTx
  <2>2. CASE InTx(t)
    <3>1. /\ job[t] \in Job /\ Distinct(changes)
          /\ \A j \in Written(t) : \E k \in Applied(t) : changes[k] = <<j, writes[t][j]>>
          /\ \A k \in Applied(t) :
                \/ writes[t][changes[k][1]] = changes[k][2]
                \/ /\ changes[k][2] = None /\ writes[t][changes[k][1]] = Untouched
                   /\ \/ Stored(t, changes[k][1]) = None
                      \/ changes[k][1] \in inserted[t]
      BY <2>2 DEF IInv, SaveInv
    <3>2. InTx(t)' /\ job'[t] = job[t] /\ Applied(t)' = Applied(t) /\ Written(t)' = Written(t)
      BY <1>4, <2>2 DEF InTx, Applied, Written
    <3>3. inserted'[t] = inserted[t] \cup PassedBy(s, t)
      BY <1>1, <2>2
    <3>4. ASSUME NEW k \in Applied(t), changes[k][2] = None,
                 Stored(t, changes[k][1]) = None
          PROVE  \/ records'[changes[k][1], job[t].month] = None
                 \/ changes[k][1] \in PassedBy(s, t)
      <4> DEFINE i == changes[k][1]
      <4>1. /\ job[t].month \in Months /\ changes \in Lists
            /\ k \in DOMAIN changes /\ k \in Nat /\ 1 <= k /\ k < next[t]
            /\ changes[k] \in Change
        <5>1. job[t].month \in Months /\ changes \in Lists
          BY <3>1 DEF Job
        <5>2. k \in DOMAIN changes /\ k < next[t]
          BY DEF Applied
        <5> QED
          BY <5>1, <5>2, ListTyped
      <4>2. i \in Indicators /\ changes[k] = <<i, None>>
        BY <3>4, <4>1 DEF Change
      <4> HIDE DEF i
      <4>3. records'[i, job[t].month] =
               IF job[t].month = job[s].month /\ i \in Written(s)
               THEN writes[s][i] ELSE Stored(t, i)
        BY <1>1, <4>1, <4>2, CommittedRow DEF Stored
      <4>4. SUFFICES ASSUME records'[i, job[t].month] # None PROVE i \in PassedBy(s, t)
        BY DEF i
      <4>5. SameMonth(s, t) /\ i \in Written(s) /\ writes[s][i] # None /\ Stored(s, i) = None
        BY <3>4, <4>3, <4>4 DEF SameMonth, Stored, i
      <4>6. k \in 1..(next[t] - 1)
        BY <4>1 DEF IInv, TypeInv
      <4> QED
        BY <4>2, <4>5, <4>6 DEF PassedBy
    <3>5. ASSUME NEW k \in Applied(t)
          PROVE  \/ writes'[t][changes[k][1]] = changes[k][2]
                 \/ /\ changes[k][2] = None /\ writes'[t][changes[k][1]] = Untouched
                    /\ \/ records'[changes[k][1], job[t].month] = None
                       \/ changes[k][1] \in inserted'[t]
      <4>1. writes'[t] = writes[t]
        BY <1>4
      <4> QED
        BY <3>1, <3>3, <3>4, <3>5, <4>1
    <3>6. \A k \in Applied(t)' :
             LET i == job'[t].changes[k][1]
                 value == job'[t].changes[k][2]
             IN  \/ writes'[t][i] = value
                 \/ /\ value = None /\ writes'[t][i] = Untouched
                    /\ records'[i, job'[t].month] = None \/ i \in inserted'[t]
      BY <3>2, <3>5
    <3>7. \A j \in Written(t)' : \E k \in Applied(t)' : job'[t].changes[k] = <<j, writes'[t][j]>>
      BY <1>4, <3>1, <3>2
    <3>8. job'[t] \in Job /\ Distinct(job'[t].changes)
      BY <3>1, <3>2
    <3> HIDE DEF changes
    <3> QED
      BY <3>2, <3>6, <3>7, <3>8 DEF SaveInv, Stored
  <2> QED
    BY <2>1, <2>2
<1> QED
  BY <1>3, <1>5, <1>6, <1>7 DEF IInv

LEMMA ReceiveReadStep == ASSUME IInv, NEW q \in Requests, ReceiveRead(q) PROVE IInv'
<1> PICK kind \in Kinds, month \in Months \cup {None} :
        /\ month = None <=> kind = "latest"
        /\ Goto(q, "idle", "reading")
        /\ StartReading(q, kind, month)
        /\ quiet' = [quiet EXCEPT ![q] = TRUE]
        /\ UNCHANGED <<tables, saving>>
  BY DEF ReceiveRead
<1>1. /\ pc[q] = "idle" /\ pc' = [pc EXCEPT ![q] = "reading"]
      /\ view' = [view EXCEPT ![q] = kind] /\ page' = [page EXCEPT ![q] = Page(month)]
      /\ quiet' = [quiet EXCEPT ![q] = TRUE]
      /\ UNCHANGED <<linked, records, job, next, writes, inserted>>
  BY DEF Goto, StartReading, tables, saving
<1>2. TypeInv'
  BY <1>1, PageTyped DEF IInv, TypeInv
<1>3. /\ pc'[q] = "reading" /\ view'[q] = kind /\ page'[q] = Page(month)
      /\ \A t \in Requests \ {q} :
            /\ pc'[t] = pc[t] /\ view'[t] = view[t]
            /\ page'[t] = page[t] /\ quiet'[t] = quiet[t]
  BY <1>1 DEF IInv, TypeInv
<1>4. SaveInv(q)'
  BY <1>1, <1>3 DEF IInv, SaveInv, InTx
<1>5. OrderInv(q)' /\ QuietInv(q)'
  BY <1>3, NewPage
<1>6. \A t \in Requests \ {q} : SaveInv(t)' /\ OrderInv(t)' /\ QuietInv(t)'
  BY <1>1, <1>3, OtherSave, OtherPage DEF IInv
<1> QED
  BY <1>2, <1>4, <1>5, <1>6 DEF IInv

(* What one query leaves of a page, and what the others find unchanged.     *)
LEMMA ReadTyped ==
    ASSUME IInv, NEW r \in Requests, NEW query \in Queries, NEW needs,
           NEW new \in PageType, new.got = page[r].got, Read(r, query, needs, new)
    PROVE  /\ TypeInv'
           /\ pc[r] = "reading" /\ query \notin page[r].got /\ needs \subseteq page[r].got
           /\ page'[r] = [new EXCEPT !.got = page[r].got \cup {query}]
           /\ UNCHANGED <<linked, records, pc, view, quiet>>
           /\ \A t \in Requests : SaveInv(t)'
           /\ \A t \in Requests \ {r} : OrderInv(t)' /\ QuietInv(t)'
<1> DEFINE read == [new EXCEPT !.got = new.got \cup {query}]
<1>1. /\ pc[r] = "reading" /\ query \notin page[r].got /\ needs \subseteq page[r].got
      /\ page' = [page EXCEPT ![r] = read]
      /\ UNCHANGED <<linked, records, pc, job, next, writes, inserted, view, quiet>>
  BY DEF Read, tables, saving
<1>2. read \in PageType /\ read = [new EXCEPT !.got = page[r].got \cup {query}]
  BY DEF PageType
<1> HIDE DEF read
<1>3. TypeInv' /\ page'[r] = read /\ \A t \in Requests \ {r} : page'[t] = page[t]
  BY <1>1, <1>2 DEF IInv, TypeInv
<1>4. \A t \in Requests : SaveInv(t)'
  BY <1>1, OtherSave DEF IInv
<1>5. \A t \in Requests \ {r} : OrderInv(t)' /\ QuietInv(t)'
  BY <1>1, <1>3, OtherPage DEF IInv
<1> QED
  BY <1>1, <1>2, <1>3, <1>4, <1>5

LEMMA SameQueries ==
    ASSUME UNCHANGED <<linked, records>>
    PROVE  LatestMonth' = LatestMonth /\ \A m : ValuesOf(m)' = ValuesOf(m)
<1>1. Reported' = Reported
  BY DEF Reported
<1> QED
  BY <1>1 DEF LatestMonth, ValuesOf

LEMMA LatestTyped == LatestMonth \in Months \cup {None}
  BY LatestMonthFound DEF Reported

LEMMA FindActiveStep == ASSUME IInv, NEW r \in Requests, FindActive(r) PROVE IInv'
<1> DEFINE new == [page[r] EXCEPT !.indicators = linked]
<1>1. page[r] \in PageType
  BY DEF IInv, TypeInv
<1>2. /\ new \in PageType /\ new.got = page[r].got /\ new.indicators = linked
      /\ new.month = page[r].month /\ new.current = page[r].current
      /\ new.previous = page[r].previous
  BY <1>1 DEF IInv, TypeInv, PageType
<1>3. Read(r, "indicators", {}, new)
  BY DEF FindActive
<1> HIDE DEF new
<1>4. /\ TypeInv' /\ pc[r] = "reading"
      /\ page'[r] = [new EXCEPT !.got = page[r].got \cup {"indicators"}]
      /\ UNCHANGED <<linked, records, pc, view, quiet>>
      /\ \A t \in Requests : SaveInv(t)'
      /\ \A t \in Requests \ {r} : OrderInv(t)' /\ QuietInv(t)'
  BY <1>2, <1>3, ReadTyped DEF Queries
<1>5. /\ page'[r].got = page[r].got \cup {"indicators"} /\ page'[r].indicators = linked
      /\ page'[r].month = page[r].month /\ page'[r].current = page[r].current
      /\ page'[r].previous = page[r].previous
  BY <1>2, <1>4 DEF PageType
<1>6. OrderInv(r)'
  BY <1>4, <1>5 DEF IInv, OrderInv, FirstQueries
<1>7. QuietInv(r)'
  BY <1>4, <1>5, SameQueries DEF IInv, QuietInv
<1> QED
  BY <1>4, <1>6, <1>7 DEF IInv

LEMMA FindMonthStep == ASSUME IInv, NEW r \in Requests, FindMonth(r) PROVE IInv'
<1> DEFINE new == IF view[r] = "latest" THEN [page[r] EXCEPT !.month = LatestMonth]
                  ELSE page[r]
<1>1. page[r] \in PageType
  BY DEF IInv, TypeInv
<1>2. /\ new \in PageType /\ new.got = page[r].got /\ new.indicators = page[r].indicators
      /\ view[r] = "latest" => new.month = LatestMonth
      /\ view[r] # "latest" => new.month = page[r].month
  BY <1>1, LatestTyped DEF PageType
<1>3. Read(r, "month", {}, new) /\ view[r] # "list"
  BY DEF FindMonth
<1> HIDE DEF new
<1>4. /\ TypeInv' /\ pc[r] = "reading" /\ "month" \notin page[r].got
      /\ page'[r] = [new EXCEPT !.got = page[r].got \cup {"month"}]
      /\ UNCHANGED <<linked, records, pc, view, quiet>>
      /\ \A t \in Requests : SaveInv(t)'
      /\ \A t \in Requests \ {r} : OrderInv(t)' /\ QuietInv(t)'
  BY <1>2, <1>3, ReadTyped DEF Queries
<1>5. /\ page'[r].got = page[r].got \cup {"month"}
      /\ page'[r].indicators = page[r].indicators /\ page'[r].month = new.month
  BY <1>2, <1>4 DEF PageType
<1>6. page'[r].got \cap {"current", "previous"} = {}
  BY <1>3, <1>4, <1>5 DEF IInv, OrderInv, FirstQueries
<1>7. OrderInv(r)'
  BY <1>2, <1>4, <1>5, <1>6 DEF IInv, OrderInv
<1>8. QuietInv(r)'
  BY <1>2, <1>4, <1>5, <1>6, SameQueries DEF IInv, QuietInv
<1> QED
  BY <1>4, <1>7, <1>8 DEF IInv

LEMMA FindCurrentStep == ASSUME IInv, NEW r \in Requests, FindCurrent(r) PROVE IInv'
<1> DEFINE values == ValuesOf(page[r].month)
           new == [page[r] EXCEPT !.current = values]
<1>1. page[r] \in PageType
  BY DEF IInv, TypeInv
<1>2. /\ new \in PageType /\ new.got = page[r].got /\ new.indicators = page[r].indicators
      /\ new.month = page[r].month /\ new.current = values
      /\ new.previous = page[r].previous
  <2>1. values \in Cells
    BY ValuesTyped DEF IInv
  <2> HIDE DEF values
  <2> QED
    BY <1>1, <2>1 DEF PageType
<1>3. Read(r, "current", FirstQueries(r), new) /\ page[r].month # None
  BY DEF FindCurrent
<1> HIDE DEF new
<1>4. /\ TypeInv' /\ pc[r] = "reading" /\ FirstQueries(r) \subseteq page[r].got
      /\ page'[r] = [new EXCEPT !.got = page[r].got \cup {"current"}]
      /\ UNCHANGED <<linked, records, pc, view, quiet>>
      /\ \A t \in Requests : SaveInv(t)'
      /\ \A t \in Requests \ {r} : OrderInv(t)' /\ QuietInv(t)'
  BY <1>2, <1>3, ReadTyped DEF Queries
<1>5. /\ page'[r].got = page[r].got \cup {"current"}
      /\ page'[r].indicators = page[r].indicators /\ page'[r].month = page[r].month
      /\ page'[r].current = ValuesOf(page[r].month) /\ page'[r].previous = page[r].previous
  BY <1>2, <1>4 DEF PageType
<1>6. OrderInv(r)'
  BY <1>3, <1>4, <1>5 DEF IInv, OrderInv, FirstQueries
<1>7. /\ LatestMonth' = LatestMonth
      /\ ValuesOf(page[r].month)' = ValuesOf(page[r].month)
      /\ ValuesOf(PreviousMonth(page[r].month))' = ValuesOf(PreviousMonth(page[r].month))
  <2>1. page'[r].month = page[r].month
    BY <1>5
  <2> QED
    BY <1>4, <2>1, SameQueries DEF ValuesOf, PreviousMonth
<1>8. QuietInv(r)'
  BY <1>4, <1>5, <1>7 DEF IInv, QuietInv
<1> QED
  BY <1>4, <1>6, <1>8 DEF IInv

LEMMA FindPreviousStep == ASSUME IInv, NEW r \in Requests, FindPrevious(r) PROVE IInv'
<1> DEFINE values == ValuesOf(PreviousMonth(page[r].month))
           new == [page[r] EXCEPT !.previous = values]
<1>1. page[r] \in PageType
  BY DEF IInv, TypeInv
<1>2. /\ new \in PageType /\ new.got = page[r].got /\ new.indicators = page[r].indicators
      /\ new.month = page[r].month /\ new.current = page[r].current
      /\ new.previous = values
  <2>1. values \in Cells
    BY ValuesTyped DEF IInv
  <2> HIDE DEF values
  <2> QED
    BY <1>1, <2>1 DEF PageType
<1>3. Read(r, "previous", FirstQueries(r), new) /\ page[r].month # None
  BY DEF FindPrevious
<1> HIDE DEF new
<1>4. /\ TypeInv' /\ pc[r] = "reading" /\ FirstQueries(r) \subseteq page[r].got
      /\ page'[r] = [new EXCEPT !.got = page[r].got \cup {"previous"}]
      /\ UNCHANGED <<linked, records, pc, view, quiet>>
      /\ \A t \in Requests : SaveInv(t)'
      /\ \A t \in Requests \ {r} : OrderInv(t)' /\ QuietInv(t)'
  BY <1>2, <1>3, ReadTyped DEF Queries
<1>5. /\ page'[r].got = page[r].got \cup {"previous"}
      /\ page'[r].indicators = page[r].indicators /\ page'[r].month = page[r].month
      /\ page'[r].current = page[r].current
      /\ page'[r].previous = ValuesOf(PreviousMonth(page[r].month))
  BY <1>2, <1>4 DEF PageType
<1>6. OrderInv(r)'
  BY <1>3, <1>4, <1>5 DEF IInv, OrderInv, FirstQueries
<1>7. /\ LatestMonth' = LatestMonth
      /\ ValuesOf(page[r].month)' = ValuesOf(page[r].month)
      /\ ValuesOf(PreviousMonth(page[r].month))' = ValuesOf(PreviousMonth(page[r].month))
  <2>1. page'[r].month = page[r].month
    BY <1>5
  <2> QED
    BY <1>4, <2>1, SameQueries DEF ValuesOf, PreviousMonth
<1>8. QuietInv(r)'
  BY <1>4, <1>5, <1>7 DEF IInv, QuietInv
<1> QED
  BY <1>4, <1>6, <1>8 DEF IInv

LEMMA AnswerStep == ASSUME IInv, NEW r \in Requests, Answer(r) PROVE IInv'
<1>1. /\ pc[r] = "reading" /\ pc' = [pc EXCEPT ![r] = "done"]
      /\ view' = [view EXCEPT ![r] = "list"] /\ page' = [page EXCEPT ![r] = Page(None)]
      /\ quiet' = [quiet EXCEPT ![r] = FALSE]
      /\ UNCHANGED <<linked, records, job, next, writes, inserted>>
  BY DEF Answer, Goto, tables, saving
<1>2. TypeInv'
  <2>1. Page(None) \in PageType
    BY PageTyped
  <2> QED
    BY <1>1, <2>1 DEF IInv, TypeInv, Kinds
<1>3. /\ pc'[r] = "done"
      /\ \A t \in Requests \ {r} :
            /\ pc'[t] = pc[t] /\ view'[t] = view[t]
            /\ page'[t] = page[t] /\ quiet'[t] = quiet[t]
  BY <1>1 DEF IInv, TypeInv
<1>4. SaveInv(r)' /\ OrderInv(r)' /\ QuietInv(r)'
  BY <1>1, <1>3 DEF IInv, SaveInv, OrderInv, QuietInv, InTx
<1>5. \A t \in Requests \ {r} : SaveInv(t)' /\ OrderInv(t)' /\ QuietInv(t)'
  BY <1>1, <1>3, OtherSave, OtherPage DEF IInv
<1> QED
  BY <1>2, <1>4, <1>5 DEF IInv

LEMMA ReplaceLinksStep == ASSUME IInv, ReplaceLinks PROVE IInv'
<1>1. /\ linked' \in SUBSET Indicators /\ quiet' = [r \in Requests |-> FALSE]
      /\ UNCHANGED <<records, pc, job, next, writes, inserted, view, page>>
  BY DEF ReplaceLinks, Disturb, saving
<1>2. TypeInv'
  BY <1>1 DEF IInv, TypeInv
<1>3. \A t \in Requests : SaveInv(t)'
  BY <1>1, OtherSave DEF IInv
<1>4. \A t \in Requests : OrderInv(t)' /\ QuietInv(t)'
  BY <1>1 DEF IInv, OrderInv, QuietInv, FirstQueries
<1> QED
  BY <1>2, <1>3, <1>4 DEF IInv

LEMMA StepIInv == IInv /\ [Next]_vars => IInv'
<1> SUFFICES ASSUME IInv, [Next]_vars PROVE IInv'
  OBVIOUS
<1>1. ASSUME NEW s \in Requests,
             ReceiveSave(s) \/ RejectSave(s) \/ Working(s) \/ Abort(s)
      PROVE  IInv'
  BY <1>1, ReceiveSaveStep, RejectSaveStep, ApplyChangeStep, CommitSaveStep,
     RollbackStep DEF Working, DeadlockVictim, Abort
<1>2. ASSUME NEW r \in Requests, ReceiveRead(r) \/ ReadStep(r) PROVE IInv'
  BY <1>2, ReceiveReadStep, FindActiveStep, FindMonthStep, FindCurrentStep,
     FindPreviousStep, AnswerStep DEF ReadStep
<1>3. CASE ReplaceLinks
  BY <1>3, ReplaceLinksStep
<1>4. CASE UNCHANGED vars
  <2>1. UNCHANGED <<linked, records, pc, job, next, writes, inserted, view, page, quiet>>
    BY <1>4 DEF vars
  <2>2. TypeInv'
    BY <2>1 DEF IInv, TypeInv
  <2> QED
    BY <2>1, <2>2, OtherSave, OtherPage DEF IInv
<1> QED
  BY <1>1, <1>2, <1>3, <1>4 DEF Next

LEMMA AlwaysIInv == Spec => []IInv
  BY InitIInv, StepIInv, PTL DEF Spec

-----------------------------------------------------------------------------
(* The theorems *)

(* However many saves of a month interleave, and in whatever order each     *)
(* lists its indicators: one that commits leaves every value it lists, and  *)
(* only a removal may be undone, by a row another save had inserted and not *)
(* committed when the DELETE of saveMonth passed by it.                     *)
THEOREM SavesApplied == Spec => SaveApplied
<1>1. ASSUME IInv, NEW s \in Requests, CommitSave(s), NEW k \in DOMAIN job[s].changes
      PROVE  LET i == job[s].changes[k][1]
                 value == job[s].changes[k][2]
             IN  \/ records'[i, job[s].month] = value
                 \/ value = None /\ i \in inserted[s]
  <2> DEFINE i == job[s].changes[k][1]
             value == job[s].changes[k][2]
  <2>1. InTx(s) /\ next[s] \notin DOMAIN job[s].changes /\ records' = Committed(s)
    BY <1>1 DEF CommitSave, Pending
  <2>2. /\ job[s].month \in Months /\ job[s].changes \in Lists
        /\ next[s] \in Nat \ {0}
    BY <1>1, <2>1 DEF IInv, TypeInv, SaveInv, Job
  <2>3. k \in Applied(s) /\ job[s].changes[k] \in Change
    BY <2>1, <2>2, ListTyped DEF Applied
  <2>4. i \in Indicators /\ value \in Values \cup {None}
    BY <2>3 DEF Change
  <2>5. \/ writes[s][i] = value
        \/ /\ value = None /\ writes[s][i] = Untouched
           /\ Stored(s, i) = None \/ i \in inserted[s]
    BY <1>1, <2>1, <2>3 DEF IInv, SaveInv
  <2> HIDE DEF i, value
  <2>6. records'[i, job[s].month] = IF i \in Written(s) THEN writes[s][i] ELSE Stored(s, i)
    BY <1>1, <2>1, <2>2, <2>4, CommittedRow DEF Stored
  <2>7. records'[i, job[s].month] = value \/ (value = None /\ i \in inserted[s])
    <3>1. CASE writes[s][i] = value
      <4>1. value # Untouched
        BY <2>4, ValuesAssumption
      <4> QED
        BY <2>4, <2>6, <3>1, <4>1 DEF Written
    <3>2. CASE writes[s][i] = Untouched
      BY <2>4, <2>5, <2>6, <3>2, ValuesAssumption DEF Written
    <3> QED
      BY <2>5, <3>1, <3>2
  <2> QED
    BY <2>7 DEF i, value
<1>2. IInv /\ [Next]_vars =>
        [\A s \in Requests : CommitSave(s) =>
           \A k \in DOMAIN job[s].changes :
              LET i == job[s].changes[k][1]
                  value == job[s].changes[k][2]
              IN  \/ records'[i, job[s].month] = value
                  \/ value = None /\ i \in inserted[s]]_vars
  BY <1>1
<1> QED
  BY <1>2, AlwaysIInv, PTL DEF Spec, SaveApplied

(* Among any number of saves, two that wait for each other save the same    *)
(* month and list two of their indicators in opposite orders: each waits    *)
(* for a row the other wrote earlier in its own list.                       *)
THEOREM DeadlocksNeedOppositeOrders == Spec => []DeadlockNeedsOppositeOrders
<1>1. ASSUME IInv, NEW s \in Requests, NEW t \in Requests, WaitsFor(s, t)
      PROVE  /\ job[s].month = job[t].month /\ job[s].changes \in Lists
             /\ \E k \in DOMAIN job[t].changes :
                   /\ job[t].changes[k][1] = Target(s)
                   /\ Position(t, Target(s)) = k /\ k < next[t]
             /\ next[s] \in DOMAIN job[s].changes
             /\ Position(s, Target(s)) = next[s]
  <2>1. /\ InTx(s) /\ InTx(t) /\ next[s] \in DOMAIN job[s].changes
        /\ job[s].month = job[t].month /\ writes[t][Target(s)] # Untouched
    BY <1>1 DEF WaitsFor, Pending, Holds, SameMonth
  <2>2. /\ job[s].changes \in Lists /\ Distinct(job[s].changes)
        /\ job[t].changes \in Lists /\ Distinct(job[t].changes)
    BY <1>1, <2>1 DEF IInv, SaveInv, Job
  <2>3. Position(s, Target(s)) = next[s]
    BY <2>1, <2>2, PositionOf DEF Target
  <2>4. Target(s) \in Indicators
    <3>1. job[s].changes[next[s]] \in Change
      BY <2>1, <2>2, ListTyped
    <3> QED
      BY <3>1 DEF Change, Target
  <2>5. PICK k \in Applied(t) : job[t].changes[k] = <<Target(s), writes[t][Target(s)]>>
    BY <1>1, <2>1, <2>4 DEF IInv, SaveInv, Written
  <2>6. k \in DOMAIN job[t].changes /\ k < next[t] /\ job[t].changes[k][1] = Target(s)
    BY <2>5 DEF Applied
  <2>7. Position(t, Target(s)) = k
    BY <2>2, <2>6, PositionOf
  <2> QED
    BY <2>1, <2>2, <2>3, <2>6, <2>7
<1>2. ASSUME IInv, NEW s \in Requests, NEW t \in Requests,
             WaitsFor(s, t), WaitsFor(t, s)
      PROVE  /\ job[s].month = job[t].month
             /\ \E i, j \in Mentioned(job[s].changes) \cap Mentioned(job[t].changes) :
                   Position(s, i) < Position(s, j) /\ Position(t, j) < Position(t, i)
  <2>1. /\ Target(s) = job[s].changes[next[s]][1] /\ Target(t) = job[t].changes[next[t]][1]
    BY DEF Target
  <2>2. /\ job[s].month = job[t].month
        /\ Position(s, Target(s)) = next[s] /\ Position(t, Target(t)) = next[t]
        /\ Position(t, Target(s)) < next[t] /\ Position(s, Target(t)) < next[s]
    BY <1>1, <1>2
  <2>3. /\ Target(s) \in Mentioned(job[s].changes) \cap Mentioned(job[t].changes)
        /\ Target(t) \in Mentioned(job[s].changes) \cap Mentioned(job[t].changes)
    BY <1>1, <1>2, <2>1 DEF Mentioned
  <2> QED
    BY <2>2, <2>3
<1>3. IInv => DeadlockNeedsOppositeOrders
  BY <1>2 DEF DeadlockNeedsOppositeOrders
<1> QED
  BY <1>3, AlwaysIInv, PTL

(* For any set of months and any number of saves and replacements around    *)
(* it: a page nothing was committed under is exact.  In particular          *)
(* findLatestMonth finds a month with a value of a linked indicator, and    *)
(* Date.UTC the month that comes right before it, over the turn of a year.  *)
THEOREM QuietPagesAreExact == Spec => []QuietPageIsExact
<1>1. ASSUME IInv, NEW r \in Requests, pc[r] = "reading", Complete(r), quiet[r]
      PROVE  /\ page[r].indicators = linked
             /\ page[r].month \in Months \cup {None}
             /\ view[r] = "latest" => page[r].month = LatestMonth
             /\ page[r].month = None => view[r] = "latest"
             /\ page[r].month # None =>
                   /\ page[r].current = ValuesOf(page[r].month)
                   /\ view[r] # "list" =>
                         page[r].previous = ValuesOf(PreviousMonth(page[r].month))
  <2>1. page[r].month \in Months \cup {None} /\ view[r] \in Kinds
    BY <1>1 DEF IInv, TypeInv, PageType
  <2>2. OrderInv(r) /\ QuietInv(r)
    BY <1>1 DEF IInv
  <2>3. CASE view[r] = "list"
    BY <1>1, <2>1, <2>2, <2>3 DEF Complete, OrderInv, QuietInv
  <2>4. CASE view[r] # "list" /\ page[r].got = {"indicators", "month"} /\ page[r].month = None
    BY <1>1, <2>1, <2>2, <2>4 DEF OrderInv, QuietInv
  <2>5. CASE view[r] # "list" /\ page[r].got = {"indicators", "month", "current", "previous"}
    BY <1>1, <2>1, <2>2, <2>5 DEF OrderInv, QuietInv
  <2> QED
    BY <1>1, <2>3, <2>4, <2>5 DEF Complete
<1>2. ASSUME IInv, NEW r \in Requests, pc[r] = "reading", Complete(r), quiet[r],
             NEW i \in linked, NEW m \in Months
      PROVE  IF page[r].month = None THEN records[i, m] = None
             ELSE /\ m = page[r].month => page[r].current[i] = records[i, m]
                  /\ view[r] # "list" /\ Count(m) = Count(page[r].month) - 1
                     => page[r].previous[i] = records[i, m]
  <2>1. i \in Indicators
    BY <1>2 DEF IInv, TypeInv
  <2>2. \A n \in Months : ValuesOf(n)[i] = records[i, n]
    BY <2>1 DEF ValuesOf
  <2>3. CASE page[r].month = None
    <3>1. LatestMonth = None
      BY <1>1, <1>2, <2>3
    <3>2. Reported = {}
      BY <3>1, LatestMonthFound, ValuesAssumption DEF Reported
    <3> QED
      BY <1>2, <2>3, <3>2 DEF Reported
  <2>4. CASE page[r].month # None
    <3>1. /\ page[r].month \in Months /\ page[r].current = ValuesOf(page[r].month)
          /\ view[r] # "list" => page[r].previous = ValuesOf(PreviousMonth(page[r].month))
      BY <1>1, <1>2, <2>4
    <3>2. Count(m) = Count(page[r].month) - 1 => PreviousMonth(page[r].month) = m
      BY <3>1, PreviousMonthCounts
    <3> QED
      BY <2>2, <2>4, <3>1, <3>2
  <2> QED
    BY <2>3, <2>4
<1>3. IInv => PageIsStored
  BY <1>1, <1>2 DEF PageIsStored
<1>4. ASSUME IInv, NEW r \in Requests, pc[r] = "reading", Complete(r), quiet[r],
             view[r] = "latest", page[r].month # None
      PROVE  \E i \in page[r].indicators : page[r].current[i] # None
  <2>1. /\ page[r].month = LatestMonth /\ page[r].indicators = linked
        /\ page[r].current = ValuesOf(page[r].month)
    BY <1>1, <1>4
  <2>2. page[r].month \in Reported
    BY <1>4, <2>1, LatestMonthFound
  <2>3. PICK i \in linked : records[i, page[r].month] # None
    BY <2>2 DEF Reported
  <2>4. i \in Indicators /\ page[r].month \in Months
    BY <1>4, <2>2 DEF IInv, TypeInv, Reported
  <2>5. page[r].current[i] = records[i, page[r].month]
    BY <2>1, <2>4 DEF ValuesOf
  <2> QED
    BY <2>1, <2>3, <2>5
<1>5. IInv => QuietPageIsExact
  BY <1>3, <1>4 DEF QuietPageIsExact, FoundMonthIsNotEmpty
<1> QED
  BY <1>5, AlwaysIInv, PTL
=============================================================================
