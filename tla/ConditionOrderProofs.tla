------------------------ MODULE ConditionOrderProofs ------------------------
(* Theorems about ConditionOrder, for any number of requests, licenses,     *)
(* descriptors and rows, and about LicenseExtraction, which suggests        *)
(* conditions to start from, for any answers of the model.                  *)
EXTENDS ConditionOrder, LicenseExtraction, FiniteSetTheorems,
        SequenceTheorems, WellFoundedInduction, TLAPS

-----------------------------------------------------------------------------
(* The inductive invariant *)

Row == [license : Licenses, descriptor : Descriptors, position : Nat,
        created : Nat, batch : Nat, seen : Nat, source : Nat,
        moved : BOOLEAN, live : BOOLEAN]

AppendJob == [kind : {"append"}, license : Licenses, descriptors : Batches,
              position : Nat, seen : Nat]

MoveJob == [kind : {"move"}, license : Licenses, row : Nat,
            descriptor : Descriptors, position : Nat, seen : Nat]

TypeInv ==
    /\ rows \in Seq(Row)
    /\ pc \in [Requests -> {"idle", "read", "done", "failed"}]
    /\ job \in [Requests -> {NoJob} \cup AppendJob \cup MoveJob]

(* There is a highest position and a latest stamp. *)
BoundInv ==
    \E n \in Nat : \A i \in 1..Len(rows) :
        rows[i].position <= n /\ rows[i].created <= n

(* An insert is named by the rows before it, and has read some of them. *)
InsertInv ==
    \A i \in 1..Len(rows) : rows[i].batch < i /\ rows[i].seen < i

Holds(i, l) == rows[i].live /\ rows[i].license = l

(* The position an open request computed is still past every row it saw: an *)
(* append's, past those that have not been moved since, a move's past all   *)
(* of them, as another move of the license would have made it fail.         *)
AppendInv(r) ==
    /\ job[r] \in AppendJob
    /\ job[r].seen <= Len(rows)
    /\ \A i \in 1..job[r].seen :
          Holds(i, job[r].license) /\ ~rows[i].moved
          => rows[i].position < job[r].position

MoveInv(r) ==
    /\ job[r] \in MoveJob
    /\ job[r].seen <= Len(rows)
    /\ job[r].row \in 1..Len(rows)
    /\ rows[job[r].row].license = job[r].license
    /\ \A i \in 1..job[r].seen :
          Holds(i, job[r].license) => rows[i].position < job[r].position

JobInv == \A r \in Requests : pc[r] = "read" => AppendInv(r) \/ MoveInv(r)

IInv ==
    /\ TypeInv
    /\ BoundInv
    /\ InsertInv
    /\ JobInv
    /\ BatchOrder
    /\ AfterWhatItRead

-----------------------------------------------------------------------------
(* The highest position *)

LEMMA MaxReached ==
    ASSUME NEW S \in SUBSET Nat, S # {}, NEW n \in Nat, \A x \in S : x <= n
    PROVE  Max(S) \in S /\ \A x \in S : x <= Max(S)
<1> DEFINE Bounds == {m \in Nat : \A x \in S : x <= m}
<1>1. PICK u \in Bounds : \A m \in Bounds : <<m, u>> \notin OpToRel(<, Nat)
  <2>1. n \in Bounds /\ Bounds \subseteq Nat
    OBVIOUS
  <2> HIDE DEF Bounds
  <2> QED
    BY <2>1, WFMin, NatLessThanWellFounded
<1>2. \A m \in Nat : m < u => \E x \in S : ~(x <= m)
  BY <1>1 DEF OpToRel
<1>3. u \in S
  <2> SUFFICES ASSUME u \notin S PROVE FALSE
    OBVIOUS
  <2>1. \A x \in S : x < u
    OBVIOUS
  <2>2. u - 1 \in Nat /\ u - 1 < u
    <3>1. PICK x \in S : x < u
      BY <2>1
    <3> QED
      BY <3>1
  <2> QED
    BY <1>2, <2>1, <2>2
<1>4. \E x \in S : \A y \in S : x >= y
  BY <1>3
<1>5. Max(S) \in S /\ \A y \in S : Max(S) >= y
  BY <1>4 DEF Max
<1> QED
  BY <1>5

(* Where a request puts its first row: past every row of the license, and   *)
(* nowhere before 1.                                                        *)
LEMMA NextIsPast ==
    ASSUME TypeInv, BoundInv, NEW l
    PROVE  /\ NextPosition(l) \in Nat
           /\ \A i \in 1..Len(rows) :
                 Holds(i, l) => rows[i].position < NextPosition(l)
<1> DEFINE S == {0} \cup {rows[i].position : i \in RowsOf(l)}
<1>1. \A i \in 1..Len(rows) : rows[i] \in Row
  BY LenProperties DEF TypeInv
<1>2. RowsOf(l) = {i \in 1..Len(rows) : Holds(i, l)}
  BY LenProperties DEF TypeInv, RowsOf, Holds
<1>3. S \in SUBSET Nat /\ S # {}
  BY <1>1, <1>2 DEF Row
<1>4. PICK n \in Nat : \A x \in S : x <= n
  BY <1>2 DEF BoundInv
<1>5. Max(S) \in S /\ \A x \in S : x <= Max(S)
  BY <1>3, <1>4, MaxReached
<1>6. NextPosition(l) = Max(S) + 1
  BY DEF NextPosition
<1>7. \A i \in 1..Len(rows) :
         Holds(i, l) => rows[i].position \in S /\ rows[i].position \in Nat
  BY <1>1, <1>2 DEF Row
<1>8. Max(S) \in Nat
  BY <1>3, <1>5
<1> HIDE DEF S
<1> QED
  BY <1>5, <1>6, <1>7, <1>8

LEMMA StampTyped == TypeInv /\ BoundInv => LastStamp \in Nat
<1> SUFFICES ASSUME TypeInv, BoundInv PROVE LastStamp \in Nat
  OBVIOUS
<1> DEFINE S == {0} \cup {rows[i].created : i \in DOMAIN rows}
<1>1. \A i \in 1..Len(rows) : rows[i] \in Row
  BY LenProperties DEF TypeInv
<1>2. DOMAIN rows = 1..Len(rows)
  BY LenProperties DEF TypeInv
<1>3. S \in SUBSET Nat /\ S # {}
  BY <1>1, <1>2 DEF Row
<1>4. \E n \in Nat : \A x \in S : x <= n
  <2>1. PICK n \in Nat : \A i \in 1..Len(rows) : rows[i].created <= n
    BY DEF BoundInv
  <2>2. \A x \in S : x <= n
    BY <1>2, <2>1
  <2> QED
    BY <2>2
<1>5. Max(S) \in S
  BY <1>3, <1>4, MaxReached
<1> QED
  BY <1>3, <1>5 DEF LastStamp

LEMMA RowsTyped ==
    ASSUME TypeInv
    PROVE  /\ Len(rows) \in Nat
           /\ DOMAIN rows = 1..Len(rows)
           /\ \A i \in 1..Len(rows) : rows[i] \in Row
  BY LenProperties DEF TypeInv

-----------------------------------------------------------------------------
(* Inserting rows *)

(* What an append and the copies of a renewal have in common: rows on one   *)
(* license from some position on, past the unmoved rows the request saw.    *)
Inserts(l, first, stamp, seen, new) ==
    /\ new \in Seq(Row)
    /\ first \in Nat /\ stamp \in Nat
    /\ seen \in Nat /\ seen <= Len(rows)
    /\ \A k \in 1..Len(new) :
          /\ new[k].license = l
          /\ new[k].position = first + k - 1
          /\ new[k].created = stamp
          /\ new[k].batch = Len(rows)
          /\ new[k].seen = seen
    /\ \A i \in 1..seen :
          Holds(i, l) /\ ~rows[i].moved => rows[i].position < first
    /\ rows' = rows \o new

LEMMA InsertedRows ==
    ASSUME TypeInv, NEW l, NEW first, NEW stamp, NEW seen, NEW new,
           Inserts(l, first, stamp, seen, new)
    PROVE  /\ rows' \in Seq(Row)
           /\ Len(new) \in Nat
           /\ Len(rows') = Len(rows) + Len(new)
           /\ DOMAIN rows' = 1..Len(rows')
           /\ \A i \in 1..Len(rows) : rows'[i] = rows[i]
           /\ \A i \in 1..Len(rows') : i > Len(rows) =>
                 /\ i - Len(rows) \in 1..Len(new)
                 /\ rows'[i] = new[i - Len(rows)]
<1>1. /\ rows' \in Seq(Row)
      /\ Len(rows') = Len(rows) + Len(new)
      /\ \A i \in 1..Len(rows) + Len(new) :
            rows'[i] = IF i <= Len(rows) THEN rows[i] ELSE new[i - Len(rows)]
  BY ConcatProperties DEF Inserts, TypeInv
<1>2. Len(rows) \in Nat /\ Len(new) \in Nat /\ DOMAIN rows' = 1..Len(rows')
  BY <1>1, LenProperties DEF Inserts, TypeInv
<1> QED
  BY <1>1, <1>2

LEMMA InsertKeepsOrder ==
    ASSUME IInv, NEW l, NEW first, NEW stamp, NEW seen, NEW new,
           Inserts(l, first, stamp, seen, new)
    PROVE  BoundInv' /\ InsertInv' /\ BatchOrder' /\ AfterWhatItRead'
<1> DEFINE n == Len(rows)
<1>1. TypeInv /\ BoundInv /\ InsertInv /\ BatchOrder /\ AfterWhatItRead
  BY DEF IInv
<1>2. /\ n \in Nat /\ Len(new) \in Nat /\ Len(rows') = n + Len(new)
      /\ DOMAIN rows = 1..n /\ DOMAIN rows' = 1..Len(rows')
      /\ \A i \in 1..n : rows[i] \in Row /\ rows'[i] = rows[i]
  BY <1>1, InsertedRows, RowsTyped
<1>3. \A i \in 1..Len(rows') : i > n =>
         /\ rows'[i].license = l
         /\ rows'[i].position = first + (i - n) - 1
         /\ rows'[i].created = stamp
         /\ rows'[i].batch = n
         /\ rows'[i].seen = seen
  BY <1>1, InsertedRows DEF Inserts
<1>4. first \in Nat /\ stamp \in Nat /\ seen \in Nat /\ seen <= n
  BY DEF Inserts
<1> HIDE DEF n
<1>5. BoundInv'
  <2>1. PICK b \in Nat : \A i \in 1..n :
           rows[i].position <= b /\ rows[i].created <= b
    BY <1>1 DEF BoundInv, n
  <2> DEFINE c == b + first + Len(new) + stamp
  <2>2. c \in Nat
    BY <1>2, <1>4
  <2>3. ASSUME NEW i \in 1..Len(rows')
        PROVE  rows'[i].position <= c /\ rows'[i].created <= c
    <3>1. CASE i <= n
      <4>1. i \in 1..n
        BY <1>2, <3>1
      <4>2. rows[i].position \in Nat /\ rows[i].created \in Nat
        BY <1>2, <4>1 DEF Row
      <4> QED
        BY <1>2, <1>4, <2>1, <4>1, <4>2
    <3>2. CASE i > n
      BY <1>2, <1>3, <1>4, <3>2
    <3> QED
      BY <1>2, <3>1, <3>2
  <2> HIDE DEF c
  <2> QED
    BY <2>2, <2>3 DEF BoundInv
<1>6. InsertInv'
  <2> SUFFICES ASSUME NEW i \in 1..Len(rows')
               PROVE  rows'[i].batch < i /\ rows'[i].seen < i
    BY DEF InsertInv
  <2>1. CASE i <= n
    BY <1>1, <1>2, <2>1 DEF InsertInv, n
  <2>2. CASE i > n
    BY <1>2, <1>3, <1>4, <2>2
  <2> QED
    BY <1>2, <2>1, <2>2
<1>7. BatchOrder'
  <2> SUFFICES ASSUME NEW i \in 1..Len(rows'), NEW j \in 1..Len(rows'), i < j,
                      rows'[i].batch = rows'[j].batch,
                      ~rows'[i].moved, ~rows'[j].moved
               PROVE  Before(i, j)'
    BY <1>2 DEF BatchOrder
  <2>1. CASE j <= n
    <3>1. i \in 1..n /\ j \in 1..n
      BY <1>2, <2>1
    <3>2. Before(i, j)
      BY <1>1, <1>2, <3>1 DEF BatchOrder
    <3> QED
      BY <1>2, <3>1, <3>2 DEF Before
  <2>2. CASE j > n /\ i <= n
    <3>1. i \in 1..n /\ rows'[j].batch = n
      BY <1>2, <1>3, <2>2
    <3>2. rows[i].batch < i /\ rows[i].batch \in Nat
      BY <1>1, <1>2, <3>1 DEF InsertInv, Row, n
    <3> QED
      BY <1>2, <3>1, <3>2
  <2>3. CASE i > n /\ j > n
    BY <1>2, <1>3, <1>4, <2>3 DEF Before
  <2> QED
    BY <1>2, <2>1, <2>2, <2>3
<1>8. AfterWhatItRead'
  <2> SUFFICES ASSUME NEW m \in Licenses,
                      NEW i \in 1..Len(rows'), NEW j \in 1..Len(rows'),
                      rows'[i].live, rows'[i].license = m,
                      rows'[j].live, rows'[j].license = m,
                      i <= rows'[j].seen,
                      ~rows'[i].moved, ~rows'[j].moved
               PROVE  Before(i, j)'
    BY <1>2 DEF AfterWhatItRead, RowsOf
  <2>1. rows'[j].seen < j
    BY <1>6 DEF InsertInv
  <2>2. CASE j <= n
    <3>1. j \in 1..n /\ rows[j].seen \in Nat
      BY <1>2, <2>2 DEF Row
    <3>2. i \in 1..n
      BY <1>2, <2>1, <3>1
    <3>3. i \in RowsOf(m) /\ j \in RowsOf(m)
      BY <1>2, <3>1, <3>2 DEF RowsOf
    <3>4. Before(i, j)
      BY <1>1, <1>2, <3>1, <3>2, <3>3 DEF AfterWhatItRead
    <3> QED
      BY <1>2, <3>1, <3>2, <3>4 DEF Before
  <2>3. CASE j > n
    <3>1. /\ rows'[j].license = l /\ rows'[j].seen = seen
          /\ rows'[j].position = first + (j - n) - 1
      BY <1>3, <2>3
    <3>2. i \in 1..seen /\ i \in 1..n
      BY <1>2, <1>4, <3>1
    <3>3. Holds(i, l) /\ ~rows[i].moved
      BY <1>2, <3>1, <3>2 DEF Holds
    <3>4. rows[i].position < first /\ rows[i].position \in Nat
      BY <1>2, <3>2, <3>3 DEF Inserts, Row
    <3> QED
      BY <1>2, <1>4, <2>3, <3>1, <3>2, <3>4 DEF Before
  <2> QED
    BY <1>2, <2>2, <2>3
<1> QED
  BY <1>5, <1>6, <1>7, <1>8

-----------------------------------------------------------------------------
(* Rewriting a row *)

(* What a move and a deletion have in common: one row is rewritten, and     *)
(* unless it counts as moved now it stays where it was.                     *)
Rewrites(i, row) ==
    /\ i \in 1..Len(rows)
    /\ row \in Row
    /\ row.license = rows[i].license /\ row.created = rows[i].created
    /\ row.batch = rows[i].batch /\ row.seen = rows[i].seen
    /\ row.live => rows[i].live
    /\ ~row.moved => ~rows[i].moved /\ row.position = rows[i].position
    /\ rows' = [rows EXCEPT ![i] = row]

LEMMA RewrittenRows ==
    ASSUME TypeInv, NEW i, NEW row, Rewrites(i, row)
    PROVE  /\ rows' \in Seq(Row)
           /\ Len(rows') = Len(rows)
           /\ DOMAIN rows' = 1..Len(rows)
           /\ rows'[i] = row
           /\ \A j \in 1..Len(rows) : j # i => rows'[j] = rows[j]
<1>1. /\ rows' \in Seq(Row)
      /\ Len(rows') = Len(rows)
      /\ \A j \in 1..Len(rows) : rows'[j] = IF j = i THEN row ELSE rows[j]
  BY ExceptSeq DEF Rewrites, TypeInv
<1>2. DOMAIN rows' = 1..Len(rows')
  BY <1>1, LenProperties
<1> QED
  BY <1>1, <1>2 DEF Rewrites

LEMMA RewriteKeepsOrder ==
    ASSUME IInv, NEW i, NEW row, Rewrites(i, row)
    PROVE  BoundInv' /\ InsertInv' /\ BatchOrder' /\ AfterWhatItRead'
<1>1. TypeInv /\ BoundInv /\ InsertInv /\ BatchOrder /\ AfterWhatItRead
  BY DEF IInv
<1>2. /\ Len(rows) \in Nat /\ Len(rows') = Len(rows)
      /\ DOMAIN rows = 1..Len(rows) /\ DOMAIN rows' = 1..Len(rows)
      /\ \A j \in 1..Len(rows) : rows[j] \in Row
  BY <1>1, RewrittenRows, RowsTyped
<1>3. \A j \in 1..Len(rows) :
         /\ rows'[j].license = rows[j].license
         /\ rows'[j].created = rows[j].created
         /\ rows'[j].batch = rows[j].batch
         /\ rows'[j].seen = rows[j].seen
         /\ rows'[j].live => rows[j].live
         /\ ~rows'[j].moved => /\ ~rows[j].moved
                               /\ rows'[j].position = rows[j].position
  <2>1. rows'[i] = row /\ \A j \in 1..Len(rows) : j # i => rows'[j] = rows[j]
    BY <1>1, RewrittenRows
  <2> QED
    BY <2>1 DEF Rewrites
<1>4. BoundInv'
  <2>1. PICK b \in Nat : \A j \in 1..Len(rows) :
           rows[j].position <= b /\ rows[j].created <= b
    BY <1>1 DEF BoundInv
  <2>2. row.position \in Nat /\ b + row.position \in Nat
    BY DEF Rewrites, Row
  <2>3. rows'[i] = row /\ \A j \in 1..Len(rows) : j # i => rows'[j] = rows[j]
    BY <1>1, RewrittenRows
  <2>4. ASSUME NEW j \in 1..Len(rows)
        PROVE  /\ rows'[j].position <= b + row.position
               /\ rows'[j].created <= b + row.position
    <3>1. rows[j].position \in Nat /\ rows[j].created \in Nat
      BY <1>2 DEF Row
    <3>2. rows'[j].position = rows[j].position
          \/ rows'[j].position = row.position
      BY <2>3
    <3> QED
      BY <1>3, <2>1, <2>2, <3>1, <3>2
  <2> QED
    BY <1>2, <2>2, <2>4 DEF BoundInv
<1>5. InsertInv'
  BY <1>1, <1>2, <1>3 DEF InsertInv
<1>6. BatchOrder'
  BY <1>1, <1>2, <1>3 DEF BatchOrder, Before
<1>7. AfterWhatItRead'
  <2> SUFFICES ASSUME NEW m \in Licenses,
                      NEW j \in 1..Len(rows), NEW k \in 1..Len(rows),
                      rows'[j].live, rows'[j].license = m,
                      rows'[k].live, rows'[k].license = m,
                      j <= rows'[k].seen,
                      ~rows'[j].moved, ~rows'[k].moved
               PROVE  Before(j, k)'
    BY <1>2 DEF AfterWhatItRead, RowsOf
  <2>1. j \in RowsOf(m) /\ k \in RowsOf(m)
    BY <1>2, <1>3 DEF RowsOf
  <2>2. Before(j, k)
    BY <1>1, <1>3, <2>1 DEF AfterWhatItRead
  <2> QED
    BY <1>3, <2>2 DEF Before
<1> QED
  BY <1>4, <1>5, <1>6, <1>7

-----------------------------------------------------------------------------
(* Open requests *)

(* An open request keeps its promise while the rows it saw stay where they  *)
(* are, or, for an append, count as moved.                                  *)
LEMMA AppendInvKept ==
    ASSUME TypeInv, NEW r \in Requests, AppendInv(r), job'[r] = job[r],
           Len(rows') \in Nat, Len(rows) <= Len(rows'),
           \A i \in 1..Len(rows) :
              /\ rows'[i].license = rows[i].license
              /\ rows'[i].live => rows[i].live
              /\ ~rows'[i].moved => /\ ~rows[i].moved
                                    /\ rows'[i].position = rows[i].position
    PROVE  AppendInv(r)'
<1>1. Len(rows) \in Nat /\ job[r].seen \in Nat
  BY RowsTyped DEF AppendInv, AppendJob
<1> QED
  BY <1>1 DEF AppendInv, Holds

LEMMA MoveInvKept ==
    ASSUME TypeInv, NEW r \in Requests, MoveInv(r), job'[r] = job[r],
           Len(rows') \in Nat, Len(rows) <= Len(rows'),
           \A i \in 1..Len(rows) :
              /\ rows'[i].license = rows[i].license
              /\ rows'[i].live => rows[i].live
              /\ rows[i].license = job[r].license
                 => rows'[i].position = rows[i].position
    PROVE  MoveInv(r)'
<1>1. Len(rows) \in Nat /\ job[r].seen \in Nat /\ job[r].row \in Nat
  BY RowsTyped DEF MoveInv, MoveJob
<1> QED
  BY <1>1 DEF MoveInv, Holds

(* The kind of a job says which of the two it is. *)
LEMMA KindOfJob ==
    ASSUME JobInv, NEW r \in Requests, pc[r] = "read"
    PROVE  /\ job[r].kind = "append" => AppendInv(r)
           /\ job[r].kind = "move" => MoveInv(r)
           /\ job[r].kind \in {"append", "move"}
  BY DEF JobInv, AppendInv, MoveInv, AppendJob, MoveJob

LEMMA InsertKeepsJobs ==
    ASSUME IInv, NEW l, NEW first, NEW stamp, NEW seen, NEW new,
           Inserts(l, first, stamp, seen, new), UNCHANGED job,
           \A r \in Requests : pc'[r] = "read" => pc[r] = "read"
    PROVE  JobInv'
<1> SUFFICES ASSUME NEW r \in Requests, pc'[r] = "read"
             PROVE  AppendInv(r)' \/ MoveInv(r)'
  BY DEF JobInv
<1>1. TypeInv /\ JobInv /\ pc[r] = "read"
  BY DEF IInv
<1>2. /\ Len(rows) \in Nat /\ Len(rows') \in Nat /\ Len(rows) <= Len(rows')
      /\ \A i \in 1..Len(rows) : rows'[i] = rows[i]
  BY <1>1, RowsTyped, InsertedRows
<1>3. AppendInv(r) \/ MoveInv(r)
  BY <1>1 DEF JobInv
<1>4. CASE AppendInv(r)
  BY <1>1, <1>2, <1>4, AppendInvKept
<1>5. CASE MoveInv(r)
  BY <1>1, <1>2, <1>5, MoveInvKept
<1> QED
  BY <1>3, <1>4, <1>5

LEMMA RewriteKeepsJobs ==
    ASSUME IInv, NEW i, NEW row, Rewrites(i, row), UNCHANGED job,
           \A r \in Requests : pc'[r] = "read" =>
              /\ pc[r] = "read"
              /\ \/ row.position = rows[i].position
                 \/ ~OpenMove(r)
                 \/ job[r].license # rows[i].license
    PROVE  JobInv'
<1> SUFFICES ASSUME NEW r \in Requests, pc'[r] = "read"
             PROVE  AppendInv(r)' \/ MoveInv(r)'
  BY DEF JobInv
<1>1. TypeInv /\ JobInv /\ pc[r] = "read"
  BY DEF IInv
<1>2. /\ Len(rows) \in Nat /\ Len(rows') \in Nat /\ Len(rows) <= Len(rows')
      /\ rows'[i] = row
      /\ \A j \in 1..Len(rows) : j # i => rows'[j] = rows[j]
  BY <1>1, RowsTyped, RewrittenRows
<1>3. \A j \in 1..Len(rows) :
         /\ rows'[j].license = rows[j].license
         /\ rows'[j].live => rows[j].live
         /\ ~rows'[j].moved => /\ ~rows[j].moved
                               /\ rows'[j].position = rows[j].position
  BY <1>2 DEF Rewrites
<1>4. AppendInv(r) \/ MoveInv(r)
  BY <1>1 DEF JobInv
<1>5. CASE AppendInv(r)
  BY <1>1, <1>2, <1>3, <1>5, AppendInvKept
<1>6. CASE MoveInv(r)
  <2>1. OpenMove(r)
    BY <1>1, <1>6 DEF OpenMove, MoveInv, MoveJob
  <2>2. \A j \in 1..Len(rows) : rows[j].license = job[r].license
           => rows'[j].position = rows[j].position
    BY <1>2, <2>1
  <2> QED
    BY <1>1, <1>2, <1>3, <1>6, <2>2, MoveInvKept
<1> QED
  BY <1>4, <1>5, <1>6

-----------------------------------------------------------------------------
(* Every action is an insert, a rewrite, or touches no row *)

LEMMA InsertAppendInserts ==
    ASSUME IInv, NEW r \in Requests, NEW stamp \in {LastStamp, LastStamp + 1},
           InsertAppend(r, stamp)
    PROVE  \E new :
              /\ Inserts(job[r].license, job[r].position, stamp, job[r].seen, new)
              /\ \A k \in 1..Len(new) : new[k].source = 0
<1> DEFINE mine == job[r]
           new == [k \in DOMAIN mine.descriptors |->
                     NewRow(mine.license, mine.descriptors[k],
                            Placed(mine.position, k), stamp, mine.seen, 0)]
<1>1. /\ TypeInv /\ AppendInv(r) /\ mine \in AppendJob /\ Len(rows) \in Nat
      /\ stamp \in Nat
  BY KindOfJob, RowsTyped, StampTyped
     DEF IInv, InsertAppend, Advance, AppendInv
<1>2. PICK n \in 1..2 : mine.descriptors \in [1..n -> Descriptors]
  BY <1>1 DEF AppendJob, Batches
<1>3. /\ mine.license \in Licenses /\ mine.position \in Nat /\ mine.seen \in Nat
      /\ mine.seen <= Len(rows)
      /\ \A i \in 1..mine.seen :
            Holds(i, mine.license) /\ ~rows[i].moved
            => rows[i].position < mine.position
  BY <1>1 DEF AppendInv, AppendJob
<1>4. DOMAIN new = 1..n /\ n \in Nat
  BY <1>2
<1>5. \A k \in 1..n :
         /\ new[k] \in Row
         /\ new[k].license = mine.license
         /\ new[k].position = mine.position + k - 1
         /\ new[k].created = stamp
         /\ new[k].batch = Len(rows)
         /\ new[k].seen = mine.seen
         /\ new[k].source = 0
  BY <1>1, <1>2, <1>3 DEF NewRow, Placed, Row
<1>6. rows' = rows \o new
  BY DEF InsertAppend
<1> HIDE DEF mine
<1>7. new \in [1..n -> Row]
  BY <1>4, <1>5
<1> HIDE DEF new
<1>8. new \in Seq(Row) /\ Len(new) = n
  BY <1>4, <1>7, SeqDef, LenProperties
<1> QED
  BY <1>1, <1>3, <1>5, <1>6, <1>8 DEF Inserts, mine

LEMMA CopyInserts ==
    ASSUME IInv, NEW old \in Licenses, NEW new \in Licenses,
           NEW S \in SUBSET RowsOf(old),
           CopyToRenewal(old, new, S, LastStamp + 1)
    PROVE  \E sources \in Readings(S) : \E copies :
              /\ Inserts(new, NextPosition(new), LastStamp + 1, Len(rows), copies)
              /\ Len(copies) = Cardinality(S)
              /\ \A k \in 1..Len(copies) : copies[k].source = sources[k]
<1>1. PICK sources \in Sources(S) :
         rows' = rows \o
            [k \in DOMAIN sources |->
               NewRow(new, rows[sources[k]].descriptor,
                      Placed(NextPosition(new), k), LastStamp + 1, Len(rows),
                      sources[k])]
  BY DEF CopyToRenewal
<1> DEFINE copies ==
      [k \in DOMAIN sources |->
         NewRow(new, rows[sources[k]].descriptor,
                Placed(NextPosition(new), k), LastStamp + 1, Len(rows),
                sources[k])]
           n == Cardinality(S)
<1>2. /\ TypeInv /\ Len(rows) \in Nat /\ DOMAIN rows = 1..Len(rows)
      /\ \A i \in 1..Len(rows) : rows[i] \in Row
      /\ NextPosition(new) \in Nat /\ LastStamp + 1 \in Nat
  BY RowsTyped, NextIsPast, StampTyped DEF IInv
<1>3. S \subseteq 1..Len(rows)
  BY <1>2 DEF RowsOf
<1>4. n \in Nat
  <2>1. IsFiniteSet(1..Len(rows))
    BY <1>2, FS_Interval
  <2>2. IsFiniteSet(S)
    BY <1>3, <2>1, FS_Subset
  <2> QED
    BY <2>2, FS_CardinalityType
<1>5. sources \in [1..n -> S]
  BY DEF Sources, Readings, SetToSeqs
<1> HIDE DEF n
<1>6. DOMAIN copies = 1..n
  BY <1>5
<1>7. \A k \in 1..n :
         /\ copies[k] \in Row
         /\ copies[k].license = new
         /\ copies[k].position = NextPosition(new) + k - 1
         /\ copies[k].created = LastStamp + 1
         /\ copies[k].batch = Len(rows)
         /\ copies[k].seen = Len(rows)
         /\ copies[k].source = sources[k]
  <2> SUFFICES ASSUME NEW k \in 1..n PROVE
         /\ copies[k] \in Row
         /\ copies[k].license = new
         /\ copies[k].position = NextPosition(new) + k - 1
         /\ copies[k].created = LastStamp + 1
         /\ copies[k].batch = Len(rows)
         /\ copies[k].seen = Len(rows)
         /\ copies[k].source = sources[k]
    OBVIOUS
  <2>1. sources[k] \in 1..Len(rows)
    BY <1>3, <1>5
  <2>2. rows[sources[k]].descriptor \in Descriptors /\ sources[k] \in Nat
    BY <1>2, <2>1 DEF Row
  <2>3. copies[k] = NewRow(new, rows[sources[k]].descriptor,
                           Placed(NextPosition(new), k), LastStamp + 1,
                           Len(rows), sources[k])
    BY <1>5
  <2>4. Placed(NextPosition(new), k) = NextPosition(new) + k - 1
        /\ NextPosition(new) + k - 1 \in Nat
    BY <1>2, <1>4 DEF Placed
  <2> HIDE DEF copies
  <2>5. copies[k] =
           [license |-> new, descriptor |-> rows[sources[k]].descriptor,
            position |-> NextPosition(new) + k - 1, created |-> LastStamp + 1,
            batch |-> Len(rows), seen |-> Len(rows), source |-> sources[k],
            moved |-> FALSE, live |-> TRUE]
    BY <2>3, <2>4 DEF NewRow
  <2> QED
    BY <1>2, <2>2, <2>4, <2>5 DEF Row
<1>8. copies \in Seq(Row) /\ Len(copies) = n
  <2>1. copies \in [1..n -> Row]
    BY <1>6, <1>7
  <2> HIDE DEF copies
  <2> QED
    BY <1>4, <1>6, <2>1, SeqDef, LenProperties
<1>9. \A i \in 1..Len(rows) : rows[i].license # new
  BY <1>2 DEF CopyToRenewal
<1>10. Inserts(new, NextPosition(new), LastStamp + 1, Len(rows), copies)
  <2>1. rows' = rows \o copies
    BY <1>1
  <2>2. \A i \in 1..Len(rows) : Holds(i, new) => FALSE
    BY <1>9 DEF Holds
  <2> HIDE DEF copies
  <2>3. \A k \in 1..Len(copies) :
           /\ copies[k].license = new
           /\ copies[k].position = NextPosition(new) + k - 1
           /\ copies[k].created = LastStamp + 1
           /\ copies[k].batch = Len(rows)
           /\ copies[k].seen = Len(rows)
    BY <1>7, <1>8
  <2>4. Len(rows) <= Len(rows)
    BY <1>2
  <2>5. \A i \in 1..Len(rows) :
           Holds(i, new) /\ ~rows[i].moved
           => rows[i].position < NextPosition(new)
    BY <2>2
  <2> QED
    BY <1>2, <1>8, <2>1, <2>3, <2>4, <2>5, Zenon DEF Inserts
<1> HIDE DEF copies
<1> QED
  BY <1>7, <1>8, <1>10 DEF Sources, n

LEMMA CommitMoveRewrites ==
    ASSUME IInv, NEW r \in Requests, CommitMove(r)
    PROVE  /\ MoveInv(r)
           /\ Rewrites(job[r].row, Moved(rows[job[r].row], job[r].descriptor,
                                         job[r].position))
<1> DEFINE mine == job[r]
           row == Moved(rows[mine.row], mine.descriptor, mine.position)
<1>1. TypeInv /\ MoveInv(r) /\ mine \in MoveJob
  BY KindOfJob DEF IInv, CommitMove, OpenMove, MoveInv
<1>2. mine.row \in 1..Len(rows) /\ rows[mine.row] \in Row
  BY <1>1, RowsTyped DEF MoveInv
<1>3. mine.descriptor \in Descriptors /\ mine.position \in Nat
  BY <1>1 DEF MoveJob
<1>4. /\ row \in Row /\ row.moved
      /\ row.license = rows[mine.row].license
      /\ row.created = rows[mine.row].created
      /\ row.batch = rows[mine.row].batch
      /\ row.seen = rows[mine.row].seen
      /\ row.live = rows[mine.row].live
  BY <1>2, <1>3 DEF Moved, Row
<1>5. rows' = [rows EXCEPT ![mine.row] = row]
  BY <1>2, RowsTyped, <1>1 DEF CommitMove
<1> QED
  BY <1>1, <1>2, <1>4, <1>5 DEF Rewrites

LEMMA DeleteRewrites ==
    ASSUME IInv, NEW i \in DOMAIN rows, DeleteRow(i)
    PROVE  /\ Rewrites(i, [rows[i] EXCEPT !.live = FALSE])
           /\ [rows[i] EXCEPT !.live = FALSE].position = rows[i].position
<1>1. i \in 1..Len(rows) /\ rows[i] \in Row
  BY RowsTyped DEF IInv
<1>2. rows' = [rows EXCEPT ![i] = [rows[i] EXCEPT !.live = FALSE]]
  BY DEF DeleteRow
<1> QED
  BY <1>1, <1>2 DEF Rewrites, Row

-----------------------------------------------------------------------------
(* The invariant *)

LEMMA InitIInv == Init => IInv
<1> SUFFICES ASSUME Init PROVE IInv
  OBVIOUS
<1>1. PICK n \in 0..MaxLegacy :
         \E where \in [1..n -> Licenses], what \in [1..n -> Descriptors] :
            rows = [k \in 1..n |->
                      [license |-> where[k], descriptor |-> what[k],
                       position |-> 0, created |-> k, batch |-> k - 1,
                       seen |-> k - 1, source |-> 0, moved |-> FALSE,
                       live |-> TRUE]]
  BY DEF Init
<1> PICK where \in [1..n -> Licenses], what \in [1..n -> Descriptors] :
         rows = [k \in 1..n |->
                   [license |-> where[k], descriptor |-> what[k],
                    position |-> 0, created |-> k, batch |-> k - 1,
                    seen |-> k - 1, source |-> 0, moved |-> FALSE,
                    live |-> TRUE]]
  BY <1>1
<1>2. n \in Nat
  BY BoundsAssumption
<1>3. rows \in [1..n -> Row]
  BY <1>2 DEF Row
<1>4. rows \in Seq(Row) /\ Len(rows) = n /\ DOMAIN rows = 1..n
  BY <1>2, <1>3, SeqDef, LenProperties
<1>5. \A i \in 1..n :
         /\ rows[i].position = 0 /\ rows[i].created = i
         /\ rows[i].batch = i - 1 /\ rows[i].seen = i - 1
  OBVIOUS
<1>6. TypeInv
  BY <1>4 DEF Init, TypeInv
<1>7. BoundInv
  <2>1. \A i \in 1..Len(rows) : rows[i].position <= n /\ rows[i].created <= n
    BY <1>2, <1>4, <1>5
  <2> QED
    BY <1>2, <2>1 DEF BoundInv
<1>8. InsertInv
  BY <1>2, <1>4, <1>5 DEF InsertInv
<1>9. JobInv
  BY DEF Init, JobInv
<1>10. BatchOrder
  BY <1>2, <1>4, <1>5 DEF BatchOrder
<1>11. AfterWhatItRead
  BY <1>2, <1>4, <1>5 DEF AfterWhatItRead, RowsOf, Before
<1> QED
  BY <1>6, <1>7, <1>8, <1>9, <1>10, <1>11 DEF IInv

LEMMA InsertIInv ==
    ASSUME IInv, NEW l, NEW first, NEW stamp, NEW seen, NEW new,
           Inserts(l, first, stamp, seen, new), UNCHANGED job,
           pc' \in [Requests -> {"idle", "read", "done", "failed"}],
           \A r \in Requests : pc'[r] = "read" => pc[r] = "read"
    PROVE  IInv'
<1>1. TypeInv'
  BY InsertedRows DEF IInv, TypeInv
<1> QED
  BY <1>1, InsertKeepsOrder, InsertKeepsJobs DEF IInv

LEMMA RewriteIInv ==
    ASSUME IInv, NEW i, NEW row, Rewrites(i, row), UNCHANGED job,
           pc' \in [Requests -> {"idle", "read", "done", "failed"}],
           \A r \in Requests : pc'[r] = "read" =>
              /\ pc[r] = "read"
              /\ \/ row.position = rows[i].position
                 \/ ~OpenMove(r)
                 \/ job[r].license # rows[i].license
    PROVE  IInv'
<1>1. TypeInv'
  BY RewrittenRows DEF IInv, TypeInv
<1> QED
  BY <1>1, RewriteKeepsOrder, RewriteKeepsJobs DEF IInv

(* A request that leaves the rows alone disturbs its own job only. *)
LEMMA QuietIInv ==
    ASSUME IInv, UNCHANGED rows,
           pc' \in [Requests -> {"idle", "read", "done", "failed"}],
           job' \in [Requests -> {NoJob} \cup AppendJob \cup MoveJob],
           \A r \in Requests : pc'[r] = "read" =>
              \/ pc[r] = "read" /\ job'[r] = job[r]
              \/ AppendInv(r)'
              \/ MoveInv(r)'
    PROVE  IInv'
<1>1. TypeInv /\ BoundInv /\ InsertInv /\ JobInv /\ BatchOrder /\ AfterWhatItRead
  BY DEF IInv
<1>2. TypeInv' /\ BoundInv' /\ InsertInv'
  BY <1>1 DEF TypeInv, BoundInv, InsertInv
<1>3. BatchOrder' /\ AfterWhatItRead'
  BY <1>1 DEF BatchOrder, AfterWhatItRead, RowsOf, Before
<1>4. JobInv'
  BY <1>1 DEF JobInv, AppendInv, MoveInv, Holds
<1> QED
  BY <1>2, <1>3, <1>4 DEF IInv

LEMMA RequestIInv ==
    ASSUME IInv, NEW r \in Requests,
           \/ \E l \in Licenses, descriptors \in Batches :
                 BeginAppend(r, l, descriptors)
           \/ \E stamp \in {LastStamp, LastStamp + 1} : InsertAppend(r, stamp)
           \/ \E i \in DOMAIN rows, descriptor \in Descriptors :
                 BeginMove(r, i, descriptor)
           \/ CommitMove(r)
           \/ Fail(r)
    PROVE  IInv'
<1>1. /\ TypeInv /\ BoundInv /\ JobInv
      /\ Len(rows) \in Nat /\ DOMAIN rows = 1..Len(rows)
      /\ \A i \in 1..Len(rows) : rows[i] \in Row
  BY RowsTyped DEF IInv
<1>2. /\ pc \in [Requests -> {"idle", "read", "done", "failed"}]
      /\ job \in [Requests -> {NoJob} \cup AppendJob \cup MoveJob]
  BY <1>1 DEF TypeInv
<1>3. ASSUME NEW l \in Licenses, NEW descriptors \in Batches,
             BeginAppend(r, l, descriptors)
      PROVE  IInv'
  <2> DEFINE mine == [kind |-> "append", license |-> l,
                      descriptors |-> descriptors,
                      position |-> NextPosition(l), seen |-> Len(rows)]
  <2>1. /\ mine \in AppendJob /\ mine.license = l
        /\ mine.seen = Len(rows) /\ mine.position = NextPosition(l)
    BY <1>1, NextIsPast DEF AppendJob
  <2>2. job' = [job EXCEPT ![r] = mine]
    BY <1>3 DEF BeginAppend
  <2>3. /\ pc' = [pc EXCEPT ![r] = "read"] /\ UNCHANGED rows
    BY <1>3 DEF BeginAppend, Advance
  <2> HIDE DEF mine
  <2>4. AppendInv(r)'
    BY <1>1, <1>2, <2>1, <2>2, <2>3, NextIsPast DEF AppendInv, Holds
  <2> QED
    BY <1>2, <2>1, <2>2, <2>3, <2>4, QuietIInv
<1>4. ASSUME NEW stamp \in {LastStamp, LastStamp + 1}, InsertAppend(r, stamp)
      PROVE  IInv'
  <2>1. /\ pc' \in [Requests -> {"idle", "read", "done", "failed"}]
        /\ \A q \in Requests : pc'[q] = "read" => pc[q] = "read"
        /\ UNCHANGED job
    BY <1>2, <1>4 DEF InsertAppend, Advance
  <2> QED
    BY <1>4, <2>1, InsertAppendInserts, InsertIInv
<1>5. ASSUME NEW i \in DOMAIN rows, NEW descriptor \in Descriptors,
             BeginMove(r, i, descriptor)
      PROVE  IInv'
  <2> DEFINE l == rows[i].license
             mine == [kind |-> "move", license |-> l, row |-> i,
                      descriptor |-> descriptor,
                      position |-> NextPosition(l), seen |-> Len(rows)]
  <2>1. i \in 1..Len(rows) /\ l \in Licenses
    BY <1>1 DEF Row
  <2>2. /\ mine \in MoveJob /\ mine.license = l /\ mine.row = i
        /\ mine.seen = Len(rows) /\ mine.position = NextPosition(l)
    BY <1>1, <2>1, NextIsPast DEF MoveJob
  <2>3. job' = [job EXCEPT ![r] = mine]
    BY <1>5 DEF BeginMove
  <2>4. /\ pc' = [pc EXCEPT ![r] = "read"] /\ UNCHANGED rows
    BY <1>5 DEF BeginMove, Advance
  <2> HIDE DEF mine
  <2>5. MoveInv(r)'
    BY <1>1, <1>2, <2>1, <2>2, <2>3, <2>4, NextIsPast DEF MoveInv, Holds
  <2> QED
    BY <1>2, <2>2, <2>3, <2>4, <2>5, QuietIInv
<1>6. CASE CommitMove(r)
  <2> DEFINE row == Moved(rows[job[r].row], job[r].descriptor, job[r].position)
  <2>1. MoveInv(r) /\ Rewrites(job[r].row, row)
    BY <1>6, CommitMoveRewrites
  <2>2. /\ pc' \in [Requests -> {"idle", "read", "done", "failed"}]
        /\ UNCHANGED job
    BY <1>2, <1>6 DEF CommitMove
  <2>3. \A q \in Requests : pc'[q] = "read" =>
           pc[q] = "read" /\ q \notin MovesOn(job[r].license)
    BY <1>6 DEF CommitMove
  <2>4. \A q \in Requests : pc'[q] = "read" =>
           ~OpenMove(q) \/ job[q].license # rows[job[r].row].license
    BY <2>1, <2>3 DEF MovesOn, MoveInv
  <2> HIDE DEF row
  <2> QED
    BY <2>1, <2>2, <2>3, <2>4, RewriteIInv
<1>7. CASE Fail(r)
  <2>1. /\ UNCHANGED <<rows, job>>
        /\ pc' \in [Requests -> {"idle", "read", "done", "failed"}]
        /\ \A q \in Requests : pc'[q] = "read" => pc[q] = "read"
    BY <1>2, <1>7 DEF Fail, Advance
  <2> QED
    BY <1>2, <2>1, QuietIInv
<1> QED
  BY <1>3, <1>4, <1>5, <1>6, <1>7

LEMMA StepIInv == IInv /\ [Next]_vars => IInv'
<1> SUFFICES ASSUME IInv, [Next]_vars PROVE IInv'
  OBVIOUS
<1>1. /\ pc \in [Requests -> {"idle", "read", "done", "failed"}]
      /\ job \in [Requests -> {NoJob} \cup AppendJob \cup MoveJob]
  BY DEF IInv, TypeInv
<1>2. ASSUME NEW i \in DOMAIN rows, DeleteRow(i) PROVE IInv'
  <2>1. /\ pc' \in [Requests -> {"idle", "read", "done", "failed"}]
        /\ \A q \in Requests : pc'[q] = "read" => pc[q] = "read"
        /\ UNCHANGED job
    BY <1>1, <1>2 DEF DeleteRow, Refuse
  <2> QED
    BY <1>2, <2>1, DeleteRewrites, RewriteIInv
<1>3. ASSUME NEW old \in Licenses, NEW new \in Licenses,
             NEW S \in SUBSET RowsOf(old),
             CopyToRenewal(old, new, S, LastStamp + 1)
      PROVE  IInv'
  <2>1. /\ pc' \in [Requests -> {"idle", "read", "done", "failed"}]
        /\ \A q \in Requests : pc'[q] = "read" => pc[q] = "read"
        /\ UNCHANGED job
    BY <1>1, <1>3 DEF CopyToRenewal, Refuse
  <2> QED
    BY <1>3, <2>1, CopyInserts, InsertIInv
<1>4. CASE UNCHANGED vars
  BY <1>1, <1>4, QuietIInv DEF vars
<1> QED
  BY <1>2, <1>3, <1>4, RequestIInv DEF Next

LEMMA AlwaysIInv == Spec => []IInv
  BY InitIInv, StepIInv, PTL DEF Spec

-----------------------------------------------------------------------------
(* The theorems *)

(* However many requests append, move, delete and copy at once, the rows of *)
(* one insert stay in the order they were given in, and after every row of  *)
(* the license the request saw, until one of them is moved:                 *)
(* withNextPositions takes no lock, but what it does not see is only what   *)
(* was inserted or moved after its read.                                    *)
THEOREM AppendsStayInOrder == Spec => []AppendsInOrder
<1>1. IInv => AppendsInOrder
  BY DEF IInv, AppendsInOrder
<1> QED
  BY <1>1, AlwaysIInv, PTL

LEMMA OnlyMovesFinishMoves ==
    ASSUME IInv, [Next]_vars, NEW r \in Requests, OpenMove(r), pc'[r] = "done"
    PROVE  CommitMove(r)
<1>1. /\ pc \in [Requests -> {"idle", "read", "done", "failed"}]
      /\ pc[r] = "read" /\ job[r].kind = "move"
  BY DEF IInv, TypeInv, OpenMove
<1>2. ASSUME NEW q \in Requests,
             \/ \E l \in Licenses, descriptors \in Batches :
                   BeginAppend(q, l, descriptors)
             \/ \E stamp \in {LastStamp, LastStamp + 1} : InsertAppend(q, stamp)
             \/ \E i \in DOMAIN rows, descriptor \in Descriptors :
                   BeginMove(q, i, descriptor)
             \/ CommitMove(q)
             \/ Fail(q)
      PROVE  CommitMove(r)
  BY <1>1, <1>2
     DEF BeginAppend, InsertAppend, BeginMove, CommitMove, Fail, Advance
<1>3. ASSUME NEW i \in DOMAIN rows, DeleteRow(i) PROVE FALSE
  BY <1>1, <1>3 DEF DeleteRow, Refuse
<1>4. ASSUME NEW old \in Licenses, NEW new \in Licenses,
             NEW S \in SUBSET RowsOf(old),
             CopyToRenewal(old, new, S, LastStamp + 1)
      PROVE  FALSE
  BY <1>1, <1>4 DEF CopyToRenewal, Refuse
<1>5. CASE UNCHANGED vars
  BY <1>1, <1>5 DEF vars
<1> QED
  BY <1>2, <1>3, <1>4, <1>5 DEF Next

(* Of any number of moves and appends on a license, one that commits puts   *)
(* its row behind every other the request saw, the rows other requests      *)
(* moved meanwhile included: those moves would have made it fail.           *)
THEOREM MovedBehindAll == Spec => MovedLast
<1> DEFINE EndsLast(r) ==
      \A i \in RowsOf(job[r].license) :
         i # job[r].row /\ i <= job[r].seen => Before(i, job[r].row)'
<1>1. IInv /\ [Next]_vars =>
        [\A r \in Requests : OpenMove(r) /\ pc'[r] = "done" => EndsLast(r)]_vars
  <2> SUFFICES ASSUME IInv, [Next]_vars, NEW r \in Requests, OpenMove(r),
                      pc'[r] = "done", NEW i \in RowsOf(job[r].license),
                      i # job[r].row, i <= job[r].seen
               PROVE  Before(i, job[r].row)'
    OBVIOUS
  <2> DEFINE mine == job[r]
             row == Moved(rows[mine.row], mine.descriptor, mine.position)
  <2>1. CommitMove(r) /\ TypeInv
    BY OnlyMovesFinishMoves DEF IInv
  <2>2. MoveInv(r) /\ Rewrites(mine.row, row) /\ UNCHANGED job
    BY <2>1, CommitMoveRewrites DEF CommitMove
  <2>3. /\ i \in 1..Len(rows) /\ Holds(i, mine.license)
        /\ rows[i] \in Row /\ rows[mine.row] \in Row
    BY <2>1, <2>2, RowsTyped DEF RowsOf, Holds, MoveInv
  <2>4. rows[i].position < mine.position
    BY <2>2, <2>3 DEF MoveInv, MoveJob
  <2>5. rows'[i] = rows[i] /\ rows'[mine.row] = row
    BY <2>1, <2>2, <2>3, RewrittenRows
  <2>6. row.position = mine.position
    BY <2>3 DEF Moved, Row
  <2> HIDE DEF row
  <2> QED
    BY <2>2, <2>4, <2>5, <2>6 DEF Before
<1> QED
  BY <1>1, AlwaysIInv, PTL DEF Spec, MovedLast

(* The copies on a renewed license are read as the conditions they copy:    *)
(* whatever order the query picks among ties, it keeps the certain ones,    *)
(* and the copies are numbered in it.                                       *)
THEOREM CopiesStayInOrder == Spec => CopiesKeepOrder
<1> DEFINE Kept ==
      \A i, j \in Len(rows) + 1 .. Len(rows') :
         LET a == rows'[i].source
             b == rows'[j].source
         IN a # 0 /\ b # 0 => (Before(a, b) => Before(i, j)')
<1>1. IInv /\ [Next]_vars => [Kept]_vars
  <2> SUFFICES ASSUME IInv, [Next]_vars PROVE Kept
    OBVIOUS
  <2>1. TypeInv /\ Len(rows) \in Nat
    BY RowsTyped DEF IInv
  <2>2. Len(rows') = Len(rows) => Kept
    BY <2>1
  <2>3. ASSUME NEW r \in Requests, NEW stamp \in {LastStamp, LastStamp + 1},
               InsertAppend(r, stamp)
        PROVE  Kept
    <3>1. PICK new :
             /\ Inserts(job[r].license, job[r].position, stamp, job[r].seen, new)
             /\ \A k \in 1..Len(new) : new[k].source = 0
      BY <2>3, InsertAppendInserts
    <3>2. \A i \in Len(rows) + 1 .. Len(rows') : rows'[i].source = 0
      BY <2>1, <3>1, InsertedRows
    <3> QED
      BY <3>2
  <2>4. ASSUME NEW old \in Licenses, NEW new \in Licenses,
               NEW S \in SUBSET RowsOf(old),
               CopyToRenewal(old, new, S, LastStamp + 1)
        PROVE  Kept
    <3>1. PICK sources \in Readings(S) : \E copies :
             /\ Inserts(new, NextPosition(new), LastStamp + 1, Len(rows), copies)
             /\ Len(copies) = Cardinality(S)
             /\ \A k \in 1..Len(copies) : copies[k].source = sources[k]
      BY <2>4, CopyInserts
    <3>2. PICK copies :
             /\ Inserts(new, NextPosition(new), LastStamp + 1, Len(rows), copies)
             /\ Len(copies) = Cardinality(S)
             /\ \A k \in 1..Len(copies) : copies[k].source = sources[k]
      BY <3>1
    <3>3. /\ DOMAIN sources = 1..Len(copies)
          /\ \A k, m \in 1..Len(copies) :
                Before(sources[k], sources[m]) => k < m
      BY <3>2 DEF Readings, SetToSeqs
    <3>4. \A i \in Len(rows) + 1 .. Len(rows') :
             /\ i - Len(rows) \in 1..Len(copies)
             /\ rows'[i].source = sources[i - Len(rows)]
             /\ rows'[i].position = NextPosition(new) + (i - Len(rows)) - 1
      BY <2>1, <3>2, InsertedRows DEF Inserts
    <3>5. NextPosition(new) \in Nat
      BY <3>2 DEF Inserts
    <3>6. ASSUME NEW i \in Len(rows) + 1 .. Len(rows'),
                 NEW j \in Len(rows) + 1 .. Len(rows'),
                 Before(rows'[i].source, rows'[j].source)
          PROVE  Before(i, j)'
      <4>1. i - Len(rows) < j - Len(rows)
        BY <3>3, <3>4, <3>6
      <4> QED
        BY <2>1, <3>4, <3>5, <4>1 DEF Before
    <3> QED
      BY <3>6
  <2>5. ASSUME NEW r \in Requests, CommitMove(r) PROVE Kept
    BY <2>1, <2>2, <2>5, CommitMoveRewrites, RewrittenRows
  <2>6. ASSUME NEW i \in DOMAIN rows, DeleteRow(i) PROVE Kept
    BY <2>1, <2>2, <2>6, DeleteRewrites, RewrittenRows
  <2>7. ASSUME UNCHANGED rows PROVE Kept
    BY <2>2, <2>7
  <2> QED
    BY <2>3, <2>4, <2>5, <2>6, <2>7 DEF Next, BeginAppend, BeginMove, Fail, vars
<1> QED
  BY <1>1, AlwaysIInv, PTL DEF Spec, CopiesKeepOrder

(* Induction over the numbers up to n, on the set of those that hold. *)
LEMMA Upwards ==
    ASSUME NEW n \in Nat, NEW S, 0 \in S,
           \A k \in 0..n : k # n /\ k \in S => k + 1 \in S
    PROVE  \A k \in 0..n : k \in S
<1> DEFINE Bad == {k \in 0..n : k \notin S}
<1> SUFFICES ASSUME Bad # {} PROVE FALSE
  OBVIOUS
<1>1. PICK u \in Bad : \A m \in Bad : <<m, u>> \notin OpToRel(<, Nat)
  <2>1. Bad \subseteq Nat
    OBVIOUS
  <2> HIDE DEF Bad
  <2> QED
    BY <2>1, WFMin, NatLessThanWellFounded
<1>2. \A m \in Nat : m < u => m \notin Bad
  <2>1. u \in Nat
    OBVIOUS
  <2> HIDE DEF Bad
  <2> QED
    BY <1>1, <2>1 DEF OpToRel
<1>3. u # 0
  OBVIOUS
<1>4. u - 1 \in 0..n /\ u - 1 # n /\ u - 1 < u /\ u - 1 \in Nat
  BY <1>3
<1>5. u - 1 \in S
  BY <1>2, <1>4
<1> QED
  BY <1>4, <1>5

-----------------------------------------------------------------------------
(* Folding a reading *)

(* What FoldLeft computes, as a function on the places folded so far. *)
IsFold(f, places, reading) ==
    f = [s \in SUBSET places |->
            IF s = {} THEN <<>>
            ELSE Join(f[s \ {Max(s)}], reading[Max(s)])]

LEMMA LastPlace ==
    ASSUME NEW n \in Nat, NEW s \in SUBSET (1..n), s # {}
    PROVE  /\ Max(s) \in s
           /\ s \in SUBSET (1..Max(s))
           /\ s \ {Max(s)} \in SUBSET (1..(Max(s) - 1))
<1>1. s \in SUBSET Nat /\ \A p \in s : p \in Nat /\ p <= n /\ p >= 1
  OBVIOUS
<1>2. Max(s) \in s /\ \A p \in s : p <= Max(s)
  BY <1>1, MaxReached
<1> DEFINE m == Max(s)
<1>3. m \in Nat /\ m \in s /\ \A p \in s : p <= m
  BY <1>1, <1>2
<1> HIDE DEF m
<1>4. \A p \in s : p \in 1..m /\ (p # m => p \in 1..(m - 1))
  BY <1>1, <1>3
<1>5. m \in s /\ s \in SUBSET (1..m) /\ s \ {m} \in SUBSET (1..(m - 1))
  BY <1>3, <1>4
<1> QED
  BY <1>5 DEF m

LEMMA FoldExists ==
    ASSUME NEW n \in Nat, NEW reading
    PROVE  \E f : IsFold(f, 1..n, reading)
<1> DEFINE Good == {k \in 0..n : \E f : IsFold(f, 1..k, reading)}
<1>1. 0 \in Good
  <2> DEFINE f == [s \in SUBSET (1..0) |-> <<>>]
  <2>1. 1..0 = {}
    OBVIOUS
  <2>2. f = [s \in SUBSET (1..0) |->
               IF s = {} THEN <<>>
               ELSE Join(f[s \ {Max(s)}], reading[Max(s)])]
    BY <2>1
  <2>3. IsFold(f, 1..0, reading)
    BY <2>2 DEF IsFold
  <2> QED
    BY <2>3
<1>2. ASSUME NEW k \in 0..n, k # n, k \in Good
      PROVE  k + 1 \in Good
  <2>1. PICK f : IsFold(f, 1..k, reading)
    BY <1>2
  <2> DEFINE g == [s \in SUBSET (1..(k + 1)) |->
                     IF k + 1 \in s THEN Join(f[s \ {k + 1}], reading[k + 1])
                     ELSE f[s]]
  <2>2. ASSUME NEW s \in SUBSET (1..(k + 1)), s # {}
        PROVE  g[s] = Join(g[s \ {Max(s)}], reading[Max(s)])
    <3>1. /\ Max(s) \in s
          /\ s \in SUBSET (1..Max(s))
          /\ s \ {Max(s)} \in SUBSET (1..(Max(s) - 1))
      BY <2>2, LastPlace, k + 1 \in Nat
    <3>2. Max(s) \in 1..(k + 1)
      BY <3>1
    <3> DEFINE m == Max(s)
    <3>3. m \in 1..(k + 1) /\ s \ {m} \in SUBSET (1..(m - 1))
      BY <3>1, <3>2
    <3>4. 1..(m - 1) \subseteq 1..k
      <4> HIDE DEF m
      <4> QED
        BY <3>3
    <3>5. s \ {Max(s)} \in SUBSET (1..k)
      BY <3>3, <3>4
    <3>6. g[s \ {Max(s)}] = f[s \ {Max(s)}]
      BY <3>5
    <3>7. CASE k + 1 \in s
      <4>1. k + 1 \in 1..Max(s) /\ Max(s) \in 1..(k + 1)
        BY <3>1, <3>2, <3>7
      <4>2. Max(s) = k + 1
        BY <4>1
      <4> QED
        BY <3>6, <3>7, <4>2
    <3>8. CASE k + 1 \notin s
      <4>1. s \in SUBSET (1..k)
        BY <3>8
      <4>2. g[s] = f[s]
        BY <3>8
      <4>3. f[s] = Join(f[s \ {Max(s)}], reading[Max(s)])
        BY <2>1, <2>2, <4>1 DEF IsFold
      <4> QED
        BY <3>6, <4>2, <4>3
    <3> QED
      BY <3>7, <3>8
  <2>3. g[{}] = <<>>
    <3>1. f[{}] = <<>>
      BY <2>1 DEF IsFold
    <3> QED
      BY <3>1
  <2>4. g = [s \in SUBSET (1..(k + 1)) |-> g[s]]
    OBVIOUS
  <2>5. g = [s \in SUBSET (1..(k + 1)) |->
               IF s = {} THEN <<>>
               ELSE Join(g[s \ {Max(s)}], reading[Max(s)])]
    <3> HIDE DEF g
    <3> QED
      BY <2>2, <2>3, <2>4
  <2>6. IsFold(g, 1..(k + 1), reading)
    BY <2>5 DEF IsFold
  <2>7. k + 1 \in 0..n
    BY <1>2
  <2> HIDE DEF g
  <2> QED
    BY <2>6, <2>7
<1> HIDE DEF Good
<1>3. n \in Good
  BY <1>1, <1>2, Upwards
<1> QED
  BY <1>3 DEF Good

(* The groups after each row of a reading, and after the last one. *)
LEMMA GroupsGrow ==
    ASSUME NEW n \in Nat, NEW reading, DOMAIN reading = 1..n
    PROVE  \E groups :
              /\ groups[0] = <<>>
              /\ \A k \in 1..n : groups[k] = Join(groups[k - 1], reading[k])
              /\ Numbered(reading) = groups[n]
<1>1. \E f : IsFold(f, DOMAIN reading, reading)
  BY FoldExists
<1>2. PICK f : IsFold(f, DOMAIN reading, reading) /\ Numbered(reading) = f[DOMAIN reading]
  BY <1>1 DEF Numbered, FoldLeft, MapThenFoldSet, IsFold
<1> DEFINE groups == [k \in 0..n |-> f[1..k]]
<1>3. groups[0] = <<>>
  <2>1. 1..0 = {} /\ {} \in SUBSET (1..n)
    OBVIOUS
  <2>2. f[{}] = <<>>
    BY <1>2, <2>1 DEF IsFold
  <2> QED
    BY <2>1, <2>2
<1>4. ASSUME NEW k \in 1..n
      PROVE  groups[k] = Join(groups[k - 1], reading[k])
  <2>1. 1..k \in SUBSET (1..n) /\ 1..k # {} /\ k \in Nat
    OBVIOUS
  <2>2. Max(1..k) = k
    <3>1. Max(1..k) \in 1..k /\ 1..k \in SUBSET (1..Max(1..k))
      BY <2>1, LastPlace
    <3>2. k \in 1..Max(1..k)
      BY <3>1
    <3> QED
      BY <3>1, <3>2
  <2>3. (1..k) \ {k} = 1..(k - 1)
    OBVIOUS
  <2>4. f[1..k] = Join(f[(1..k) \ {Max(1..k)}], reading[Max(1..k)])
    BY <1>2, <2>1 DEF IsFold
  <2>5. groups[k] = f[1..k] /\ groups[k - 1] = f[1..(k - 1)]
    OBVIOUS
  <2> HIDE DEF groups
  <2> QED
    BY <2>2, <2>3, <2>4, <2>5
<1>5. Numbered(reading) = groups[n]
  BY <1>2
<1> HIDE DEF groups
<1> QED
  BY <1>3, <1>4, <1>5

-----------------------------------------------------------------------------
(* Flattening *)

LEMMA FlattenExists ==
    ASSUME NEW seqs, Len(seqs) \in Nat
    PROVE  \E f : f = [i \in 1..Len(seqs) |->
                         IF i = 1 THEN seqs[i] ELSE f[i - 1] \o seqs[i]]
<1> DEFINE n == Len(seqs)
           Up(f, k) == f = [i \in 1..k |->
                              IF i = 1 THEN seqs[i] ELSE f[i - 1] \o seqs[i]]
           Good == {k \in 0..n : \E f : Up(f, k)}
<1> HIDE DEF n
<1>0. n \in Nat
  BY DEF n
<1>1. 0 \in Good
  <2> DEFINE f == [i \in 1..0 |-> <<>>]
  <2>1. Up(f, 0)
    OBVIOUS
  <2>2. 0 \in 0..n
    BY <1>0
  <2> HIDE DEF f, Up
  <2> QED
    BY <2>1, <2>2
<1>2. ASSUME NEW k \in 0..n, k # n, k \in Good
      PROVE  k + 1 \in Good
  <2>1. PICK f : Up(f, k)
    BY <1>2
  <2> DEFINE g == [i \in 1..(k + 1) |->
                     IF i = 1 THEN seqs[i] ELSE f[i - 1] \o seqs[i]]
  <2>2. ASSUME NEW i \in 1..(k + 1), i # 1
        PROVE  g[i - 1] = f[i - 1]
    <3>1. i - 1 \in 1..k /\ i - 1 \in 1..(k + 1)
      BY <2>2
    <3>2. f[i - 1] = IF i - 1 = 1 THEN seqs[i - 1] ELSE f[(i - 1) - 1] \o seqs[i - 1]
      BY <2>1, <3>1
    <3> QED
      BY <3>1, <3>2
  <2>3. g = [i \in 1..(k + 1) |->
               IF i = 1 THEN seqs[i] ELSE g[i - 1] \o seqs[i]]
    BY <2>2
  <2>4. Up(g, k + 1)
    BY <2>3
  <2>5. k + 1 \in 0..n
    BY <1>0, <1>2
  <2> HIDE DEF Up, g
  <2> QED
    BY <2>4, <2>5
<1> HIDE DEF Good
<1>3. \A k \in 0..n : k \in Good
  BY <1>0, <1>1, <1>2, Upwards
<1>4. n \in Good
  BY <1>0, <1>3
<1> QED
  BY <1>4 DEF Good, n

(* No member appears twice in the sequences. *)
Apart(seqs) ==
    \A g, h \in 1..Len(seqs) :
        \A c \in 1..Len(seqs[g]), d \in 1..Len(seqs[h]) :
           seqs[g][c] = seqs[h][d] => g = h /\ c = d

(* Flattening lists every member of every such sequence, once. *)
LEMMA Flattened ==
    ASSUME NEW S, NEW seqs \in Seq(Seq(S)),
           Apart(seqs)
    PROVE  LET flat == FlattenSeq(seqs) IN
           /\ flat \in Seq(S)
           /\ \A p, q \in 1..Len(flat) : flat[p] = flat[q] => p = q
           /\ \A g \in 1..Len(seqs) : \A c \in 1..Len(seqs[g]) :
                 \E p \in 1..Len(flat) : flat[p] = seqs[g][c]
<1> DEFINE n == Len(seqs)
           Once(s, k) ==
              /\ s \in Seq(S)
              /\ \A p \in 1..Len(s) : \E g \in 1..k :
                    \E c \in 1..Len(seqs[g]) : s[p] = seqs[g][c]
              /\ \A p, q \in 1..Len(s) : s[p] = s[q] => p = q
              /\ \A g \in 1..k : \A c \in 1..Len(seqs[g]) :
                    \E p \in 1..Len(s) : s[p] = seqs[g][c]
<1>1. n \in Nat /\ \A g \in 1..n : seqs[g] \in Seq(S) /\ Len(seqs[g]) \in Nat
  BY LenProperties, ElementOfSeq
<1>2. CASE n = 0
  <2>1. FlattenSeq(seqs) = seqs /\ seqs = <<>>
    BY <1>2, EmptySeq DEF FlattenSeq
  <2> QED
    BY <2>1, <1>2
<1>3. CASE n # 0
  <2>1. PICK f : /\ f = [i \in 1..n |->
                           IF i = 1 THEN seqs[i] ELSE f[i - 1] \o seqs[i]]
                 /\ FlattenSeq(seqs) = f[n]
    BY <1>1, <1>3, FlattenExists DEF FlattenSeq
  <2> DEFINE Good == {0} \cup {k \in 1..n : Once(f[k], k)}
  <2>2. 0 \in Good
    OBVIOUS
  <2>3. ASSUME NEW k \in 0..n, k # n, k \in Good
        PROVE  k + 1 \in Good
    <3>1. k + 1 \in 1..n
      BY <1>1, <2>3
    <3> DEFINE m == k + 1
               t == seqs[m]
    <3>2. t \in Seq(S) /\ Len(t) \in Nat
      BY <1>1, <3>1
    <3>3. CASE k = 0
      <4>1. f[m] = t
        BY <2>1, <3>1, <3>3
      <4>2. Once(t, 1)
        <5>1. m = 1
          BY <3>3
        <5> QED
          BY <3>1, <3>2, <5>1 DEF Apart
      <4>3. Once(f[m], m) /\ m \in 1..n
        <5>1. m = 1
          BY <3>3
        <5> HIDE DEF Once
        <5> QED
          BY <3>1, <4>1, <4>2, <5>1
      <4> HIDE DEF Once, t
      <4> QED
        BY <4>3
    <3>4. CASE k # 0
      <4> DEFINE s == f[k]
      <4>1. k \in 1..n /\ Once(s, k)
        BY <2>3, <3>4
      <4>2. f[m] = s \o t
        <5>1. m # 1 /\ m - 1 = k
          BY <3>4
        <5> QED
          BY <2>1, <3>1, <5>1
      <4> HIDE DEF s, t, m, Once
      <4>3. s \in Seq(S) /\ Len(s) \in Nat
        BY <4>1, LenProperties DEF Once
      <4> DEFINE u == s \o t
      <4>4. /\ u \in Seq(S)
            /\ Len(u) = Len(s) + Len(t)
            /\ \A p \in 1..(Len(s) + Len(t)) :
                  u[p] = IF p <= Len(s) THEN s[p] ELSE t[p - Len(s)]
        BY <3>2, <4>3, ConcatProperties
      <4>5. /\ \A p \in 1..Len(s) : p \in 1..Len(u) /\ u[p] = s[p]
            /\ \A c \in 1..Len(t) :
                  c + Len(s) \in 1..Len(u) /\ u[c + Len(s)] = t[c]
        <5> HIDE DEF u
        <5>1. ASSUME NEW c \in 1..Len(t)
              PROVE  c + Len(s) \in 1..Len(u) /\ u[c + Len(s)] = t[c]
          <6>1. c + Len(s) \in 1..Len(u) /\ ~(c + Len(s) <= Len(s))
                /\ (c + Len(s)) - Len(s) = c
            BY <3>2, <4>3, <4>4
          <6> QED
            BY <4>4, <6>1
        <5>2. ASSUME NEW p \in 1..Len(s)
              PROVE  p \in 1..Len(u) /\ u[p] = s[p]
          BY <3>2, <4>3, <4>4
        <5> QED
          BY <5>1, <5>2
      <4>6. \A p \in 1..Len(u) :
               \/ p \in 1..Len(s) /\ u[p] = s[p]
               \/ \E c \in 1..Len(t) : p = c + Len(s) /\ u[p] = t[c]
        <5> HIDE DEF u
        <5> SUFFICES ASSUME NEW p \in 1..Len(u), p \notin 1..Len(s)
                     PROVE  \E c \in 1..Len(t) : p = c + Len(s) /\ u[p] = t[c]
          BY <4>5
        <5>1. p - Len(s) \in 1..Len(t) /\ p = (p - Len(s)) + Len(s)
          BY <3>2, <4>3, <4>4
        <5> QED
          BY <4>5, <5>1
      <4> HIDE DEF u
      <4>7. \A p \in 1..Len(s), c \in 1..Len(t) : s[p] # t[c]
        <5> SUFFICES ASSUME NEW p \in 1..Len(s), NEW c \in 1..Len(t),
                            s[p] = t[c]
                     PROVE  FALSE
          OBVIOUS
        <5>1. PICK g \in 1..k : \E d \in 1..Len(seqs[g]) : s[p] = seqs[g][d]
          BY <4>1 DEF Once
        <5>2. PICK d \in 1..Len(seqs[g]) : s[p] = seqs[g][d]
          BY <5>1
        <5>3. g \in 1..n /\ m \in 1..n /\ g # m
          BY <1>1, <3>1, <4>1 DEF m
        <5> QED
          BY <5>2, <5>3 DEF t, Apart
      <4>8. \A c, d \in 1..Len(t) : t[c] = t[d] => c = d
        <5>1. \A g \in 1..n : \A c, d \in 1..Len(seqs[g]) :
                 seqs[g][c] = seqs[g][d] => c = d
          BY DEF Apart
        <5>2. m \in 1..n
          BY <3>1 DEF m
        <5> HIDE DEF n
        <5> QED
          BY <5>1, <5>2 DEF t
      <4>9. \A p \in 1..Len(u) : \E g \in 1..m :
               \E c \in 1..Len(seqs[g]) : u[p] = seqs[g][c]
        <5> SUFFICES ASSUME NEW p \in 1..Len(u)
                     PROVE  \E g \in 1..m :
                               \E c \in 1..Len(seqs[g]) : u[p] = seqs[g][c]
          OBVIOUS
        <5>1. CASE p \in 1..Len(s) /\ u[p] = s[p]
          <6>1. PICK g \in 1..k :
                   \E c \in 1..Len(seqs[g]) : s[p] = seqs[g][c]
            BY <4>1, <5>1 DEF Once
          <6>2. g \in 1..m
            BY DEF m
          <6> QED
            BY <5>1, <6>1, <6>2
        <5>2. CASE \E c \in 1..Len(t) : p = c + Len(s) /\ u[p] = t[c]
          <6>1. m \in 1..m
            BY DEF m
          <6> QED
            BY <5>2, <6>1 DEF t
        <5> QED
          BY <4>6, <5>1, <5>2
      <4>10. \A p, q \in 1..Len(u) : u[p] = u[q] => p = q
        <5> SUFFICES ASSUME NEW p \in 1..Len(u), NEW q \in 1..Len(u),
                            u[p] = u[q]
                     PROVE  p = q
          OBVIOUS
        <5>1. CASE p \in 1..Len(s) /\ q \in 1..Len(s)
          BY <4>1, <4>5, <5>1 DEF Once
        <5>2. CASE p \notin 1..Len(s) /\ q \notin 1..Len(s)
          <6>1. PICK c \in 1..Len(t) : p = c + Len(s) /\ u[p] = t[c]
            BY <4>6, <5>2
          <6>2. PICK d \in 1..Len(t) : q = d + Len(s) /\ u[q] = t[d]
            BY <4>6, <5>2
          <6> QED
            BY <4>8, <6>1, <6>2
        <5>3. CASE p \in 1..Len(s) /\ q \notin 1..Len(s)
          BY <4>5, <4>6, <4>7, <5>3
        <5>4. CASE p \notin 1..Len(s) /\ q \in 1..Len(s)
          BY <4>5, <4>6, <4>7, <5>4
        <5> QED
          BY <5>1, <5>2, <5>3, <5>4
      <4>11. ASSUME NEW g \in 1..m, NEW c \in 1..Len(seqs[g])
             PROVE  \E p \in 1..Len(u) : u[p] = seqs[g][c]
        <5>1. CASE g = m
          BY <4>5, <5>1 DEF t
        <5>2. CASE g # m
          <6>1. g \in 1..k
            BY <5>2 DEF m
          <6>2. PICK p \in 1..Len(s) : s[p] = seqs[g][c]
            BY <4>1, <6>1 DEF Once
          <6> QED
            BY <4>5, <6>2
        <5> QED
          BY <5>1, <5>2
      <4>12. Once(u, m)
        BY <4>4, <4>9, <4>10, <4>11 DEF Once
      <4> QED
        BY <3>1, <4>2, <4>12 DEF u, m
    <3> QED
      BY <3>3, <3>4
  <2>4. \A k \in 0..n : k \in Good
    <3> HIDE DEF Good, n
    <3> QED
      BY <1>1, <2>2, <2>3, Upwards
  <2>5. Once(f[n], n)
    <3> HIDE DEF Once, n
    <3> QED
      BY <1>1, <1>3, <2>4
  <2>6. FlattenSeq(seqs) = f[n]
    BY <2>1
  <2> DEFINE flat == FlattenSeq(seqs)
  <2>7. Once(flat, n)
    <3> HIDE DEF Once, n, Good
    <3> QED
      BY <2>5, <2>6
  <2> HIDE DEF flat, Good
  <2> QED
    BY <2>7 DEF flat
<1> QED
  BY <1>2, <1>3

(* A listing of a finite set: each member once. *)
Lists(s, S) ==
    /\ s \in Seq(S)
    /\ \A p, q \in 1..Len(s) : s[p] = s[q] => p = q
    /\ \A x \in S : \E p \in 1..Len(s) : s[p] = x

LEMMA ListsAreSeqs ==
    ASSUME NEW S, IsFiniteSet(S), NEW s
    PROVE  s \in SetToSeqs(S) <=> Lists(s, S)
<1>1. ASSUME s \in SetToSeqs(S)
      PROVE  Lists(s, S)
  <2> DEFINE n == Cardinality(S)
  <2>1. n \in Nat /\ s \in [1..n -> S]
        /\ \A p, q \in 1..n : p # q => s[p] # s[q]
    BY <1>1, FS_CardinalityType DEF SetToSeqs
  <2>2. IsFiniteSet(1..n) /\ Cardinality(1..n) = n
    BY <2>1, FS_Interval
  <2>3. s \in Injection(1..n, S)
    BY <2>1 DEF Injection, IsInjective
  <2>4. s \in Surjection(1..n, S)
    BY <2>2, <2>3, FS_Injection
  <2>5. s \in Seq(S) /\ Len(s) = n
    BY <2>1, SeqDef, LenProperties
  <2> HIDE DEF n
  <2> QED
    BY <2>1, <2>4, <2>5 DEF Surjection, Lists
<1>2. ASSUME Lists(s, S)
      PROVE  s \in SetToSeqs(S)
  <2> DEFINE n == Len(s)
  <2>1. n \in Nat /\ s \in [1..n -> S]
    BY <1>2, LenProperties DEF Lists
  <2>2. s \in Bijection(1..n, S)
    BY <1>2, <2>1
       DEF Lists, Bijection, Injection, Surjection, IsInjective
  <2>3. IsFiniteSet(1..n) /\ Cardinality(1..n) = n
    BY <2>1, FS_Interval
  <2>4. Cardinality(S) = n
    BY <2>2, <2>3, FS_Bijection DEF ExistsBijection
  <2> QED
    BY <1>2, <2>1, <2>4 DEF SetToSeqs, Lists
<1> QED
  BY <1>1, <1>2

-----------------------------------------------------------------------------
(* The groups of a reading *)

ReadBefore(reading, i, j) ==
    \E p, q \in DOMAIN reading : p < q /\ reading[p] = i /\ reading[q] = j

(* The rows of one group share a descriptor, in the order they were read.   *)
IsGroup(group, reading) ==
    \A c \in 1..Len(group) :
        /\ rows[group[c]].descriptor = rows[group[1]].descriptor
        /\ \A d \in 1..Len(group) :
              c < d => ReadBefore(reading, group[c], group[d])

(* The groups after the first k rows of a reading. *)
Grouped(groups, reading, k) ==
    /\ groups \in Seq(Seq({reading[p] : p \in 1..k}))
    /\ \A p \in 1..k : \E g \in 1..Len(groups) :
          \E c \in 1..Len(groups[g]) : groups[g][c] = reading[p]
    /\ \A g \in 1..Len(groups) :
          Len(groups[g]) > 0 /\ IsGroup(groups[g], reading)
    /\ \A g, h \in 1..Len(groups) : g < h =>
          /\ rows[groups[g][1]].descriptor # rows[groups[h][1]].descriptor
          /\ ReadBefore(reading, groups[g][1], groups[h][1])

LEMMA JoinGroups ==
    ASSUME NEW n \in Nat, NEW reading, DOMAIN reading = 1..n,
           NEW k \in 1..n, NEW groups, Grouped(groups, reading, k - 1)
    PROVE  Grouped(Join(groups, reading[k]), reading, k)
<1> DEFINE i == reading[k]
           S == {reading[p] : p \in 1..(k - 1)}
           T == {reading[p] : p \in 1..k}
           mine == {g \in DOMAIN groups :
                      rows[groups[g][1]].descriptor = rows[i].descriptor}
           joined == Join(groups, i)
           m == Len(groups)
<1>1. /\ groups \in Seq(Seq(S)) /\ m \in Nat /\ DOMAIN groups = 1..m
      /\ \A g \in 1..m : groups[g] \in Seq(S) /\ Len(groups[g]) \in Nat
  BY LenProperties, ElementOfSeq DEF Grouped
<1>2. i \in T /\ S \subseteq T
  OBVIOUS
<1>3. \A g \in 1..m : groups[g] \in Seq(T)
  <2> HIDE DEF S, T
  <2> QED
    BY <1>1, <1>2, SeqMonotonic
<1>4. \A x \in S : ReadBefore(reading, x, i)
  <2> SUFFICES ASSUME NEW p \in 1..(k - 1)
               PROVE  ReadBefore(reading, reading[p], i)
    OBVIOUS
  <2>1. p \in DOMAIN reading /\ k \in DOMAIN reading /\ p < k
    OBVIOUS
  <2> QED
    BY <2>1 DEF ReadBefore
<1>5. \A g \in 1..m : \A c \in 1..Len(groups[g]) : groups[g][c] \in S
  <2> HIDE DEF S
  <2> QED
    BY <1>1, ElementOfSeq
<1>6. \A p \in 1..k : p = k \/ p \in 1..(k - 1)
  OBVIOUS
<1>7. /\ \A p \in 1..(k - 1) : \E g \in 1..m :
            \E c \in 1..Len(groups[g]) : groups[g][c] = reading[p]
      /\ \A g \in 1..m : Len(groups[g]) > 0 /\ IsGroup(groups[g], reading)
      /\ \A g, h \in 1..m : g < h =>
            /\ rows[groups[g][1]].descriptor # rows[groups[h][1]].descriptor
            /\ ReadBefore(reading, groups[g][1], groups[h][1])
  BY DEF Grouped
<1>8. \A g \in 1..m : 1 \in 1..Len(groups[g])
  BY <1>1, <1>7
<1>9. CASE mine = {}
  <2>1. joined = Append(groups, <<i>>)
    BY <1>9 DEF Join
  <2>2. groups \in Seq(Seq(T))
    <3> HIDE DEF S, T
    <3> QED
      <4>1. groups \in [1..m -> Seq(T)]
        BY <1>1, <1>3, LenProperties
      <4> HIDE DEF m
      <4> QED
        BY <1>1, <4>1, SeqDef
  <2>3. <<i>> \in Seq(T) /\ Len(<<i>>) = 1 /\ <<i>>[1] = i
    <3> HIDE DEF T, i
    <3> QED
      BY <1>2
  <2> HIDE DEF S, T, i, mine, joined
  <2>4. /\ joined \in Seq(Seq(T))
        /\ Len(joined) = m + 1
        /\ \A g \in 1..m : joined[g] = groups[g]
        /\ joined[m + 1] = <<i>>
    BY <2>1, <2>2, <2>3, AppendProperties
  <2>5. \A g \in 1..(m + 1) : g = m + 1 \/ g \in 1..m
    BY <1>1
  <2>6. \A p \in 1..k : \E g \in 1..(m + 1) :
           \E c \in 1..Len(joined[g]) : joined[g][c] = reading[p]
    <3> SUFFICES ASSUME NEW p \in 1..k
                 PROVE  \E g \in 1..(m + 1) :
                           \E c \in 1..Len(joined[g]) : joined[g][c] = reading[p]
      OBVIOUS
    <3>1. CASE p = k
      <4>1. m + 1 \in 1..(m + 1) /\ 1 \in 1..Len(joined[m + 1])
        BY <1>1, <2>3, <2>4
      <4> QED
        BY <2>3, <2>4, <3>1, <4>1 DEF i
    <3>2. CASE p \in 1..(k - 1)
      <4>1. PICK g \in 1..m : \E c \in 1..Len(groups[g]) : groups[g][c] = reading[p]
        BY <1>7, <3>2
      <4>2. g \in 1..(m + 1) /\ joined[g] = groups[g]
        BY <1>1, <2>4
      <4> QED
        BY <4>1, <4>2
    <3> QED
      BY <1>6, <3>1, <3>2
  <2>7. \A g \in 1..(m + 1) : Len(joined[g]) > 0 /\ IsGroup(joined[g], reading)
    <3>1. IsGroup(<<i>>, reading)
      <4>1. \A c, d \in 1..Len(<<i>>) : c = 1 /\ ~(c < d)
        BY <2>3
      <4> QED
        BY <4>1 DEF IsGroup
    <3>2. ASSUME NEW g \in 1..(m + 1)
          PROVE  Len(joined[g]) > 0 /\ IsGroup(joined[g], reading)
      <4>1. CASE g = m + 1
        <5>1. joined[g] = <<i>>
          BY <2>4, <4>1
        <5>2. Len(joined[g]) > 0
          BY <2>3, <5>1
        <5>3. IsGroup(joined[g], reading)
          BY <3>1, <5>1, Zenon
        <5> QED
          BY <5>2, <5>3
      <4>2. CASE g \in 1..m
        <5>1. joined[g] = groups[g]
          BY <2>4, <4>2
        <5>2. Len(groups[g]) > 0 /\ IsGroup(groups[g], reading)
          BY <1>7, <4>2
        <5> QED
          BY <5>1, <5>2
      <4> QED
        BY <2>5, <4>1, <4>2
    <3> QED
      BY <3>2
  <2>8. \A g \in 1..m :
           /\ rows[groups[g][1]].descriptor # rows[i].descriptor
           /\ ReadBefore(reading, groups[g][1], i)
    BY <1>1, <1>4, <1>5, <1>8, <1>9 DEF mine
  <2>9. \A g, h \in 1..(m + 1) : g < h =>
            /\ rows[joined[g][1]].descriptor # rows[joined[h][1]].descriptor
            /\ ReadBefore(reading, joined[g][1], joined[h][1])
    <3> SUFFICES ASSUME NEW g \in 1..(m + 1), NEW h \in 1..(m + 1), g < h
                 PROVE
            /\ rows[joined[g][1]].descriptor # rows[joined[h][1]].descriptor
            /\ ReadBefore(reading, joined[g][1], joined[h][1])
      OBVIOUS
    <3>1. g \in 1..m /\ joined[g] = groups[g]
      BY <1>1, <2>4
    <3>2. CASE h = m + 1
      <4>1. joined[h][1] = i
        BY <2>3, <2>4, <3>2
      <4> QED
        BY <2>8, <3>1, <4>1
    <3>3. CASE h \in 1..m
      <4>1. joined[h] = groups[h]
        BY <2>4, <3>3
      <4> QED
        BY <1>7, <3>1, <3>3, <4>1
    <3> QED
      BY <2>5, <3>2, <3>3
  <2> QED
    BY <2>4, <2>6, <2>7, <2>9 DEF Grouped, i, joined, T
<1>10. CASE mine # {}
  <2>1. joined = [g \in 1..m |->
                    IF g \in mine THEN Append(groups[g], i) ELSE groups[g]]
    BY <1>1, <1>10 DEF Join
  <2> HIDE DEF S, T, i, mine, joined, m
  <2>2. \A g \in 1..m : g \in mine =>
           /\ Append(groups[g], i) \in Seq(T)
           /\ Len(Append(groups[g], i)) = Len(groups[g]) + 1
           /\ Append(groups[g], i)[Len(groups[g]) + 1] = i
           /\ \A c \in 1..Len(groups[g]) :
                 Append(groups[g], i)[c] = groups[g][c]
    BY <1>2, <1>3, AppendProperties
  <2>3. joined \in Seq(Seq(T)) /\ Len(joined) = m
    <3>1. \A g \in 1..m : joined[g] \in Seq(T)
      BY <1>3, <2>1, <2>2
    <3>2. joined \in [1..m -> Seq(T)]
      BY <2>1, <3>1
    <3> QED
      BY <1>1, <3>2, SeqDef, LenProperties
  <2>4. \A g \in 1..m :
           /\ Len(joined[g]) \in Nat
           /\ Len(joined[g]) >= Len(groups[g])
           /\ \A c \in 1..Len(groups[g]) : joined[g][c] = groups[g][c]
           /\ g \in mine => joined[g][Len(joined[g])] = i
           /\ \A c \in 1..Len(joined[g]) :
                 \/ c \in 1..Len(groups[g])
                 \/ g \in mine /\ c = Len(groups[g]) + 1 /\ joined[g][c] = i
    <3> SUFFICES ASSUME NEW g \in 1..m
                 PROVE
           /\ Len(joined[g]) \in Nat
           /\ Len(joined[g]) >= Len(groups[g])
           /\ \A c \in 1..Len(groups[g]) : joined[g][c] = groups[g][c]
           /\ g \in mine => joined[g][Len(joined[g])] = i
           /\ \A c \in 1..Len(joined[g]) :
                 \/ c \in 1..Len(groups[g])
                 \/ g \in mine /\ c = Len(groups[g]) + 1 /\ joined[g][c] = i
      OBVIOUS
    <3>1. CASE g \in mine
      <4>1. joined[g] = Append(groups[g], i)
        BY <2>1, <3>1
      <4> QED
        BY <1>1, <2>2, <3>1, <4>1
    <3>2. CASE g \notin mine
      <4>1. joined[g] = groups[g]
        BY <2>1, <3>2
      <4> QED
        BY <1>1, <3>2, <4>1
    <3> QED
      BY <3>1, <3>2
  <2>5. \A g \in 1..m : joined[g][1] = groups[g][1] /\ Len(joined[g]) > 0
    BY <1>1, <1>7, <1>8, <2>4
  <2>6. \A p \in 1..k : \E g \in 1..m :
           \E c \in 1..Len(joined[g]) : joined[g][c] = reading[p]
    <3> SUFFICES ASSUME NEW p \in 1..k
                 PROVE  \E g \in 1..m :
                           \E c \in 1..Len(joined[g]) : joined[g][c] = reading[p]
      OBVIOUS
    <3>1. CASE p = k
      <4>1. PICK g \in 1..m : g \in mine
        BY <1>1, <1>10 DEF mine
      <4>2. Len(joined[g]) \in 1..Len(joined[g])
        BY <2>4, <2>5
      <4> QED
        BY <2>4, <3>1, <4>1, <4>2 DEF i
    <3>2. CASE p \in 1..(k - 1)
      <4>1. PICK g \in 1..m : \E c \in 1..Len(groups[g]) : groups[g][c] = reading[p]
        BY <1>7, <3>2
      <4>2. PICK c \in 1..Len(groups[g]) : groups[g][c] = reading[p]
        BY <4>1
      <4>3. c \in 1..Len(joined[g]) /\ joined[g][c] = reading[p]
        BY <1>1, <2>4, <4>2
      <4> QED
        BY <4>3
    <3> QED
      BY <1>6, <3>1, <3>2
  <2>7. ASSUME NEW g \in 1..m
        PROVE  IsGroup(joined[g], reading)
    <3> SUFFICES ASSUME NEW c \in 1..Len(joined[g])
                 PROVE
           /\ rows[joined[g][c]].descriptor = rows[joined[g][1]].descriptor
           /\ \A d \in 1..Len(joined[g]) :
                 c < d => ReadBefore(reading, joined[g][c], joined[g][d])
      BY DEF IsGroup
    <3>1. rows[joined[g][c]].descriptor = rows[joined[g][1]].descriptor
      <4>1. CASE c \in 1..Len(groups[g])
        <5>1. joined[g][c] = groups[g][c] /\ joined[g][1] = groups[g][1]
          BY <2>4, <2>5, <4>1
        <5>2. rows[groups[g][c]].descriptor = rows[groups[g][1]].descriptor
          BY <1>7, <4>1 DEF IsGroup
        <5> QED
          BY <5>1, <5>2
      <4>2. CASE g \in mine /\ joined[g][c] = i
        BY <2>5, <4>2 DEF mine
      <4> QED
        BY <2>4, <4>1, <4>2
    <3>2. ASSUME NEW d \in 1..Len(joined[g]), c < d
          PROVE  ReadBefore(reading, joined[g][c], joined[g][d])
      <4>1. c \in 1..Len(groups[g])
        <5>1. \/ d \in 1..Len(groups[g])
              \/ d = Len(groups[g]) + 1
          BY <2>4
        <5>2. Len(groups[g]) \in Nat
          BY <1>1
        <5>3. c \in Nat /\ c >= 1 /\ c < d
          BY <2>4, <3>2
        <5> QED
          BY <5>1, <5>2, <5>3
      <4>2. joined[g][c] = groups[g][c] /\ groups[g][c] \in S
        BY <1>5, <2>4, <4>1
      <4>3. CASE d \in 1..Len(groups[g])
        BY <1>7, <2>4, <3>2, <4>1, <4>2, <4>3 DEF IsGroup
      <4>4. CASE joined[g][d] = i
        BY <1>4, <4>2, <4>4
      <4> QED
        BY <2>4, <4>3, <4>4
    <3> QED
      BY <3>1, <3>2
  <2>8. \A g, h \in 1..m : g < h =>
            /\ rows[joined[g][1]].descriptor # rows[joined[h][1]].descriptor
            /\ ReadBefore(reading, joined[g][1], joined[h][1])
    <3> SUFFICES ASSUME NEW g \in 1..m, NEW h \in 1..m, g < h
                 PROVE
            /\ rows[joined[g][1]].descriptor # rows[joined[h][1]].descriptor
            /\ ReadBefore(reading, joined[g][1], joined[h][1])
      OBVIOUS
    <3>1. joined[g][1] = groups[g][1] /\ joined[h][1] = groups[h][1]
      BY <2>5
    <3>2. /\ rows[groups[g][1]].descriptor # rows[groups[h][1]].descriptor
          /\ ReadBefore(reading, groups[g][1], groups[h][1])
      BY <1>7
    <3> QED
      BY <3>1, <3>2
  <2> QED
    BY <2>3, <2>5, <2>6, <2>7, <2>8 DEF Grouped, i, joined, T
<1> QED
  BY <1>9, <1>10

LEMMA NumberedGroups ==
    ASSUME NEW n \in Nat, NEW reading, DOMAIN reading = 1..n
    PROVE  Grouped(Numbered(reading), reading, n)
<1>1. PICK groups :
         /\ groups[0] = <<>>
         /\ \A k \in 1..n : groups[k] = Join(groups[k - 1], reading[k])
         /\ Numbered(reading) = groups[n]
  BY GroupsGrow
<1> DEFINE Good == {k \in 0..n : Grouped(groups[k], reading, k)}
<1>2. 0 \in Good
  <2>1. <<>> \in Seq(Seq({reading[p] : p \in 1..0})) /\ Len(<<>>) = 0
    OBVIOUS
  <2>2. Grouped(<<>>, reading, 0)
    <3>1. 1..0 = {}
      OBVIOUS
    <3> QED
      BY <2>1, <3>1 DEF Grouped
  <2> QED
    BY <1>1, <2>2
<1>3. ASSUME NEW k \in 0..n, k # n, k \in Good
      PROVE  k + 1 \in Good
  <2>1. k + 1 \in 1..n /\ k + 1 \in 0..n /\ (k + 1) - 1 = k
    BY <1>3
  <2>2. Grouped(Join(groups[k], reading[k + 1]), reading, k + 1)
    BY <1>3, <2>1, JoinGroups
  <2> QED
    BY <1>1, <2>1, <2>2
<1>4. \A k \in 0..n : k \in Good
  <2> HIDE DEF Good
  <2> QED
    BY <1>2, <1>3, Upwards
<1> QED
  BY <1>1, <1>4

(* Each row gets exactly one number, every descriptor one group, and groups *)
(* and the rows in them stand in the order they were read. *)
LEMMA NumbersEveryRow == TypeInv => NumberedWithoutGaps
<1> SUFFICES ASSUME TypeInv, NEW l \in Licenses,
                    NEW reading \in Readings(RowsOf(l))
             PROVE
        LET groups == Numbered(reading)
            place(i) == CHOOSE k \in DOMAIN reading : reading[k] = i
            descriptor(g) == rows[groups[g][1]].descriptor
        IN
        /\ FlattenSeq(groups) \in SetToSeqs(RowsOf(l))
        /\ \A g \in DOMAIN groups :
             /\ \A c, d \in DOMAIN groups[g] :
                  /\ rows[groups[g][c]].descriptor = descriptor(g)
                  /\ c < d => place(groups[g][c]) < place(groups[g][d])
             /\ \A h \in DOMAIN groups : g < h =>
                  /\ descriptor(g) # descriptor(h)
                  /\ place(groups[g][1]) < place(groups[h][1])
  BY DEF NumberedWithoutGaps
<1> DEFINE S == RowsOf(l)
           groups == Numbered(reading)
           place(i) == CHOOSE k \in DOMAIN reading : reading[k] = i
           n == Len(reading)
<1>1. IsFiniteSet(S)
  <2>1. S \in SUBSET Nat /\ \A i \in S : i <= Len(rows)
    BY RowsTyped DEF RowsOf
  <2>2. Len(rows) \in Nat
    BY RowsTyped
  <2> HIDE DEF S
  <2> QED
    BY <2>1, <2>2, FS_BoundedSetOfNaturals
<1>2. Lists(reading, S)
  <2>1. reading \in SetToSeqs(S)
    BY DEF Readings
  <2> HIDE DEF S
  <2> QED
    BY <1>1, <2>1, ListsAreSeqs
<1>3. /\ n \in Nat /\ DOMAIN reading = 1..n
      /\ S = {reading[p] : p \in 1..n}
  <2> HIDE DEF S
  <2>1. n \in Nat /\ DOMAIN reading = 1..n /\ \A p \in 1..n : reading[p] \in S
    BY <1>2, LenProperties, ElementOfSeq DEF Lists
  <2> QED
    BY <1>2, <2>1 DEF Lists
<1> HIDE DEF S
<1>4. Grouped(groups, reading, n)
  BY <1>3, NumberedGroups
<1> HIDE DEF groups
<1>5. \A p \in 1..n : place(reading[p]) = p
  BY <1>2, <1>3 DEF Lists
<1> HIDE DEF place, n
<1>6. \A i, j : ReadBefore(reading, i, j) => i # j /\ place(i) < place(j)
  BY <1>3, <1>5 DEF ReadBefore
<1>7. /\ groups \in Seq(Seq(S)) /\ DOMAIN groups = 1..Len(groups)
      /\ Len(groups) \in Nat
      /\ \A g \in 1..Len(groups) :
            /\ groups[g] \in Seq(S)
            /\ DOMAIN groups[g] = 1..Len(groups[g])
            /\ Len(groups[g]) \in Nat
            /\ 1 \in 1..Len(groups[g])
  <2>1. /\ groups \in Seq(Seq(S))
        /\ \A g \in 1..Len(groups) : Len(groups[g]) > 0
    BY <1>3, <1>4 DEF Grouped
  <2>2. Len(groups) \in Nat /\ DOMAIN groups = 1..Len(groups)
    BY <2>1, LenProperties
  <2>3. \A g \in 1..Len(groups) :
            /\ groups[g] \in Seq(S)
            /\ DOMAIN groups[g] = 1..Len(groups[g])
            /\ Len(groups[g]) \in Nat
    BY <2>1, LenProperties, ElementOfSeq
  <2> QED
    BY <2>1, <2>2, <2>3
<1>8. ASSUME NEW g \in 1..Len(groups), NEW c \in 1..Len(groups[g]),
             NEW d \in 1..Len(groups[g])
      PROVE  /\ rows[groups[g][c]].descriptor = rows[groups[g][1]].descriptor
             /\ c < d => ReadBefore(reading, groups[g][c], groups[g][d])
  BY <1>4 DEF Grouped, IsGroup
<1>9. ASSUME NEW g \in 1..Len(groups), NEW h \in 1..Len(groups), g < h
      PROVE  /\ rows[groups[g][1]].descriptor # rows[groups[h][1]].descriptor
             /\ ReadBefore(reading, groups[g][1], groups[h][1])
  BY <1>4, <1>9 DEF Grouped
<1>10. ASSUME NEW g \in 1..Len(groups), NEW h \in 1..Len(groups),
              NEW c \in 1..Len(groups[g]), NEW d \in 1..Len(groups[h]),
              groups[g][c] = groups[h][d]
       PROVE  g = h /\ c = d
  <2>1. rows[groups[g][1]].descriptor = rows[groups[h][1]].descriptor
    <3>1. rows[groups[g][c]].descriptor = rows[groups[g][1]].descriptor
      BY <1>8
    <3>2. rows[groups[h][d]].descriptor = rows[groups[h][1]].descriptor
      BY <1>8
    <3> QED
      BY <1>10, <3>1, <3>2
  <2>2. ~(g < h) /\ ~(h < g)
    BY <1>9, <2>1
  <2>3. g = h
    BY <1>7, <2>2
  <2>4. ~(c < d) /\ ~(d < c)
    <3>1. d \in 1..Len(groups[g]) /\ groups[g][c] = groups[g][d]
      BY <1>10, <2>3
    <3> QED
      BY <1>6, <1>8, <3>1
  <2> QED
    BY <1>7, <2>3, <2>4
<1>11. FlattenSeq(groups) \in SetToSeqs(S)
  <2> DEFINE flat == FlattenSeq(groups)
  <2>1. /\ flat \in Seq(S)
        /\ \A p, q \in 1..Len(flat) : flat[p] = flat[q] => p = q
        /\ \A g \in 1..Len(groups) : \A c \in 1..Len(groups[g]) :
              \E p \in 1..Len(flat) : flat[p] = groups[g][c]
    <3>1. groups \in Seq(Seq(S))
      BY <1>7
    <3>2. Apart(groups)
      BY <1>10 DEF Apart
    <3> QED
      BY <3>1, <3>2, Flattened
  <2> HIDE DEF flat
  <2>2. \A x \in S : \E p \in 1..Len(flat) : flat[p] = x
    <3> SUFFICES ASSUME NEW x \in S
                 PROVE  \E p \in 1..Len(flat) : flat[p] = x
      OBVIOUS
    <3>1. PICK p \in 1..n : x = reading[p]
      BY <1>3
    <3>2. PICK g \in 1..Len(groups) :
             \E c \in 1..Len(groups[g]) : groups[g][c] = reading[p]
      BY <1>4 DEF Grouped
    <3> QED
      BY <2>1, <3>1, <3>2
  <2>3. Lists(flat, S)
    BY <2>1, <2>2 DEF Lists
  <2> QED
    BY <1>1, <2>3, ListsAreSeqs DEF flat
<1>12. ASSUME NEW g \in DOMAIN groups
       PROVE  /\ \A c, d \in DOMAIN groups[g] :
                    /\ rows[groups[g][c]].descriptor
                         = rows[groups[g][1]].descriptor
                    /\ c < d => place(groups[g][c]) < place(groups[g][d])
              /\ \A h \in DOMAIN groups : g < h =>
                    /\ rows[groups[g][1]].descriptor
                         # rows[groups[h][1]].descriptor
                    /\ place(groups[g][1]) < place(groups[h][1])
  <2>1. g \in 1..Len(groups)
    BY <1>7
  <2>2. DOMAIN groups[g] = 1..Len(groups[g])
    BY <1>7, <2>1
  <2>3. \A c, d \in DOMAIN groups[g] :
           /\ rows[groups[g][c]].descriptor = rows[groups[g][1]].descriptor
           /\ c < d => place(groups[g][c]) < place(groups[g][d])
    BY <1>6, <1>8, <2>1, <2>2
  <2>4. \A h \in DOMAIN groups : g < h =>
           /\ rows[groups[g][1]].descriptor # rows[groups[h][1]].descriptor
           /\ place(groups[g][1]) < place(groups[h][1])
    BY <1>6, <1>7, <1>9, <2>1
  <2> QED
    BY <2>3, <2>4
<1> QED
  BY <1>11, <1>12 DEF S, groups, place

(* However the rows of a license are read, each gets exactly one number and *)
(* every descriptor one group, in the order of the reading                  *)
(* (toNumberedEnvironmentalDescriptorRows).                                 *)
THEOREM NoGapInTheNumbers == Spec => []NumberedWithoutGaps
<1>1. IInv => NumberedWithoutGaps
  BY NumbersEveryRow DEF IInv
<1> QED
  BY <1>1, AlwaysIInv, PTL

-----------------------------------------------------------------------------
(* Going through a list *)

(* f is what one pass after the other makes of start. *)
Passes(f, n, start, step) ==
    f[0] = start /\ \A k \in 1..n : f[k] = step[<<k, f[k - 1]>>]

LEMMA PassesExist ==
    ASSUME NEW n \in Nat, NEW S, NEW start \in S,
           NEW step \in [(1..n) \X S -> S]
    PROVE  \E f \in [0..n -> S] : Passes(f, n, start, step)
<1> DEFINE Good == {k \in 0..n : \E f \in [0..k -> S] : Passes(f, k, start, step)}
<1>1. 0 \in Good
  <2> DEFINE f == [k \in 0..0 |-> start]
  <2>1. f \in [0..0 -> S] /\ Passes(f, 0, start, step)
    BY DEF Passes
  <2> HIDE DEF f
  <2> QED
    BY <2>1
<1>2. ASSUME NEW k \in 0..n, k # n, k \in Good
      PROVE  k + 1 \in Good
  <2>1. PICK f \in [0..k -> S] : Passes(f, k, start, step)
    BY <1>2
  <2>2. k \in Nat /\ k + 1 \in 1..n /\ k \in 0..k
    BY <1>2
  <2> DEFINE g == [i \in 0..(k + 1) |->
                     IF i = k + 1 THEN step[<<k + 1, f[k]>>] ELSE f[i]]
  <2>3. step[<<k + 1, f[k]>>] \in S
    BY <2>1, <2>2
  <2>4. g \in [0..(k + 1) -> S]
    BY <2>1, <2>2, <2>3
  <2>5. \A i \in 0..k : g[i] = f[i]
    BY <2>2
  <2>6. g[k + 1] = step[<<k + 1, f[k]>>]
    BY <2>2
  <2> HIDE DEF g
  <2>7. g[0] = start
    BY <2>1, <2>2, <2>5 DEF Passes
  <2>8. ASSUME NEW i \in 1..(k + 1)
        PROVE  g[i] = step[<<i, g[i - 1]>>]
    <3>1. CASE i = k + 1
      <4>1. i - 1 = k
        BY <2>2, <3>1
      <4> QED
        BY <2>2, <2>5, <2>6, <3>1, <4>1
    <3>2. CASE i # k + 1
      <4>1. i \in 1..k /\ i \in 0..k /\ i - 1 \in 0..k
        BY <2>2, <3>2
      <4> QED
        BY <2>1, <2>5, <4>1 DEF Passes
    <3> QED
      BY <3>1, <3>2
  <2>9. Passes(g, k + 1, start, step)
    BY <2>7, <2>8 DEF Passes
  <2>10. k + 1 \in 0..n
    BY <2>2
  <2> QED
    BY <2>4, <2>9, <2>10
<1>3. \A k \in 0..n : k \in Good
  <2> HIDE DEF Good
  <2> QED
    BY <1>1, <1>2, Upwards
<1>4. n \in Good
  <2> HIDE DEF Good
  <2> QED
    BY <1>3
<1> QED
  BY <1>4

-----------------------------------------------------------------------------
(* The items of an answer *)

Entry(item, heading) ==
    [descriptor |-> heading, number |-> item.number, text |-> item.text,
     introduces |-> item.introduces, type |-> item.type,
     periodicity |-> item.periodicity]

Entries == {Entry(item, heading) : item \in Items, heading \in Headings}

LEMMA EntryFields ==
    ASSUME NEW e \in Entries
    PROVE  /\ e.number \in Seq(Nat) /\ e.text \in Seq(Words)
           /\ e.introduces \in BOOLEAN
<1>1. PICK item \in Items, heading \in Headings : e = Entry(item, heading)
  BY DEF Entries
<1>2. /\ e.number = item.number /\ e.text = item.text
      /\ e.introduces = item.introduces
  BY <1>1 DEF Entry
<1> QED
  BY <1>2, AnswersAssumption DEF ParsedItem

LEMMA CarriedEntries ==
    ASSUME NEW section \in Section
    PROVE  Carried(section) \in Seq(Entries)
<1>1. /\ section.items \in Seq(Items) /\ section.descriptor \in Headings
      /\ Len(section.items) \in Nat
      /\ DOMAIN section.items = 1..Len(section.items)
  BY LenProperties DEF Section
<1>2. \A k \in 1..Len(section.items) : section.items[k] \in Items
  BY <1>1, ElementOfSeq
<1>3. Carried(section) =
         [k \in 1..Len(section.items) |->
            Entry(section.items[k], section.descriptor)]
  BY <1>1 DEF Carried, Entry
<1>4. \A k \in 1..Len(section.items) :
         Entry(section.items[k], section.descriptor) \in Entries
  BY <1>1, <1>2 DEF Entries
<1> QED
  BY <1>1, <1>3, <1>4

LEMMA AllItemsEntries ==
    ASSUME NEW sections \in Seq(Section)
    PROVE  AllItems(sections) \in Seq(Entries)
<1> DEFINE n == Len(sections)
           T == Seq(Entries)
           step == [p \in (1..n) \X T |-> p[2] \o Carried(sections[p[1]])]
           upTo == CHOOSE f : f = [k \in 0..n |->
                      IF k = 0 THEN <<>> ELSE f[k - 1] \o Carried(sections[k])]
<1>1. n \in Nat /\ \A k \in 1..n : Carried(sections[k]) \in T
  BY LenProperties, ElementOfSeq, CarriedEntries
<1>2. <<>> \in T /\ step \in [(1..n) \X T -> T]
  BY <1>1, ConcatProperties, EmptySeq
<1>3. PICK f \in [0..n -> T] : Passes(f, n, <<>>, step)
  <2> HIDE DEF n, T, step
  <2> QED
    BY <1>1, <1>2, PassesExist
<1>4. ASSUME NEW k \in 0..n
      PROVE  f[k] = IF k = 0 THEN <<>> ELSE f[k - 1] \o Carried(sections[k])
  <2>1. CASE k = 0
    BY <1>3, <2>1 DEF Passes
  <2>2. CASE k # 0
    <3>1. k \in 1..n /\ k - 1 \in 0..n
      BY <1>1, <2>2
    <3>2. f[k] = step[<<k, f[k - 1]>>] /\ f[k - 1] \in T
      BY <1>3, <3>1 DEF Passes
    <3> QED
      BY <2>2, <3>1, <3>2
  <2> QED
    BY <2>1, <2>2
<1>5. f = [k \in 0..n |->
             IF k = 0 THEN <<>> ELSE f[k - 1] \o Carried(sections[k])]
  BY <1>3, <1>4
<1>6. upTo = [k \in 0..n |->
                IF k = 0 THEN <<>> ELSE upTo[k - 1] \o Carried(sections[k])]
  BY <1>5, Zenon
<1> HIDE DEF upTo
<1> DEFINE Good == {k \in 0..n : upTo[k] \in T}
<1>7. \A k \in 0..n : k \in Good
  <2>1. 0 \in Good
    BY <1>1, <1>2, <1>6
  <2>2. ASSUME NEW k \in 0..n, k # n, k \in Good PROVE k + 1 \in Good
    <3>1. k + 1 \in 0..n /\ k + 1 \in 1..n /\ (k + 1) - 1 = k /\ k + 1 # 0
      BY <1>1, <2>2
    <3>2. upTo[k + 1] = upTo[k] \o Carried(sections[k + 1])
      BY <1>6, <3>1
    <3>3. upTo[k] \in T /\ Carried(sections[k + 1]) \in T
      BY <1>1, <2>2, <3>1
    <3>4. upTo[k] \o Carried(sections[k + 1]) \in T
      BY <3>3, ConcatProperties
    <3> HIDE DEF n, T
    <3> QED
      BY <3>1, <3>2, <3>4
  <2> HIDE DEF Good
  <2> QED
    BY <1>1, <2>1, <2>2, Upwards
<1>8. upTo[n] \in T
  <2>1. n \in 0..n
    BY <1>1
  <2> QED
    BY <1>7, <2>1
<1> QED
  BY <1>8 DEF AllItems, upTo

-----------------------------------------------------------------------------
(* What flattenSections keeps *)

(* s is what flattenSections has kept of the first n entries of all. *)
KeptOf(s, all, n) ==
    /\ s \in Seq(Entries)
    /\ Len(s) = Cardinality({k \in 1..n : Accepted(all, k)})
    /\ \A i \in 1..Len(s) : \E m \in 1..n :
          s[i] = all[m] /\ all[m].text # <<>>
    /\ \A i, j \in 1..Len(s) :
          i < j /\ s[i].number # <<>> => s[i].number # s[j].number

LEMMA KeptStep ==
    ASSUME NEW all \in Seq(Entries), NEW n \in Nat, n + 1 \in 1..Len(all),
           NEW s, KeptOf(s, all, n)
    PROVE  KeptOf(IF Accepted(all, n + 1) THEN Append(s, all[n + 1]) ELSE s,
                  all, n + 1)
<1> DEFINE Taken(m) == {k \in 1..m : Accepted(all, k)}
<1>1. /\ s \in Seq(Entries) /\ Len(s) \in Nat
      /\ Len(s) = Cardinality(Taken(n))
  BY LenProperties DEF KeptOf
<1>2. IsFiniteSet(Taken(n))
  <2>1. IsFiniteSet(1..n) /\ Taken(n) \subseteq 1..n
    BY FS_Interval
  <2> QED
    BY <2>1, FS_Subset
<1>3. CASE ~Accepted(all, n + 1)
  <2>1. Taken(n + 1) = Taken(n)
    <3>1. \A k \in 1..(n + 1) : k = n + 1 \/ k \in 1..n
      OBVIOUS
    <3>2. \A k \in 1..n : k \in 1..(n + 1)
      OBVIOUS
    <3> QED
      BY <1>3, <3>1, <3>2
  <2>2. \A m \in 1..n : m \in 1..(n + 1)
    OBVIOUS
  <2>3. Len(s) = Cardinality({k \in 1..(n + 1) : Accepted(all, k)})
    BY <1>1, <2>1
  <2>4. KeptOf(s, all, n + 1)
    BY <2>2, <2>3 DEF KeptOf
  <2> QED
    BY <1>3, <2>4
<1>4. CASE Accepted(all, n + 1)
  <2> DEFINE e == all[n + 1]
             t == Append(s, e)
  <2>1. e \in Entries
    BY ElementOfSeq
  <2>2. /\ t \in Seq(Entries) /\ Len(t) = Len(s) + 1
        /\ \A i \in 1..Len(s) : t[i] = s[i]
        /\ t[Len(s) + 1] = e
    <3> HIDE DEF e, Taken
    <3> QED
      BY <1>1, <2>1, AppendProperties
  <2>3. Taken(n + 1) = Taken(n) \cup {n + 1} /\ n + 1 \notin Taken(n)
    <3>1. \A k \in 1..(n + 1) : k = n + 1 \/ k \in 1..n
      OBVIOUS
    <3>2. \A k \in 1..n : k \in 1..(n + 1) /\ k # n + 1
      OBVIOUS
    <3> QED
      BY <1>4, <3>1, <3>2
  <2>4. Cardinality(Taken(n + 1)) = Cardinality(Taken(n)) + 1
    <3> HIDE DEF Taken
    <3> QED
      BY <1>2, <2>3, FS_AddElement
  <2> HIDE DEF t
  <2>5. \A i \in 1..Len(t) : i \in 1..Len(s) \/ i = Len(s) + 1
    BY <1>1, <2>2
  <2>6. \A i \in 1..Len(s) : \E m \in 1..n :
           s[i] = all[m] /\ all[m].text # <<>>
    BY DEF KeptOf
  <2>7. ASSUME NEW i \in 1..Len(t)
        PROVE  \E m \in 1..(n + 1) : t[i] = all[m] /\ all[m].text # <<>>
    <3>1. CASE i \in 1..Len(s)
      <4>1. PICK m \in 1..n : s[i] = all[m] /\ all[m].text # <<>>
        BY <2>6, <3>1
      <4>2. m \in 1..(n + 1)
        OBVIOUS
      <4> QED
        BY <2>2, <3>1, <4>1, <4>2
    <3>2. CASE i = Len(s) + 1
      BY <1>4, <2>2, <3>2 DEF Accepted
    <3> QED
      BY <2>5, <3>1, <3>2
  <2>8. ASSUME NEW i \in 1..Len(t), NEW j \in 1..Len(t),
               i < j, t[i].number # <<>>
        PROVE  t[i].number # t[j].number
    <3>1. i \in 1..Len(s)
      BY <1>1, <2>2, <2>8
    <3>2. CASE j \in 1..Len(s)
      BY <2>2, <2>8, <3>1, <3>2 DEF KeptOf
    <3>3. CASE j = Len(s) + 1
      <4>1. PICK m \in 1..n : s[i] = all[m] /\ all[m].text # <<>>
        BY <2>6, <3>1
      <4>2. m \in 1..((n + 1) - 1) /\ t[i] = all[m] /\ t[j] = e
        BY <2>2, <3>1, <3>3, <4>1
      <4> QED
        BY <1>4, <2>8, <4>1, <4>2 DEF Accepted
    <3> QED
      BY <2>5, <3>2, <3>3
  <2>9. Len(t) = Cardinality({k \in 1..(n + 1) : Accepted(all, k)})
    BY <1>1, <2>2, <2>4
  <2>10. KeptOf(t, all, n + 1)
    BY <2>2, <2>7, <2>8, <2>9 DEF KeptOf
  <2> QED
    BY <1>4, <2>10 DEF t
<1> QED
  BY <1>3, <1>4

LEMMA FlattenKeeps ==
    ASSUME NEW sections \in Seq(Section)
    PROVE  KeptOf(Flatten(sections), AllItems(sections), Len(AllItems(sections)))
<1> DEFINE all == AllItems(sections)
           n == Len(all)
           T == Seq(Entries)
           step == [p \in (1..n) \X T |->
                      IF Accepted(all, p[1]) THEN Append(p[2], all[p[1]])
                      ELSE p[2]]
           kept == CHOOSE f : f = [k \in 0..n |->
                      IF k = 0 THEN <<>>
                      ELSE IF Accepted(all, k) THEN Append(f[k - 1], all[k])
                      ELSE f[k - 1]]
<1>0. Flatten(sections) = kept[n]
  BY DEF Flatten
<1>1. all \in Seq(Entries)
  BY AllItemsEntries
<1> HIDE DEF all
<1>2. n \in Nat /\ \A k \in 1..n : all[k] \in Entries
  BY <1>1, LenProperties, ElementOfSeq
<1>3. <<>> \in T /\ step \in [(1..n) \X T -> T]
  BY <1>2, AppendProperties, EmptySeq
<1>4. PICK f \in [0..n -> T] : Passes(f, n, <<>>, step)
  <2> HIDE DEF n, T, step
  <2> QED
    BY <1>2, <1>3, PassesExist
<1>5. ASSUME NEW k \in 0..n
      PROVE  f[k] = IF k = 0 THEN <<>>
                    ELSE IF Accepted(all, k) THEN Append(f[k - 1], all[k])
                    ELSE f[k - 1]
  <2>1. CASE k = 0
    BY <1>4, <2>1 DEF Passes
  <2>2. CASE k # 0
    <3>1. k \in 1..n /\ k - 1 \in 0..n
      BY <1>2, <2>2
    <3>2. f[k] = step[<<k, f[k - 1]>>] /\ f[k - 1] \in T
      BY <1>4, <3>1 DEF Passes
    <3> QED
      BY <2>2, <3>1, <3>2
  <2> QED
    BY <2>1, <2>2
<1>6. f = [k \in 0..n |->
             IF k = 0 THEN <<>>
             ELSE IF Accepted(all, k) THEN Append(f[k - 1], all[k])
             ELSE f[k - 1]]
  BY <1>4, <1>5
<1>7. kept = [k \in 0..n |->
                IF k = 0 THEN <<>>
                ELSE IF Accepted(all, k) THEN Append(kept[k - 1], all[k])
                ELSE kept[k - 1]]
  BY <1>6, Zenon
<1> HIDE DEF kept
<1> DEFINE Good == {k \in 0..n : KeptOf(kept[k], all, k)}
<1>8. \A k \in 0..n : k \in Good
  <2>1. 0 \in Good
    <3>1. kept[0] = <<>> /\ 0 \in 0..n
      BY <1>2, <1>7
    <3>2. {k \in 1..0 : Accepted(all, k)} = {} /\ Cardinality({}) = 0
      BY FS_EmptySet
    <3>3. KeptOf(<<>>, all, 0)
      BY <3>2 DEF KeptOf
    <3> QED
      BY <3>1, <3>3
  <2>2. ASSUME NEW k \in 0..n, k # n, k \in Good PROVE k + 1 \in Good
    <3>1. k + 1 \in 0..n /\ k + 1 \in 1..n /\ (k + 1) - 1 = k /\ k + 1 # 0
      BY <1>2, <2>2
    <3>2. kept[k + 1] = IF Accepted(all, k + 1)
                        THEN Append(kept[k], all[k + 1]) ELSE kept[k]
      BY <1>7, <3>1
    <3>3. KeptOf(kept[k], all, k) /\ k \in Nat
      BY <2>2
    <3>4. KeptOf(kept[k + 1], all, k + 1)
      BY <1>1, <3>1, <3>2, <3>3, KeptStep
    <3> QED
      BY <3>1, <3>4
  <2> HIDE DEF Good
  <2> QED
    BY <1>2, <2>1, <2>2, Upwards
<1>9. KeptOf(kept[n], all, n)
  <2>1. n \in 0..n
    BY <1>2
  <2> QED
    BY <1>8, <2>1
<1> QED
  BY <1>0, <1>9 DEF all

-----------------------------------------------------------------------------
(* One item for each number *)

LEMMA OnePerNumber ==
    ASSUME NEW sections \in Seq(Section)
    PROVE  LET read == AllItems(sections)
               described == {k \in DOMAIN read : read[k].text # <<>>}
               unnumbered == {k \in described : read[k].number = <<>>}
               numbers == {read[k].number : k \in described} \ {<<>>}
           IN  /\ Len(Flatten(sections)) =
                     Cardinality(unnumbered) + Cardinality(numbers)
               /\ Cardinality(unnumbered) + Cardinality(numbers) \in Nat
<1> DEFINE read == AllItems(sections)
           n == Len(read)
           described == {k \in DOMAIN read : read[k].text # <<>>}
           unnumbered == {k \in described : read[k].number = <<>>}
           numbers == {read[k].number : k \in described} \ {<<>>}
           taken == {k \in 1..n : Accepted(read, k)}
           firsts == {k \in taken : read[k].number # <<>>}
           number == [k \in firsts |-> read[k].number]
<1>1. /\ Len(Flatten(sections)) = Cardinality(taken)
  BY FlattenKeeps DEF KeptOf
<1>2. n \in Nat /\ DOMAIN read = 1..n
  BY AllItemsEntries, LenProperties
<1> HIDE DEF read
<1>3. IsFiniteSet(1..n) /\ IsFiniteSet(taken) /\ IsFiniteSet(firsts)
      /\ IsFiniteSet(unnumbered)
  <2>1. IsFiniteSet(1..n)
    BY <1>2, FS_Interval
  <2>2. taken \subseteq 1..n /\ firsts \subseteq 1..n /\ unnumbered \subseteq 1..n
    BY <1>2
  <2> HIDE DEF taken, firsts, unnumbered
  <2> QED
    BY <2>1, <2>2, FS_Subset
<1>4. taken = unnumbered \cup firsts /\ unnumbered \cap firsts = {}
  <2>1. \A k \in unnumbered : k \in taken
    BY <1>2 DEF Accepted
  <2>2. \A k \in taken : k \in unnumbered \/ k \in firsts
    BY <1>2 DEF Accepted
  <2> QED
    BY <2>1, <2>2
<1>5. Cardinality(taken) = Cardinality(unnumbered) + Cardinality(firsts)
  <2> HIDE DEF taken, firsts, unnumbered
  <2>1. /\ Cardinality(unnumbered) \in Nat /\ Cardinality(firsts) \in Nat
    BY <1>3, FS_CardinalityType
  <2>2. Cardinality(unnumbered \cap firsts) = 0
    BY <1>4, FS_EmptySet
  <2>3. Cardinality(unnumbered \cup firsts) =
           Cardinality(unnumbered) + Cardinality(firsts)
              - Cardinality(unnumbered \cap firsts)
    BY <1>3, FS_Union
  <2> QED
    BY <1>4, <2>1, <2>2, <2>3
<1>6. number \in [firsts -> numbers]
  BY <1>2 DEF Accepted
<1>7. ASSUME NEW k \in firsts, NEW j \in firsts, number[k] = number[j]
      PROVE  k = j
  <2>1. \A a, b \in firsts : a < b => number[a] # number[b]
    BY <1>2 DEF Accepted
  <2>2. k \in Nat /\ j \in Nat
    BY <1>2
  <2> HIDE DEF firsts, number
  <2> QED
    BY <1>7, <2>1, <2>2
<1>8. ASSUME NEW v \in numbers
      PROVE  \E k \in firsts : number[k] = v
  <2> DEFINE printed == {k \in described : read[k].number = v}
  <2>1. printed # {} /\ printed \subseteq Nat /\ v # <<>>
    BY <1>2
  <2>2. PICK k \in printed : \A j \in printed : <<j, k>> \notin OpToRel(<, Nat)
    <3> HIDE DEF printed
    <3> QED
      BY <2>1, WFMin, NatLessThanWellFounded
  <2>3. \A j \in printed : ~(j < k)
    <3> HIDE DEF printed
    <3> QED
      BY <2>1, <2>2 DEF OpToRel
  <2>4. k \in 1..n /\ read[k].text # <<>> /\ read[k].number = v
    BY <1>2
  <2>5. ASSUME NEW j \in 1..(k - 1), read[j].text # <<>>
        PROVE  read[j].number # v
    <3>1. j \in 1..n /\ j < k
      BY <1>2, <2>4
    <3> QED
      BY <1>2, <2>3, <2>5, <3>1
  <2>6. Accepted(read, k)
    BY <2>4, <2>5 DEF Accepted
  <2>7. k \in firsts
    BY <2>1, <2>4, <2>6
  <2> QED
    BY <2>4, <2>7
<1> HIDE DEF number, firsts, numbers, unnumbered, taken
<1>9. number \in Injection(firsts, numbers)
  BY <1>6, <1>7 DEF Injection, IsInjective
<1>10. number \in Surjection(firsts, numbers)
  BY <1>6, <1>8 DEF Surjection
<1>11. /\ IsFiniteSet(numbers)
       /\ Cardinality(numbers) = Cardinality(firsts)
  BY <1>3, <1>9, <1>10, FS_Surjection
<1>12. Cardinality(unnumbered) \in Nat /\ Cardinality(numbers) \in Nat
  BY <1>3, <1>11, FS_CardinalityType
<1>13. /\ Len(Flatten(sections)) =
             Cardinality(unnumbered) + Cardinality(numbers)
       /\ Cardinality(unnumbered) + Cardinality(numbers) \in Nat
  BY <1>1, <1>5, <1>11, <1>12
<1> QED
  BY <1>13 DEF unnumbered, numbers, read

-----------------------------------------------------------------------------
(* What the client is told *)

(* A successful answer is made of a message of the model. *)
AnswerInv ==
    /\ stage = "read" => answer \in Answers \cup {None}
    /\ stage = "done" /\ response.status = 200 =>
          /\ answer \in Answers
          /\ response.extraction =
                Parse(answer.data, Flatten(answer.sections))

LEMMA AnswerStep == AnswerInv /\ [ExtractionNext]_extractionVars => AnswerInv'
<1> SUFFICES ASSUME AnswerInv, [ExtractionNext]_extractionVars
             PROVE  AnswerInv'
  OBVIOUS
<1>1. CASE Start
  BY <1>1 DEF Start, HasClient, Respond, AnswerInv, Unreadable, Unavailable
<1>2. CASE TimerFires
  BY <1>2 DEF TimerFires, AnswerInv
<1>3. CASE FinalMessage
  BY <1>3 DEF FinalMessage, AnswerInv
<1>4. CASE ReadFails
  BY <1>4 DEF ReadFails, Respond, AnswerInv, Unreadable, Unavailable, TimedOut
<1>5. CASE Finish
  <2>1. stage' = "done" /\ answer' = answer /\ answer \in Answers \cup {None}
    BY <1>5 DEF Finish, HasJson, Respond, AnswerInv
  <2>2. CASE answer = None
    BY <1>5, <2>1, <2>2 DEF Finish, HasJson, Respond, Unreadable, AnswerInv
  <2>3. CASE answer # None
    <3> DEFINE extraction == Parse(answer.data, Flatten(answer.sections))
    <3>1. response' = IF IsEmpty(extraction) THEN Unreadable
                      ELSE [status |-> 200, extraction |-> extraction]
      BY <1>5, <2>3 DEF Finish, HasJson, Respond
    <3> HIDE DEF extraction
    <3>2. response'.status = 200 => response'.extraction = extraction
      BY <3>1 DEF Unreadable
    <3>3. answer \in Answers
      BY <2>1, <2>3
    <3> QED
      BY <2>1, <3>2, <3>3 DEF AnswerInv, extraction
  <2> QED
    BY <2>2, <2>3
<1>6. CASE Again
  BY <1>6 DEF Again, AnswerInv
<1>7. CASE UNCHANGED extractionVars
  BY <1>7 DEF extractionVars, AnswerInv
<1> QED
  BY <1>1, <1>2, <1>3, <1>4, <1>5, <1>6, <1>7 DEF ExtractionNext

LEMMA AlwaysAnswerInv == ExtractionSpec => []AnswerInv
<1>1. ExtractionInit => AnswerInv
  BY DEF ExtractionInit, AnswerInv
<1> QED
  BY <1>1, AnswerStep, PTL DEF ExtractionSpec

LEMMA SuggestionOfItem ==
    ASSUME NEW data, NEW items \in Seq(Entries)
    PROVE  LET suggested == Parse(data, items).conditions
               most == IF Len(items) < MaxConditions THEN Len(items)
                       ELSE MaxConditions
           IN  /\ Len(suggested) = most /\ DOMAIN suggested = 1..most
               /\ most \in Nat /\ most <= Len(items)
               /\ \A k \in 1..most :
                     suggested[k].text = Cut(WithParentContext(items)[k])
<1> DEFINE texts == WithParentContext(items)
           all == [k \in DOMAIN items |-> Suggestion(items[k], texts[k])]
           most == IF Len(items) < MaxConditions THEN Len(items)
                   ELSE MaxConditions
           suggested == SubSeq(all, 1, most)
<1>1. Parse(data, items).conditions =
         SubSeq(all, 1, IF Len(all) < MaxConditions THEN Len(all)
                        ELSE MaxConditions)
  BY DEF Parse
<1>2. Len(items) \in Nat /\ DOMAIN items = 1..Len(items)
  BY LenProperties
<1>3. /\ Len(all) = Len(items)
      /\ \A k \in 1..Len(items) : all[k].text = Cut(texts[k])
  BY <1>2 DEF Suggestion
<1>4. most \in Nat /\ most <= Len(items)
  BY <1>2, AnswersAssumption
<1> HIDE DEF all, texts, most
<1>5. /\ Len(suggested) = most /\ DOMAIN suggested = 1..most
      /\ \A k \in 1..most : suggested[k] = all[k]
  BY <1>3, <1>4
<1> HIDE DEF suggested
<1>6. \A k \in 1..most : suggested[k].text = Cut(texts[k])
  BY <1>2, <1>3, <1>4, <1>5
<1>7. Parse(data, items).conditions = suggested
  BY <1>1, <1>3 DEF suggested, most
<1> QED
  BY <1>4, <1>5, <1>6, <1>7 DEF most, texts

(* Of every message that is read, parseLicenseExtraction suggests one       *)
(* condition for each printed number and one for each entry without a       *)
(* number, up to the cap.                                                   *)
THEOREM OneSuggestionForEachNumber == ExtractionSpec => []OneSuggestionPerNumber
<1>1. AnswerInv => OneSuggestionPerNumber
  <2> SUFFICES ASSUME AnswerInv, stage = "done", response.status = 200
               PROVE  OneSuggestionPerNumber
    BY DEF OneSuggestionPerNumber
  <2>1. /\ answer \in Answers /\ answer.sections \in Seq(Section)
        /\ Suggested = Parse(answer.data, Flatten(answer.sections)).conditions
    BY AnswersAssumption DEF AnswerInv, Message, Suggested
  <2>2. Flatten(answer.sections) \in Seq(Entries)
    BY <2>1, FlattenKeeps DEF KeptOf
  <2>3. Len(Suggested) =
           IF Len(Flatten(answer.sections)) < MaxConditions
           THEN Len(Flatten(answer.sections)) ELSE MaxConditions
    BY <2>1, <2>2, SuggestionOfItem
  <2> QED
    BY <2>1, <2>3, OnePerNumber DEF OneSuggestionPerNumber
<1> QED
  BY <1>1, AlwaysAnswerInv, PTL

-----------------------------------------------------------------------------
(* The context of an item *)

(* The items that hand their text down to items[k], and the text of items[k] *)
(* when above holds those of the items before it.                            *)
HandsDown(items, k) ==
    {j \in 1..(k - 1) : /\ Introductory(items[j]) /\ items[j].number # <<>>
                        /\ items[j].number = ParentNumber(items[k].number)}

InContext(items, above, k) ==
    IF Len(items[k].number) < 2 \/ HandsDown(items, k) = {} THEN items[k].text
    ELSE above[CHOOSE j \in HandsDown(items, k) : TRUE] \o items[k].text

LEMMA ContextOfEarlier ==
    ASSUME NEW items, NEW k \in Nat, NEW f, NEW g,
           \A j \in 1..(k - 1) : f[j] = g[j]
    PROVE  InContext(items, f, k) = InContext(items, g, k)
<1>1. CASE HandsDown(items, k) = {}
  BY <1>1 DEF InContext
<1>2. CASE HandsDown(items, k) # {}
  <2>1. (CHOOSE j \in HandsDown(items, k) : TRUE) \in HandsDown(items, k)
    BY <1>2
  <2>2. (CHOOSE j \in HandsDown(items, k) : TRUE) \in 1..(k - 1)
    BY <2>1 DEF HandsDown
  <2> QED
    BY <2>2 DEF InContext
<1> QED
  BY <1>1, <1>2

LEMMA ContextEquation ==
    ASSUME NEW items \in Seq(Entries), NEW k \in DOMAIN items
    PROVE  WithParentContext(items)[k] =
              InContext(items, WithParentContext(items), k)
<1> DEFINE N == Len(items)
           Solved(n) == \E f : f = [i \in 1..n |-> InContext(items, f, i)]
           Good == {n \in 0..N : Solved(n)}
           text == CHOOSE f : f = [i \in DOMAIN items |->
                                     InContext(items, f, i)]
<1>1. N \in Nat /\ DOMAIN items = 1..N
  BY LenProperties
<1>2. \A n \in 0..N : n \in Good
  <2>1. 0 \in Good
    <3> DEFINE f == [i \in 1..0 |-> {}]
    <3>1. f = [i \in 1..0 |-> InContext(items, f, i)]
      OBVIOUS
    <3> HIDE DEF f
    <3>2. Solved(0)
      BY <3>1, Zenon
    <3> HIDE DEF Solved
    <3> QED
      BY <1>1, <3>2
  <2>2. ASSUME NEW n \in 0..N, n # N, n \in Good PROVE n + 1 \in Good
    <3>0. Solved(n)
      <4> HIDE DEF Solved
      <4> QED
        BY <2>2
    <3>1. PICK f : f = [i \in 1..n |-> InContext(items, f, i)]
      BY <3>0, Zenon
    <3> DEFINE g == [i \in 1..(n + 1) |->
                       IF i = n + 1 THEN InContext(items, f, n + 1) ELSE f[i]]
    <3>2. n \in Nat /\ n + 1 \in 0..N
      <4> HIDE DEF Good, N
      <4> QED
        BY <1>1, <2>2
    <3>3. \A i \in 1..n : g[i] = f[i]
      BY <3>2
    <3>4. g[n + 1] = InContext(items, f, n + 1)
      BY <3>2
    <3>5. DOMAIN g = 1..(n + 1) /\ g = [i \in 1..(n + 1) |-> g[i]]
      OBVIOUS
    <3> HIDE DEF g
    <3>6. ASSUME NEW i \in 1..(n + 1)
          PROVE  g[i] = InContext(items, g, i)
      <4>1. i \in Nat /\ \A j \in 1..(i - 1) : j \in 1..n
        BY <3>2
      <4>2. InContext(items, f, i) = InContext(items, g, i)
        BY <3>3, <4>1, ContextOfEarlier
      <4>3. CASE i = n + 1
        BY <3>4, <4>2, <4>3
      <4>4. CASE i # n + 1
        <5>1. i \in 1..n
          BY <3>2, <4>4
        <5>2. f[i] = InContext(items, f, i)
          BY <3>1, <5>1, Zenon
        <5> QED
          BY <3>3, <4>2, <5>1, <5>2
      <4> QED
        BY <4>3, <4>4
    <3>7. g = [i \in 1..(n + 1) |-> InContext(items, g, i)]
      BY <3>5, <3>6
    <3>8. Solved(n + 1)
      BY <3>7, Zenon
    <3> HIDE DEF Solved
    <3> QED
      BY <3>2, <3>8
  <2> HIDE DEF Good
  <2> QED
    BY <1>1, <2>1, <2>2, Upwards
<1>3. N \in Good
  <2>1. N \in 0..N
    BY <1>1
  <2> HIDE DEF Good
  <2> QED
    BY <1>2, <2>1
<1>4. \E f : f = [i \in DOMAIN items |-> InContext(items, f, i)]
  <2>1. Solved(N)
    <3> HIDE DEF Solved
    <3> QED
      BY <1>3
  <2> QED
    BY <1>1, <2>1
<1>5. text = [i \in DOMAIN items |-> InContext(items, text, i)]
  BY <1>4, Zenon
<1>6. text = WithParentContext(items)
  BY DEF WithParentContext, InContext, HandsDown
<1> HIDE DEF text
<1>7. text[k] = InContext(items, text, k)
  BY <1>5, Zenon
<1> QED
  BY <1>6, <1>7

(* The texts of the introductory items at level n above number. *)
Above(items, number) ==
    {j \in DOMAIN items : Introductory(items[j])
                            /\ IsAncestor(items[j].number, number)}
AtLevel(items, number, n) ==
    {items[j].text : j \in {a \in Above(items, number) :
                              Len(items[a].number) = n}}

(* upTo[n] is what the levels up to n hand down to number. *)
HandedTo(upTo, items, number) ==
    /\ upTo[0] = <<>>
    /\ \A n \in 1..Len(number) :
          upTo[n] = IF AtLevel(items, number, n) = {} THEN upTo[n - 1]
                    ELSE upTo[n - 1] \o CHOOSE t \in AtLevel(items, number, n) :
                                            TRUE

LEMMA IntroductionsEquation ==
    ASSUME NEW items \in Seq(Entries), NEW k \in DOMAIN items
    PROVE  \E upTo \in [0..Len(items[k].number) -> Seq(Words)] :
              /\ HandedTo(upTo, items, items[k].number)
              /\ Introductions(items, k) = upTo[Len(items[k].number)]
<1> DEFINE number == items[k].number
           m == Len(number)
           T == Seq(Words)
           Level(n) == AtLevel(items, number, n)
           step == [p \in (1..m) \X T |->
                      IF Level(p[1]) = {} THEN p[2]
                      ELSE p[2] \o CHOOSE t \in Level(p[1]) : TRUE]
           upTo == CHOOSE f : f = [n \in 0..m |->
                      IF n = 0 THEN <<>>
                      ELSE IF Level(n) = {} THEN f[n - 1]
                      ELSE f[n - 1] \o CHOOSE t \in Level(n) : TRUE]
<1>1. Introductions(items, k) = upTo[m]
  BY DEF Introductions, AtLevel, Above
<1>2. DOMAIN items = 1..Len(items) /\ \A j \in DOMAIN items : items[j] \in Entries
  BY LenProperties, ElementOfSeq
<1>3. number \in Seq(Nat) /\ m \in Nat
  BY <1>2, EntryFields, LenProperties
<1>4. \A n : Level(n) \subseteq T
  BY <1>2, EntryFields DEF AtLevel, Above
<1> HIDE DEF Level, m
<1>5. \A n : Level(n) # {} => (CHOOSE t \in Level(n) : TRUE) \in T
  BY <1>4
<1>6. <<>> \in T /\ step \in [(1..m) \X T -> T]
  BY <1>5, ConcatProperties, EmptySeq
<1>7. PICK f \in [0..m -> T] : Passes(f, m, <<>>, step)
  <2> HIDE DEF T, step
  <2> QED
    BY <1>3, <1>6, PassesExist
<1>8. ASSUME NEW n \in 0..m
      PROVE  f[n] = IF n = 0 THEN <<>>
                    ELSE IF Level(n) = {} THEN f[n - 1]
                    ELSE f[n - 1] \o CHOOSE t \in Level(n) : TRUE
  <2>1. CASE n = 0
    BY <1>7, <2>1 DEF Passes
  <2>2. CASE n # 0
    <3>1. n \in 1..m /\ n - 1 \in 0..m
      BY <1>3, <2>2
    <3>2. f[n] = step[<<n, f[n - 1]>>] /\ f[n - 1] \in T
      BY <1>7, <3>1 DEF Passes
    <3> QED
      BY <2>2, <3>1, <3>2
  <2> QED
    BY <2>1, <2>2
<1>9. f = [n \in 0..m |->
             IF n = 0 THEN <<>>
             ELSE IF Level(n) = {} THEN f[n - 1]
             ELSE f[n - 1] \o CHOOSE t \in Level(n) : TRUE]
  BY <1>7, <1>8
<1>10. upTo = [n \in 0..m |->
                 IF n = 0 THEN <<>>
                 ELSE IF Level(n) = {} THEN upTo[n - 1]
                 ELSE upTo[n - 1] \o CHOOSE t \in Level(n) : TRUE]
  BY <1>9, Zenon
<1> HIDE DEF upTo
<1> DEFINE Good == {n \in 0..m : upTo[n] \in T}
<1>11. \A n \in 0..m : n \in Good
  <2>1. 0 \in Good
    BY <1>3, <1>6, <1>10
  <2>2. ASSUME NEW n \in 0..m, n # m, n \in Good PROVE n + 1 \in Good
    <3>1. n + 1 \in 0..m /\ (n + 1) - 1 = n /\ n + 1 # 0
      BY <1>3, <2>2
    <3>2. upTo[n + 1] = IF Level(n + 1) = {} THEN upTo[n]
                        ELSE upTo[n] \o CHOOSE t \in Level(n + 1) : TRUE
      BY <1>10, <3>1
    <3>3. CASE Level(n + 1) = {}
      BY <2>2, <3>1, <3>2, <3>3
    <3>4. CASE Level(n + 1) # {}
      <4>1. (CHOOSE t \in Level(n + 1) : TRUE) \in T
        BY <1>5, <3>4
      <4>2. upTo[n + 1] = upTo[n] \o CHOOSE t \in Level(n + 1) : TRUE
        BY <3>2, <3>4
      <4>3. upTo[n + 1] \in T
        BY <2>2, <4>1, <4>2, ConcatProperties
      <4> QED
        BY <3>1, <4>3
    <3> QED
      BY <3>3, <3>4
  <2> HIDE DEF Good
  <2> QED
    BY <1>3, <2>1, <2>2, Upwards
<1>12. upTo \in [0..m -> T]
  <2>1. DOMAIN upTo = 0..m
    BY <1>10, Zenon
  <2>2. upTo = [n \in 0..m |-> upTo[n]]
    BY <1>10, <2>1, Zenon
  <2>3. \A n \in 0..m : upTo[n] \in T
    BY <1>11
  <2> QED
    BY <2>2, <2>3
<1>13. HandedTo(upTo, items, number)
  <2>1. upTo[0] = <<>>
    BY <1>3, <1>10
  <2>2. ASSUME NEW n \in 1..m
        PROVE  upTo[n] = IF Level(n) = {} THEN upTo[n - 1]
                         ELSE upTo[n - 1] \o CHOOSE t \in Level(n) : TRUE
    <3>1. n \in 0..m /\ n # 0
      BY <1>3
    <3> QED
      BY <1>10, <3>1
  <2> QED
    BY <2>1, <2>2 DEF HandedTo, Level, m
<1> QED
  BY <1>1, <1>12, <1>13 DEF m

(* No two items share a printed number. *)
NumbersDiffer(items) ==
    \A i, j \in 1..Len(items) :
       i < j /\ items[i].number # <<>> => items[i].number # items[j].number

(* All the levels above an item are introductory. *)
Introduced(items, k) ==
    \A n \in 1..(Len(items[k].number) - 1) :
       \E j \in DOMAIN items :
          Introductory(items[j])
          /\ items[j].number = SubSeq(items[k].number, 1, n)

LEMMA HandedUnique ==
    ASSUME NEW items, NEW number, Len(number) \in Nat,
           NEW q, Len(q) \in Nat, Len(number) <= Len(q),
           NEW f, HandedTo(f, items, number), NEW g, HandedTo(g, items, q),
           NEW m \in 0..Len(number),
           \A n \in 1..m : AtLevel(items, number, n) = AtLevel(items, q, n)
    PROVE  f[m] = g[m]
<1> DEFINE Good == {n \in 0..m : f[n] = g[n]}
<1>1. 0 \in Good
  BY DEF HandedTo
<1>2. ASSUME NEW n \in 0..m, n # m, n \in Good PROVE n + 1 \in Good
  <2>1. /\ n + 1 \in 1..m /\ n + 1 \in 1..Len(number) /\ n + 1 \in 1..Len(q)
        /\ (n + 1) - 1 = n /\ n + 1 \in 0..m
    BY <1>2
  <2>2. f[n + 1] = IF AtLevel(items, number, n + 1) = {} THEN f[n]
                   ELSE f[n] \o CHOOSE t \in AtLevel(items, number, n + 1) : TRUE
    BY <2>1 DEF HandedTo
  <2>3. g[n + 1] = IF AtLevel(items, q, n + 1) = {} THEN g[n]
                   ELSE g[n] \o CHOOSE t \in AtLevel(items, q, n + 1) : TRUE
    BY <2>1 DEF HandedTo
  <2>4. AtLevel(items, number, n + 1) = AtLevel(items, q, n + 1)
    BY <2>1
  <2>5. f[n] = g[n]
    BY <1>2
  <2> QED
    BY <2>1, <2>2, <2>3, <2>4, <2>5
<1>3. \A n \in 0..m : n \in Good
  <2> HIDE DEF Good
  <2> QED
    BY <1>1, <1>2, Upwards
<1> QED
  BY <1>3

LEMMA NothingAtOwnLevel ==
    ASSUME NEW items, NEW number, NEW n, ~(n < Len(number))
    PROVE  AtLevel(items, number, n) = {}
BY DEF AtLevel, Above, IsAncestor

(* A number of at most one part has nothing above it. *)
LEMMA NothingAboveTheFirstLevel ==
    ASSUME NEW items \in Seq(Entries), NEW k \in DOMAIN items,
           Len(items[k].number) < 2
    PROVE  FullText(items, k) = items[k].text
<1> DEFINE number == items[k].number
<1>1. PICK upTo \in [0..Len(number) -> Seq(Words)] :
         HandedTo(upTo, items, number)
         /\ Introductions(items, k) = upTo[Len(number)]
  BY IntroductionsEquation
<1>2. items[k] \in Entries
  BY LenProperties, ElementOfSeq
<1>3. items[k].text \in Seq(Words) /\ Len(number) \in Nat
  BY <1>2, EntryFields, LenProperties
<1>4. upTo[Len(number)] = <<>>
  <2>1. CASE Len(number) = 0
    BY <1>1, <2>1 DEF HandedTo
  <2>2. CASE Len(number) = 1
    <3>1. AtLevel(items, number, 1) = {}
      <4>1. ~(1 < Len(number))
        BY <2>2
      <4> HIDE DEF number
      <4> QED
        BY <4>1, NothingAtOwnLevel
    <3>2. upTo[1] = upTo[0] /\ upTo[0] = <<>>
      BY <1>1, <2>2, <3>1 DEF HandedTo
    <3> QED
      BY <2>2, <3>2
  <2>3. Len(number) = 0 \/ Len(number) = 1
    <3>1. Len(number) \in Nat /\ Len(number) < 2
      BY <1>3
    <3> DEFINE m == Len(number)
    <3> HIDE DEF number
    <3>2. m \in Nat /\ m < 2
      BY <3>1
    <3> HIDE DEF m
    <3>3. m = 0 \/ m = 1
      BY <3>2
    <3> QED
      BY <3>3 DEF m
  <2> QED
    BY <2>1, <2>2, <2>3
<1> QED
  BY <1>1, <1>3, <1>4, ConcatEmptySeq DEF FullText

(* Right under an introductory item, the text above is the full text of     *)
(* that item.                                                               *)
LEMMA ParentHandsDown ==
    ASSUME NEW items \in Seq(Entries), NumbersDiffer(items),
           NEW k \in DOMAIN items, Len(items[k].number) >= 2,
           NEW j \in DOMAIN items, Introductory(items[j]),
           items[j].number = ParentNumber(items[k].number)
    PROVE  Introductions(items, k) = FullText(items, j)
<1> DEFINE q == items[k].number
           p == items[j].number
<1>1. /\ items[k] \in Entries /\ items[j] \in Entries
      /\ DOMAIN items = 1..Len(items) /\ Len(items) \in Nat
  BY LenProperties, ElementOfSeq
<1>2. q \in Seq(Nat) /\ p \in Seq(Nat) /\ Len(q) \in Nat /\ Len(p) \in Nat
  BY <1>1, EntryFields, LenProperties
<1>3. Len(p) = Len(q) - 1 /\ \A i \in 1..Len(p) : p[i] = q[i]
  BY <1>2 DEF ParentNumber
<1>3a. /\ Len(p) \in Nat /\ Len(q) \in Nat /\ Len(q) - 1 = Len(p)
       /\ Len(p) < Len(q)
  BY <1>2, <1>3
<1>4. p # <<>>
  BY <1>3
<1>5. PICK f \in [0..Len(p) -> Seq(Words)] :
         HandedTo(f, items, p) /\ Introductions(items, j) = f[Len(p)]
  BY IntroductionsEquation
<1>6. PICK g \in [0..Len(q) -> Seq(Words)] :
         HandedTo(g, items, q) /\ Introductions(items, k) = g[Len(q)]
  BY IntroductionsEquation
<1>7. ASSUME NEW n \in 1..(Len(p) - 1)
      PROVE  AtLevel(items, p, n) = AtLevel(items, q, n)
  <2>1. ASSUME NEW a \in DOMAIN items, Len(items[a].number) = n
        PROVE  a \in Above(items, p) <=> a \in Above(items, q)
    <3>1. SubSeq(p, 1, n) = SubSeq(q, 1, n)
      <4>1. p \in Seq(Nat) /\ n \in Nat /\ n <= Len(p) /\ p = SubSeq(q, 1, Len(q) - 1)
        BY <1>2 DEF ParentNumber
      <4>2. /\ SubSeq(p, 1, n) = [i \in 1..n |-> p[i]]
            /\ SubSeq(q, 1, n) = [i \in 1..n |-> q[i]]
        BY <1>2, <1>3, <4>1
      <4>3. \A i \in 1..n : i \in 1..Len(p)
        <5> HIDE DEF p, q
        <5> QED
          BY <1>2
      <4>4. \A i \in 1..n : p[i] = q[i]
        BY <1>3, <4>3
      <4> QED
        BY <4>2, <4>4
    <3>2. n < Len(p) /\ n < Len(q)
      BY <1>3a
    <3> QED
      BY <2>1, <3>1, <3>2 DEF Above, IsAncestor
  <2>2. {a \in Above(items, p) : Len(items[a].number) = n}
           = {a \in Above(items, q) : Len(items[a].number) = n}
    BY <2>1 DEF Above
  <2> QED
    BY <2>2 DEF AtLevel
<1>8. /\ Len(p) - 1 \in 0..Len(p) /\ Len(p) \in 1..Len(p)
      /\ Len(p) \in 1..Len(q) /\ Len(q) \in 1..Len(q)
  BY <1>2, <1>3
<1>9. f[Len(p) - 1] = g[Len(p) - 1]
  <2> DEFINE m == Len(p) - 1
  <2> HIDE DEF p, q
  <2>1. \A n \in 1..m : AtLevel(items, p, n) = AtLevel(items, q, n)
    BY <1>7
  <2>2. m \in 0..Len(p) /\ Len(p) <= Len(q)
    BY <1>3a, <1>8
  <2>3. HandedTo(f, items, p) /\ HandedTo(g, items, q)
    BY <1>5, <1>6
  <2> HIDE DEF m
  <2>4. f[m] = g[m]
    BY <1>3a, <2>1, <2>2, <2>3, HandedUnique
  <2> QED
    BY <2>4 DEF m
<1>10. f[Len(p)] = f[Len(p) - 1]
  <2> HIDE DEF p, q
  <2>1. AtLevel(items, p, Len(p)) = {}
    BY <1>3a, NothingAtOwnLevel
  <2> QED
    BY <1>5, <1>8, <2>1 DEF HandedTo
<1>11. g[Len(q)] = g[Len(p)]
  <2> HIDE DEF p, q
  <2>1. AtLevel(items, q, Len(q)) = {}
    BY <1>3a, NothingAtOwnLevel
  <2>2. g[Len(q)] = g[Len(q) - 1]
    BY <1>6, <1>8, <2>1 DEF HandedTo
  <2> QED
    BY <1>3a, <2>2
<1>12. AtLevel(items, q, Len(p)) = {items[j].text}
  <2>1. SubSeq(q, 1, Len(p)) = p
    BY <1>3 DEF ParentNumber
  <2>2. j \in Above(items, q)
    <3>1. IsAncestor(p, q)
      BY <1>3a, <1>4, <2>1 DEF IsAncestor
    <3> QED
      BY <3>1 DEF Above
  <2>3. ASSUME NEW a \in Above(items, q), Len(items[a].number) = Len(p)
        PROVE  a = j
    <3>1. a \in DOMAIN items /\ items[a].number = p
      BY <2>1, <2>3 DEF Above, IsAncestor
    <3> HIDE DEF p
    <3>2. a \in 1..Len(items) /\ j \in 1..Len(items) /\ items[j].number = p
      BY <1>1, <3>1 DEF p
    <3> QED
      BY <1>1, <1>4, <3>1, <3>2 DEF NumbersDiffer
  <2>4. {a \in Above(items, q) : Len(items[a].number) = Len(p)} = {j}
    BY <2>2, <2>3
  <2> QED
    BY <2>4 DEF AtLevel
<1>13. g[Len(p)] = g[Len(p) - 1] \o items[j].text
  <2>1. g[Len(p)] = IF AtLevel(items, q, Len(p)) = {} THEN g[Len(p) - 1]
                    ELSE g[Len(p) - 1]
                           \o CHOOSE t \in AtLevel(items, q, Len(p)) : TRUE
    BY <1>6, <1>8 DEF HandedTo
  <2>2. (CHOOSE t \in {items[j].text} : TRUE) = items[j].text
    OBVIOUS
  <2> HIDE DEF p, q
  <2> QED
    BY <1>12, <2>1, <2>2
<1>14. Introductions(items, k) = Introductions(items, j) \o items[j].text
  BY <1>5, <1>6, <1>9, <1>10, <1>11, <1>13
<1> QED
  BY <1>14 DEF FullText

(* withParentContext gives an item the texts of all the levels above it, if *)
(* none is missing.                                                         *)
LEMMA FullContext ==
    ASSUME NEW items \in Seq(Entries), NumbersDiffer(items), InOrder(items),
           NEW k \in DOMAIN items, Introduced(items, k)
    PROVE  WithParentContext(items)[k] = FullText(items, k)
<1> DEFINE texts == WithParentContext(items)
           N == Len(items)
           Good == {n \in 0..N : \A i \in 1..n :
                      Introduced(items, i) => texts[i] = FullText(items, i)}
<1>1. N \in Nat /\ DOMAIN items = 1..N
  BY LenProperties
<1>2. ASSUME NEW i \in 1..N, Introduced(items, i),
             \A h \in 1..(i - 1) :
                Introduced(items, h) => texts[h] = FullText(items, h)
      PROVE  texts[i] = FullText(items, i)
  <2> DEFINE q == items[i].number
  <2>1. texts[i] = InContext(items, texts, i)
    BY <1>1, ContextEquation
  <2>2. items[i] \in Entries /\ q \in Seq(Nat) /\ Len(q) \in Nat
    BY <1>1, ElementOfSeq, EntryFields, LenProperties
  <2> HIDE DEF texts
  <2>3. CASE Len(q) < 2
    BY <1>1, <2>1, <2>3, NothingAboveTheFirstLevel DEF InContext
  <2>4. CASE Len(q) >= 2
    <3>0. ~(Len(q) < 2) /\ \A h : {h} # {}
      BY <2>2, <2>4
    <3>1. Len(q) - 1 \in 1..(Len(q) - 1)
      BY <2>2, <2>4
    <3>2. PICK j \in DOMAIN items :
             Introductory(items[j])
             /\ items[j].number = SubSeq(q, 1, Len(q) - 1)
      BY <1>2, <3>1 DEF Introduced
    <3> DEFINE p == items[j].number
    <3>3. p = ParentNumber(q) /\ p \in Seq(Nat)
      BY <1>1, <3>2, ElementOfSeq, EntryFields DEF ParentNumber
    <3>4. Len(p) = Len(q) - 1 /\ \A a \in 1..Len(p) : p[a] = q[a]
      BY <2>2, <2>4, <3>3 DEF ParentNumber
    <3>5. p # <<>>
      BY <2>4, <3>4
    <3>6. j < i /\ j \in 1..(i - 1)
      <4>1. SubSeq(q, 1, Len(p)) = p
        BY <3>2, <3>4
      <4>2. IsAncestor(p, q)
        BY <2>2, <3>4, <3>5, <4>1 DEF IsAncestor
      <4>3. j < i
        BY <1>1, <4>2 DEF InOrder
      <4> QED
        BY <1>1, <4>3
    <3>7. HandsDown(items, i) = {j}
      <4>1. j \in HandsDown(items, i)
        BY <3>2, <3>3, <3>5, <3>6 DEF HandsDown
      <4>2. ASSUME NEW a \in HandsDown(items, i) PROVE a = j
        <5>1. a \in 1..(i - 1) /\ items[a].number = p
          BY <3>3, <4>2 DEF HandsDown
        <5> HIDE DEF p
        <5>2. a \in 1..N /\ j \in 1..N /\ items[j].number = p
          BY <1>1, <5>1 DEF p
        <5> QED
          BY <1>1, <3>5, <5>1, <5>2 DEF NumbersDiffer
      <4> QED
        BY <4>1, <4>2
    <3>8. texts[i] = texts[j] \o items[i].text
      <4>1. (CHOOSE h \in {j} : TRUE) = j
        OBVIOUS
      <4> QED
        BY <2>1, <3>0, <3>7, <4>1 DEF InContext
    <3>9. Introduced(items, j)
      <4> SUFFICES ASSUME NEW n \in 1..(Len(p) - 1)
                   PROVE  \E a \in DOMAIN items :
                             Introductory(items[a])
                             /\ items[a].number = SubSeq(p, 1, n)
        BY DEF Introduced
      <4>1. n \in 1..(Len(q) - 1) /\ n \in Nat /\ n <= Len(p) /\ n <= Len(q)
        BY <2>2, <3>4
      <4>2. SubSeq(p, 1, n) = SubSeq(q, 1, n)
        <5>1. /\ SubSeq(p, 1, n) = [a \in 1..n |-> p[a]]
              /\ SubSeq(q, 1, n) = [a \in 1..n |-> q[a]]
          BY <2>2, <3>3, <4>1
        <5>2. \A a \in 1..n : p[a] = q[a]
          BY <3>4, <4>1
        <5> QED
          BY <5>1, <5>2
      <4>3. PICK a \in DOMAIN items :
               Introductory(items[a]) /\ items[a].number = SubSeq(q, 1, n)
        BY <1>2, <4>1 DEF Introduced
      <4> QED
        BY <4>2, <4>3
    <3>10. texts[j] = FullText(items, j)
      BY <1>2, <3>6, <3>9
    <3>11. Introductions(items, i) = FullText(items, j)
      BY <1>1, <2>4, <3>2, <3>3, ParentHandsDown
    <3> QED
      BY <3>8, <3>10, <3>11 DEF FullText
  <2> QED
    BY <2>2, <2>3, <2>4
<1>3. \A n \in 0..N : n \in Good
  <2>1. 0 \in Good
    BY <1>1
  <2>2. ASSUME NEW n \in 0..N, n # N, n \in Good PROVE n + 1 \in Good
    <3>1. n \in Nat /\ n + 1 \in 1..N /\ n + 1 \in 0..N /\ (n + 1) - 1 = n
      <4> HIDE DEF Good, N
      <4> QED
        BY <1>1, <2>2
    <3>2. \A h \in 1..n : Introduced(items, h) => texts[h] = FullText(items, h)
      BY <2>2
    <3>3. \A h \in 1..((n + 1) - 1) :
             Introduced(items, h) => texts[h] = FullText(items, h)
      BY <3>1, <3>2
    <3> HIDE DEF texts
    <3>4. Introduced(items, n + 1) => texts[n + 1] = FullText(items, n + 1)
      BY <1>2, <3>1, <3>3
    <3>5. \A h \in 1..(n + 1) : h = n + 1 \/ h \in 1..n
      BY <3>1
    <3> QED
      BY <3>1, <3>2, <3>4, <3>5
  <2> HIDE DEF Good
  <2> QED
    BY <1>1, <2>1, <2>2, Upwards
<1>4. N \in Good
  <2>1. N \in 0..N
    BY <1>1
  <2> HIDE DEF Good
  <2> QED
    BY <1>3, <2>1
<1> QED
  BY <1>1, <1>4

(* Whatever the model answers, a suggestion under introductory items starts *)
(* with the text of each, outermost first, as far as there is room.         *)
THEOREM ContextIsHandedDown == ExtractionSpec => []ContextHandedDown
<1>1. AnswerInv => ContextHandedDown
  <2> SUFFICES ASSUME AnswerInv, stage = "done", response.status = 200
               PROVE  ContextHandedDown
    BY DEF ContextHandedDown
  <2> DEFINE items == Flatten(answer.sections)
  <2>1. /\ answer \in Answers /\ answer.sections \in Seq(Section)
        /\ Suggested = Parse(answer.data, items).conditions
    BY AnswersAssumption DEF AnswerInv, Message, Suggested
  <2>2. items \in Seq(Entries) /\ NumbersDiffer(items)
    BY <2>1, FlattenKeeps DEF KeptOf, NumbersDiffer
  <2> HIDE DEF items
  <2>3. DOMAIN items = 1..Len(items) /\ Len(items) \in Nat
    BY <2>2, LenProperties
  <2>4. \A k \in DOMAIN Suggested :
           k \in DOMAIN items
           /\ Suggested[k].text = Cut(WithParentContext(items)[k])
    BY <2>1, <2>2, <2>3, SuggestionOfItem
  <2>5. ASSUME InOrder(items), NEW k \in DOMAIN Suggested,
               Introduced(items, k)
        PROVE  Suggested[k].text = Cut(FullText(items, k))
    BY <2>2, <2>4, <2>5, FullContext
  <2> QED
    BY <2>5 DEF ContextHandedDown, Introduced, items
<1> QED
  BY <1>1, AlwaysAnswerInv, PTL
=============================================================================
