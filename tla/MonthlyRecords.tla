--------------------------- MODULE MonthlyRecords ---------------------------
(* The monthly values of one customer's ESG indicators: SaveEsgIndicators-  *)
(* UseCase, whose transaction writes one row after the other at READ        *)
(* COMMITTED, and the two use cases that read a month, in several queries,  *)
(* while saves commit and the customer's indicators are replaced.           *)
EXTENDS Integers, Sequences, FiniteSets

CONSTANTS
    Requests,     \* each saves a month, or reads a month or the summary
    Indicators,
    Months,       \* the months that occur, as <<year, month>>
    Values,
    MaxChanges,   \* bound on the changes of one request
    MaxRows,      \* bound on the records there are at first
    None          \* SQL NULL, no row, and "no month asked for"

Untouched == "untouched"

ASSUME ValuesAssumption ==
    /\ None \notin Values \cup Indicators \cup Months
    /\ Untouched \notin Values \cup {None}
    /\ Months \subseteq Int \X (1..12) /\ IsFiniteSet(Months)
    /\ MaxChanges \in Nat

VARIABLES
    linked,       \* the customer's indicators
    records,      \* esg_indicator_record: the value of each indicator and month
    pc,           \* how far each request has come
    job,          \* the month and the changes of a save
    next,         \* the change a transaction is about to apply
    writes,       \* what an open transaction has written: indicator -> value
    inserted,     \* the rows its removals passed by: another save inserted
                  \* them and had not committed (history)
    view,         \* what it answers with: "list", "summary" or "latest",
                  \* a summary whose month was not asked for
    page,         \* what it has read so far
    quiet         \* nothing was committed since it began to read (history)

tables == <<linked, records>>
saving == <<job, next, writes, inserted>>
reading == <<view, page, quiet>>
vars == <<linked, records, pc, job, next, writes, inserted, view, page, quiet>>

Change == Indicators \X (Values \cup {None})
Lists == UNION {[1..n -> Change] : n \in 0..MaxChanges}
NoJob == [month |-> None, changes |-> <<>>]

NoWrites == [i \in Indicators |-> Untouched]

Empty == [i \in Indicators |-> None]
Page(month) == [got |-> {}, indicators |-> {}, month |-> month,
                current |-> Empty, previous |-> Empty]

-----------------------------------------------------------------------------
(* Months *)

(* Date.UTC(year, month - 1) carries a month 0 over to the year before. *)
MutantPreviousMonth(m) == <<m[1], IF m[2] = 1 THEN 12 ELSE m[2] - 1>>
PreviousMonth(m) ==
    IF m[2] = 1 THEN <<m[1] - 1, 12>> ELSE <<m[1], m[2] - 1>>

Later(m, n) == m[1] > n[1] \/ (m[1] = n[1] /\ m[2] > n[2])

(* findValuesByMonth.  A month outside Months has no record. *)
ValuesOf(m) ==
    [i \in Indicators |-> IF m \in Months THEN records[i, m] ELSE None]

(* findLatestMonth: records of indicators no longer linked do not count. *)
Reported == {m \in Months : \E i \in linked : records[i, m] # None}
LatestMonth ==
    IF Reported = {} THEN None
    ELSE CHOOSE m \in Reported : \A n \in Reported : ~Later(n, m)

-----------------------------------------------------------------------------

Goto(r, from, to) == pc[r] = from /\ pc' = [pc EXCEPT ![r] = to]

Disturb == quiet' = [r \in Requests |-> FALSE]

(* The read of a month that follows. *)
StartReading(r, kind, month) ==
    /\ view' = [view EXCEPT ![r] = kind]
    /\ page' = [page EXCEPT ![r] = Page(month)]

-----------------------------------------------------------------------------
(* Saving a month *)

Mentioned(changes) == {changes[k][1] : k \in DOMAIN changes}
Distinct(changes) == Cardinality(Mentioned(changes)) = Len(changes)
Configured(changes) == Mentioned(changes) \subseteq linked

(* The checks, and the begin of the transaction: what comes between the two *)
(* is a request that has begun and applied nothing.                         *)
ReceiveSave(s) ==
    \E m \in Months, changes \in Lists :
        /\ Distinct(changes) /\ Configured(changes)
        /\ IF changes = <<>>
           THEN /\ Goto(s, "idle", "reading")
                /\ StartReading(s, "list", m)
                /\ quiet' = [quiet EXCEPT ![s] = TRUE]
                /\ UNCHANGED job
           ELSE /\ Goto(s, "idle", "inTx")
                /\ job' = [job EXCEPT ![s] = [month |-> m, changes |-> changes]]
                /\ UNCHANGED reading
        /\ UNCHANGED <<tables, next, writes, inserted>>

(* An unknown customer, a bad month, an indicator listed twice or one the   *)
(* customer does not report.                                                *)
RejectSave(s) ==
    /\ Goto(s, "idle", "done")
    /\ UNCHANGED <<tables, saving, reading>>

InTx(s) == pc[s] = "inTx"
Pending(s) == InTx(s) /\ next[s] \in DOMAIN job[s].changes
Target(s) == job[s].changes[next[s]][1]
Value(s) == job[s].changes[next[s]][2]
Stored(s, i) == records[i, job[s].month]

(* s and t write the same row, if they write the same indicator. *)
MutantSameMonth(s, t) == TRUE
SameMonth(s, t) == job[s].month = job[t].month

(* The row of i is locked by t: t has written it and not committed.         *)
Holds(t, s, i) == InTx(t) /\ SameMonth(s, t) /\ writes[t][i] # Untouched

(* An upsert waits for whoever has written its key.  A DELETE waits only    *)
(* for a row it can see: it passes by a row that is not committed yet.      *)
WaitsFor(s, t) ==
    /\ s # t /\ Pending(s)
    /\ Holds(t, s, Target(s))
    /\ Value(s) # None \/ Stored(s, Target(s)) # None

Blocked(s) == \E t \in Requests : WaitsFor(s, t)

(* One upsert or delete.  A DELETE that finds no row writes, and locks,     *)
(* nothing.                                                                 *)
ApplyChange(s) ==
    LET absent == Value(s) = None /\ Stored(s, Target(s)) = None IN
    /\ Pending(s)
    /\ ~Blocked(s)
    /\ writes' = IF absent THEN writes
                 ELSE [writes EXCEPT ![s][Target(s)] = Value(s)]
    /\ next' = [next EXCEPT ![s] = @ + 1]
    /\ UNCHANGED <<tables, pc, job, inserted, reading>>

Written(s) == {i \in Indicators : writes[s][i] # Untouched}

MutantCommitted(s) ==
    [k \in DOMAIN records |->
        IF k[2] = job[s].month /\ k[1] \in Written(s) /\ writes[s][k[1]] # None
        THEN writes[s][k[1]] ELSE records[k]]

(* The tables when s commits. *)
Committed(s) ==
    [k \in DOMAIN records |->
        IF k[2] = job[s].month /\ k[1] \in Written(s)
        THEN writes[s][k[1]] ELSE records[k]]

(* The rows s inserts that a removal of t has passed by. *)
PassedBy(s, t) ==
    {i \in Written(s) :
        /\ SameMonth(s, t)
        /\ Stored(s, i) = None /\ writes[s][i] # None
        /\ \E k \in 1..(next[t] - 1) : job[t].changes[k] = <<i, None>>}

(* The answer is the month read again. *)
CommitSave(s) ==
    /\ InTx(s) /\ ~Pending(s)
    /\ Goto(s, "inTx", "reading")
    /\ records' = Committed(s)
    /\ writes' = [writes EXCEPT ![s] = NoWrites]
    /\ inserted' = [t \in Requests |->
                      IF InTx(t) /\ t # s THEN inserted[t] \cup PassedBy(s, t)
                      ELSE IF t = s THEN {} ELSE inserted[t]]
    /\ StartReading(s, "list", job[s].month)
    /\ quiet' = [r \in Requests |-> r = s]
    /\ job' = [job EXCEPT ![s] = NoJob]
    /\ next' = [next EXCEPT ![s] = 1]
    /\ UNCHANGED linked

Rollback(s) ==
    /\ Goto(s, "inTx", "done")
    /\ job' = [job EXCEPT ![s] = NoJob]
    /\ writes' = [writes EXCEPT ![s] = NoWrites]
    /\ next' = [next EXCEPT ![s] = 1]
    /\ inserted' = [inserted EXCEPT ![s] = {}]
    /\ UNCHANGED <<tables, reading>>

(* s is on a cycle of transactions that wait for each other. *)
MutantDeadlocked(s) == FALSE
Deadlocked(s) ==
    \E S \in SUBSET Requests :
        /\ s \in S
        /\ \A t \in S : (\E u \in S : WaitsFor(t, u)) /\ (\E u \in S : WaitsFor(u, t))

(* The database makes a victim of one of them. *)
DeadlockVictim(s) == Deadlocked(s) /\ Rollback(s)

(* A lost connection, or the process dying. *)
Abort(s) == InTx(s) /\ Rollback(s)

-----------------------------------------------------------------------------
(* Reading a month, or the summary *)

Kinds == {"list", "summary", "latest"}

ReceiveRead(q) ==
    \E kind \in Kinds, month \in Months \cup {None} :
        /\ month = None <=> kind = "latest"
        /\ Goto(q, "idle", "reading")
        /\ StartReading(q, kind, month)
        /\ quiet' = [quiet EXCEPT ![q] = TRUE]
        /\ UNCHANGED <<tables, saving>>

Read(r, query, before, new) ==
    /\ pc[r] = "reading"
    /\ query \notin page[r].got
    /\ before \subseteq page[r].got
    /\ page' = [page EXCEPT ![r] = [new EXCEPT !.got = @ \cup {query}]]
    /\ UNCHANGED <<tables, pc, saving, view, quiet>>

FindActive(r) ==
    Read(r, "indicators", {}, [page[r] EXCEPT !.indicators = linked])

(* The first Promise.all of the summary: a month that was asked for stands. *)
FindMonth(r) ==
    /\ view[r] # "list"
    /\ Read(r, "month", {},
            IF view[r] = "latest" THEN [page[r] EXCEPT !.month = LatestMonth]
            ELSE page[r])

FirstQueries(r) == IF view[r] = "list" THEN {} ELSE {"indicators", "month"}

FindCurrent(r) ==
    /\ page[r].month # None
    /\ Read(r, "current", FirstQueries(r),
            [page[r] EXCEPT !.current = ValuesOf(page[r].month)])

FindPrevious(r) ==
    /\ view[r] # "list" /\ page[r].month # None
    /\ Read(r, "previous", FirstQueries(r),
            [page[r] EXCEPT !.previous = ValuesOf(PreviousMonth(page[r].month))])

(* Everything the answer is made of has been read. *)
Complete(r) ==
    IF view[r] = "list" THEN page[r].got = {"indicators", "current"}
    ELSE \/ page[r].got = {"indicators", "month"} /\ page[r].month = None
         \/ page[r].got = {"indicators", "month", "current", "previous"}

Answer(r) ==
    /\ pc[r] = "reading" /\ Complete(r)
    /\ Goto(r, "reading", "done")
    /\ view' = [view EXCEPT ![r] = "list"]
    /\ page' = [page EXCEPT ![r] = Page(None)]
    /\ quiet' = [quiet EXCEPT ![r] = FALSE]
    /\ UNCHANGED <<tables, saving>>

-----------------------------------------------------------------------------

(* Another request replaces the customer's indicators, see IndicatorCatalog. *)
ReplaceLinks ==
    /\ linked' \in SUBSET Indicators
    /\ linked' # linked
    /\ Disturb
    /\ UNCHANGED <<records, pc, saving, view, page>>

Init ==
    /\ linked = Indicators
    /\ records \in [Indicators \X Months -> Values \cup {None}]
    /\ Cardinality({k \in DOMAIN records : records[k] # None}) <= MaxRows
    /\ pc = [r \in Requests |-> "idle"]
    /\ job = [s \in Requests |-> NoJob]
    /\ next = [s \in Requests |-> 1]
    /\ writes = [s \in Requests |-> NoWrites]
    /\ inserted = [s \in Requests |-> {}]
    /\ view = [r \in Requests |-> "list"]
    /\ page = [r \in Requests |-> Page(None)]
    /\ quiet = [r \in Requests |-> FALSE]

Working(s) == ApplyChange(s) \/ CommitSave(s) \/ DeadlockVictim(s)

ReadStep(r) ==
    FindActive(r) \/ FindMonth(r) \/ FindCurrent(r) \/ FindPrevious(r) \/ Answer(r)

Next ==
    \/ \E s \in Requests :
          \/ ReceiveSave(s) \/ RejectSave(s)
          \/ Working(s) \/ Abort(s)
    \/ \E r \in Requests : ReceiveRead(r) \/ ReadStep(r)
    \/ ReplaceLinks

(* The database keeps executing the statements of an open transaction, and  *)
(* breaks the deadlocks it detects.                                         *)
Fairness == \A s \in Requests : WF_vars(Working(s))

Spec == Init /\ [][Next]_vars /\ Fairness

-----------------------------------------------------------------------------
(* Properties *)

(* A save that commits leaves every indicator it lists with the value it    *)
(* lists; only a removal may be undone, by a save that had inserted         *)
(* the row and not committed it when the removal passed by                  *)
(* (saveMonth: "Applies every change in one transaction").                  *)
SaveApplied ==
    [][\A s \in Requests : CommitSave(s) =>
          \A k \in DOMAIN job[s].changes :
             LET i == job[s].changes[k][1]
                 value == job[s].changes[k][2]
             IN  \/ records'[i, job[s].month] = value
                 \/ value = None /\ i \in inserted[s]]_vars

Position(s, i) ==
    CHOOSE k \in DOMAIN job[s].changes : job[s].changes[k][1] = i

(* Two saves that wait for each other save the same month and list two      *)
(* indicators in opposite orders: clients that list them in one order never *)
(* make each other fail.                                                    *)
DeadlockNeedsOppositeOrders ==
    \A s, t \in Requests : WaitsFor(s, t) /\ WaitsFor(t, s) =>
        /\ job[s].month = job[t].month
        /\ \E i, j \in Mentioned(job[s].changes) \cap Mentioned(job[t].changes) :
              /\ Position(s, i) < Position(s, j)
              /\ Position(t, j) < Position(t, i)

(* Months counted from year 0. *)
Count(m) == 12 * m[1] + m[2]

(* A page nothing was committed under shows the customer's indicators, and, *)
(* without a month in the request, the newest month in which one of them    *)
(* has a value, next to the month right before it                           *)
(* (GetEsgIndicatorsSummaryUseCase).                                        *)
PageIsStored ==
    \A r \in Requests : pc[r] = "reading" /\ Complete(r) /\ quiet[r] =>
        /\ page[r].indicators = linked
        /\ \A i \in linked, m \in Months :
              IF page[r].month = None THEN records[i, m] = None
              ELSE /\ m = page[r].month => page[r].current[i] = records[i, m]
                   /\ view[r] # "list" /\ Count(m) = Count(page[r].month) - 1
                      => page[r].previous[i] = records[i, m]

(* A summary that had to find its month shows at least one value: a month   *)
(* whose values all belong to indicators taken off the customer is passed   *)
(* over (findLatestMonth: "Old records of an indicator unlinked from the    *)
(* customer don't count").                                                  *)
FoundMonthIsNotEmpty ==
    \A r \in Requests :
        /\ pc[r] = "reading" /\ Complete(r) /\ quiet[r]
        /\ view[r] = "latest" /\ page[r].month # None
        => \E i \in page[r].indicators : page[r].current[i] # None

(* A page nothing was committed under is right in both ways.                *)
QuietPageIsExact == PageIsStored /\ FoundMonthIsNotEmpty

(* Every transaction of a save ends: a deadlock is broken, and a wait ends  *)
(* with the transaction that is waited for.                                 *)
SavesEnd == \A s \in Requests : InTx(s) ~> ~InTx(s)
=============================================================================
