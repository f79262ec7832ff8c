-------------------------- MODULE ComplianceViews --------------------------
(***************************************************************************)
(* What the screens and the report of a customer say about its licenses    *)
(* and their conditions.  No status or risk level shown is stored: each is *)
(* derived, when it is asked for, from a date and the clock.               *)
(*                                                                         *)
(* Four views derive the same figures from different queries: the license  *)
(* panel, the license block of the dashboard, the customer's card, and the *)
(* monitor of the conditions.  The condition block of the dashboard, which *)
(* the report prints too, runs two queries of its own side by side.        *)
(*                                                                         *)
(* One customer.  The writes are atomic here; LicenseRenewal opens them up.*)
(***************************************************************************)
EXTENDS Integers, FiniteSets

CONSTANTS
    Licenses, Conditions, Requests,
    Dates,           \* the dates the inputs choose from, in clock ticks
    MaxTime,         \* bound: the clock stops here
    DayLength,       \* MS_PER_DAY, in clock ticks
    AttentionWindow, \* LICENSE_ATTENTION_WINDOW_DAYS, 30
    RiskDays,        \* the 7 days of the condition risk level
    RegularDays,     \* the 30 days of the condition risk level
    Shown,           \* critical items a dashboard block shows, 3
    None

ASSUME ClockAssumption ==
    /\ DayLength \in Nat \ {0}
    /\ Dates \subseteq Nat
    /\ MaxTime \in Nat

ASSUME WindowsAssumption ==
    /\ AttentionWindow \in Nat
    /\ RiskDays \in Nat
    /\ RegularDays \in Nat
    /\ RiskDays <= RegularDays

ASSUME RowsAssumption ==
    /\ None \notin Licenses \cup Dates
    /\ IsFiniteSet(Conditions)
    /\ Shown \in Nat \ {0}

VARIABLES
    now,             \* the clock
    status,          \* licenses.status, ABSENT before the insert
    expirationDate,  \* licenses.expiration_date
    licenseOf,       \* license_condition.license_id, None: no such row
    dueDate,         \* license_condition.due_date
    block            \* the dashboard's condition blocks being computed

licenseRows == <<status, expirationDate>>
conditionRows == <<licenseOf, dueDate>>
vars == <<now, licenseRows, conditionRows, block>>

-----------------------------------------------------------------------------
(* Calculators *)

MutantDaysUntil(t, n) == (t - n) \div DayLength

(* Math.ceil of the days from n to t. *)
DaysUntil(t, n) == -((n - t) \div DayLength)

MutantLicenseStatus(expiration, n) ==
    IF DaysUntil(expiration, n) \in 0..AttentionWindow THEN "ATTENTION"
    ELSE "REGULAR"

calculateLicenseStatus(expiration, n) ==
    LET days == DaysUntil(expiration, n)
    IN CASE days < 0                              -> "EXPIRED"
         [] days \in 0..AttentionWindow           -> "ATTENTION"
         [] days > AttentionWindow                -> "REGULAR"

calculateRiskLevel(due, n) ==
    LET days == DaysUntil(due, n)
    IN CASE days <= RiskDays                      -> "RISK"
         [] days > RiskDays /\ days <= RegularDays -> "ATTENTION"
         [] days > RegularDays                    -> "REGULAR"

(* Math.round(part / total * 100); nothing to comply with is full           *)
(* compliance.                                                              *)
Percentage(part, total) ==
    IF total = 0 THEN 100 ELSE (200 * part + total) \div (2 * total)

RegularAmong(C, n) == {c \in C : calculateRiskLevel(dueDate[c], n) = "REGULAR"}

(* calculateLicenseConditionsCompliance *)
ComplianceOf(C, n) ==
    LET inCompliance == Cardinality(RegularAmong(C, n))
    IN [totalActive |-> Cardinality(C),
        inCompliance |-> inCompliance,
        compliancePercentage |-> Percentage(inCompliance, Cardinality(C))]

-----------------------------------------------------------------------------
(* Views *)

CriticalityRank ==
    [EXPIRED |-> 0, ATTENTION |-> 1, REGULAR |-> 2, ARCHIVED |-> 3]
RiskOrder == [RISK |-> 0, ATTENTION |-> 1, REGULAR |-> 2]

MutantSooner(a, b) == a[1] > b[1] \/ (a[1] = b[1] /\ a[2] < b[2])

(* The comparison the lists are sorted by: criticality, then date. *)
Sooner(a, b) == a[1] < b[1] \/ (a[1] = b[1] /\ a[2] < b[2])

(* The first items of S, sorted by key: the choices among ties are the      *)
(* database's.                                                              *)
First(S, key) ==
    {T \in SUBSET S :
        /\ Cardinality(T) = IF Cardinality(S) < Shown THEN Cardinality(S)
                            ELSE Shown
        /\ \A x \in T, y \in S \ T : ~Sooner(key[y], key[x])}

Stored == {l \in Licenses : status[l] # "ABSENT"}
Rows == {c \in Conditions : licenseOf[c] # None}

(* currentLicenseStatus, the status to show for a stored license. *)
currentLicenseStatus(l) ==
    IF status[l] = "ARCHIVED" THEN "ARCHIVED"
    ELSE calculateLicenseStatus(expirationDate[l], now)

(* The license panel: counts, and the key its list is sorted by. *)
Panel == [s \in {"EXPIRED", "ATTENTION", "REGULAR"} |->
            Cardinality({l \in Stored : currentLicenseStatus(l) = s})]
PanelKey(l) ==
    <<CriticalityRank[currentLicenseStatus(l)], expirationDate[l]>>

(* The license block of the dashboard: counts and critical licenses. *)
DashboardStatus(l) == calculateLicenseStatus(expirationDate[l], now)
Dashboard == [s \in {"EXPIRED", "ATTENTION", "REGULAR"} |->
                Cardinality({l \in Stored : DashboardStatus(l) = s})]
CriticalLicenses ==
    First({l \in Stored : DashboardStatus(l) \in {"EXPIRED", "ATTENTION"}},
          [l \in Stored |->
            <<CriticalityRank[DashboardStatus(l)], expirationDate[l]>>])

(* The conditions that count: all of the customer's on its card, those of   *)
(* licenses that are not archived on the monitor (findAllByCustomerId).     *)
CardConditions == Rows

MutantMonitorConditions ==
    {c \in Rows : status[licenseOf[c]] \in {"REGULAR", "ATTENTION"}}

MonitorConditions == {c \in Rows : status[licenseOf[c]] # "ARCHIVED"}

(* The card of the customer (ListCustomersUseCase), with filters of its own *)
(* over the dates of all the customer's licenses.                           *)
CardLicenses(s) ==
    {l \in Stored : calculateLicenseStatus(expirationDate[l], now) = s}
Card ==
    [attention |-> Cardinality(CardLicenses("ATTENTION")),
     expired |-> Cardinality(CardLicenses("EXPIRED")),
     conformity |-> ComplianceOf(CardConditions, now).compliancePercentage]

(* The monitor's progress bar (GetLicenseConditionsComplianceUseCase). *)
Monitor == ComplianceOf(MonitorConditions, now)

(* The list of conditions by risk, and those of the block: not REGULAR.     *)
RiskKey(n) ==
    [c \in Rows |-> <<RiskOrder[calculateRiskLevel(dueDate[c], n)], dueDate[c]>>]
CriticalConditions(n) ==
    First(MonitorConditions \ RegularAmong(MonitorConditions, n), RiskKey(n))

-----------------------------------------------------------------------------
(* Writes *)

(* A write: what an open or answered block has read may be outdated.        *)
Disturbed ==
    [r \in Requests |-> [block[r] EXCEPT !.quiet = block[r].pc = "idle"]]

(* CreateLicenseUseCase: the status stored is that of the day.              *)
Register(l, expiration) ==
    /\ status[l] = "ABSENT"
    /\ status' = [status EXCEPT ![l] = calculateLicenseStatus(expiration, now)]
    /\ expirationDate' = [expirationDate EXCEPT ![l] = expiration]
    /\ block' = Disturbed
    /\ UNCHANGED <<now, conditionRows>>

(* A due date given to a copy: from today to the new expiration.            *)
RenewalDueDates(expiration) ==
    {d \in Dates : (now \div DayLength) * DayLength <= d /\ d <= expiration}

(* RenewLicenseUseCase: l replaces previous, with a copy of some of its     *)
(* conditions.  Copies differ from what they copy, as far as the views can  *)
(* tell, by their due date only.                                            *)
Renew(previous, l, expiration, copies, due) ==
    /\ status[previous] \notin {"ABSENT", "ARCHIVED"}
    /\ status[l] = "ABSENT"
    /\ copies \subseteq Conditions \ Rows
    /\ Cardinality(copies)
         <= Cardinality({c \in Rows : licenseOf[c] = previous})
    /\ \A c \in copies : due[c] \in RenewalDueDates(expiration)
    /\ status' = [status EXCEPT
                    ![previous] = "ARCHIVED",
                    ![l] = calculateLicenseStatus(expiration, now)]
    /\ expirationDate' = [expirationDate EXCEPT ![l] = expiration]
    /\ licenseOf' = [c \in Conditions |->
                        IF c \in copies THEN l ELSE licenseOf[c]]
    /\ dueDate' = [c \in Conditions |->
                        IF c \in copies THEN due[c] ELSE dueDate[c]]
    /\ block' = Disturbed
    /\ UNCHANGED now

(* Neither route that adds conditions looks at the status of the license.   *)
Append(c, l, due) ==
    /\ status[l] # "ABSENT"
    /\ licenseOf[c] = None
    /\ licenseOf' = [licenseOf EXCEPT ![c] = l]
    /\ dueDate' = [dueDate EXCEPT ![c] = due]
    /\ block' = Disturbed
    /\ UNCHANGED <<now, licenseRows>>

(* A new due date; an edit that sends none writes what it was.              *)
Edit(c, due) ==
    /\ licenseOf[c] # None
    /\ dueDate' = [dueDate EXCEPT ![c] = due]
    /\ block' = Disturbed
    /\ UNCHANGED <<now, licenseRows, licenseOf>>

Delete(c) ==
    /\ licenseOf[c] # None
    /\ licenseOf' = [licenseOf EXCEPT ![c] = None]
    /\ dueDate' = [dueDate EXCEPT ![c] = None]
    /\ block' = Disturbed
    /\ UNCHANGED <<now, licenseRows>>

Tick ==
    /\ now < MaxTime
    /\ now' = now + 1
    /\ UNCHANGED <<licenseRows, conditionRows, block>>

-----------------------------------------------------------------------------
(* The condition block of the dashboard and of the report *)

Compliance == [totalActive : Nat, inCompliance : Nat,
               compliancePercentage : 0..100]

(* What a block has read so far, and whether no write committed since.      *)
Block == [pc : {"idle", "reading", "answered"}, at : 0..MaxTime,
          quiet : BOOLEAN, listed : BOOLEAN, list : SUBSET Conditions,
          compliance : SUBSET Compliance]

NoBlock == [pc |-> "idle", at |-> 0, quiet |-> TRUE, list |-> {},
            listed |-> FALSE, compliance |-> {}]

(* GetCustomerDashboardConditionsUseCase takes the time once.               *)
BeginBlock(r) ==
    /\ block[r].pc = "idle"
    /\ block' = [block EXCEPT ![r].pc = "reading", ![r].at = now]
    /\ UNCHANGED <<now, licenseRows, conditionRows>>

MutantClockOf(r) == now

(* The time both queries of the block are given.                            *)
ClockOf(r) == block[r].at

(* The two queries, in either order.                                        *)
ReadList(r) ==
    /\ block[r].pc = "reading"
    /\ ~block[r].listed
    /\ \E critical \in CriticalConditions(ClockOf(r)) :
          block' = [block EXCEPT ![r].list = critical, ![r].listed = TRUE]
    /\ UNCHANGED <<now, licenseRows, conditionRows>>

ReadCompliance(r) ==
    /\ block[r].pc = "reading"
    /\ block[r].compliance = {}
    /\ block' = [block EXCEPT
                    ![r].compliance = {ComplianceOf(MonitorConditions, ClockOf(r))}]
    /\ UNCHANGED <<now, licenseRows, conditionRows>>

Answer(r) ==
    /\ block[r].pc = "reading"
    /\ block[r].listed
    /\ block[r].compliance # {}
    /\ block' = [block EXCEPT ![r].pc = "answered"]
    /\ UNCHANGED <<now, licenseRows, conditionRows>>

-----------------------------------------------------------------------------
Init ==
    /\ now = 0
    /\ status = [l \in Licenses |-> "ABSENT"]
    /\ expirationDate = [l \in Licenses |-> None]
    /\ licenseOf = [c \in Conditions |-> None]
    /\ dueDate = [c \in Conditions |-> None]
    /\ block = [r \in Requests |-> NoBlock]

LicenseWrite ==
    \E l \in Licenses, expiration \in Dates :
        \/ Register(l, expiration)
        \/ \E previous \in Licenses, copies \in SUBSET Conditions :
              \E due \in [copies -> Dates] :
                 Renew(previous, l, expiration, copies, due)

ConditionWrite ==
    \E c \in Conditions :
        \/ \E l \in Licenses, due \in Dates : Append(c, l, due)
        \/ \E due \in Dates : Edit(c, due)
        \/ Delete(c)

BlockStep ==
    \E r \in Requests :
        BeginBlock(r) \/ ReadList(r) \/ ReadCompliance(r) \/ Answer(r)

Next == Tick \/ LicenseWrite \/ ConditionWrite \/ BlockStep

Spec == Init /\ [][Next]_vars

-----------------------------------------------------------------------------
(* Properties *)

(* Rows hold dates, and an answered block holds what its queries gave.      *)
TypeOK ==
    /\ now \in 0..MaxTime
    /\ status \in [Licenses ->
           {"ABSENT", "EXPIRED", "ATTENTION", "REGULAR", "ARCHIVED"}]
    /\ expirationDate \in [Licenses -> Dates \cup {None}]
    /\ licenseOf \in [Conditions -> Licenses \cup {None}]
    /\ dueDate \in [Conditions -> Dates \cup {None}]
    /\ \A l \in Stored : expirationDate[l] \in Dates
    /\ \A c \in Rows : dueDate[c] \in Dates /\ licenseOf[c] \in Stored
    /\ block \in [Requests -> Block]

(* The day-rounded classifications, as plain comparisons of dates.  What is  *)
(* shown EXPIRED is past its date, and what has been past it for a whole day *)
(* is shown EXPIRED.  (In the day between, code and comment disagree:        *)
(* "expirationDate in the past -> EXPIRED", license-status.calculator.ts:14, *)
(* but rounding up keeps the license in ATTENTION.  Nothing is claimed of    *)
(* that day.)  A license is REGULAR while more than the window is left; a    *)
(* condition is at RISK up to RiskDays before its date and REGULAR while     *)
(* more than RegularDays are left.                                           *)
ThresholdsMet ==
    /\ \A l \in Stored :
          LET date == expirationDate[l] IN
          /\ DashboardStatus(l) = "EXPIRED" => date < now
          /\ date + DayLength <= now => DashboardStatus(l) = "EXPIRED"
          /\ DashboardStatus(l) = "REGULAR"
               <=> date > now + AttentionWindow * DayLength
    /\ \A c \in Rows :
          LET risk == calculateRiskLevel(dueDate[c], now) IN
          /\ risk = "RISK" <=> dueDate[c] <= now + RiskDays * DayLength
          /\ risk = "REGULAR" <=> dueDate[c] > now + RegularDays * DayLength

(* While nobody writes a license or a condition, what is shown of it only    *)
(* gets worse: no threshold is crossed back as the clock moves.              *)
OnlyWorsens ==
    [][/\ \A l \in Stored :
             l \in Stored' /\ status'[l] = status[l]
                /\ expirationDate'[l] = expirationDate[l]
             => CriticalityRank[currentLicenseStatus(l)]'
                  <= CriticalityRank[currentLicenseStatus(l)]
       /\ \A c \in Rows :
             c \in Rows' /\ dueDate'[c] = dueDate[c]
             => RiskOrder[calculateRiskLevel(dueDate[c], now)]'
                  <= RiskOrder[calculateRiskLevel(dueDate[c], now)]]_vars

(* Sorting by criticality first never hides the calendar: in the panel the   *)
(* licenses that are not archived come in the order of their dates, and no   *)
(* license left out of the dashboard's critical ones expires before one of   *)
(* them.                                                                     *)
MostUrgentFirst ==
    /\ \A k, l \in {l \in Stored : status[l] # "ARCHIVED"} :
          Sooner(PanelKey(k), PanelKey(l))
          => expirationDate[k] < expirationDate[l]
    /\ \A T \in CriticalLicenses : \A l \in T, k \in Stored \ T :
          expirationDate[l] <= expirationDate[k]

(* The percentage and the critical conditions of one block are read by two   *)
(* queries.  If no write committed while it was computed they agree, however *)
(* long it took: everything is in compliance exactly when nothing critical   *)
(* is listed, and nothing pending is missing from a list with room for it.   *)
(* (Rounding shows 100 too early from 200 conditions on.)                    *)
BlockAgrees ==
    \A r \in Requests : block[r].pc = "answered" /\ block[r].quiet =>
        \A figures \in block[r].compliance :
            LET pending == figures.totalActive - figures.inCompliance IN
            /\ figures.compliancePercentage = 100 <=> block[r].list = {}
            /\ Cardinality(block[r].list)
                 = IF pending < Shown THEN pending ELSE Shown

(* As long as no license of the customer was renewed, its card, dashboard,   *)
(* panel and monitor show the same figures.                                  *)
ViewsAgreeUntilRenewal ==
    (\A l \in Licenses : status[l] # "ARCHIVED") =>
        /\ Dashboard = Panel
        /\ Card.attention = Panel["ATTENTION"]
        /\ Card.expired = Panel["EXPIRED"]
        /\ Card.conformity = Monitor.compliancePercentage
=============================================================================
