----------------------- MODULE ComplianceViewsProofs -----------------------
(* Theorems about ComplianceViews, for every length of a day, every window  *)
(* and every finite set of conditions.                                      *)
EXTENDS ComplianceViews, FiniteSetTheorems, TLAPS

-----------------------------------------------------------------------------
(* The calculators *)

(* Division rounds down: the quotient reaches q when the dividend reaches   *)
(* q * d.                                                                   *)
LEMMA DivReaches ==
    ASSUME NEW a \in Int, NEW d \in Nat \ {0}, NEW q \in Int
    PROVE  a \div d \in Int /\ (a \div d >= q <=> a >= q * d)
  OBVIOUS

(* The days until t, rounded up, are at most k when t is at most k whole    *)
(* days away.                                                               *)
LEMMA DaysAtMost ==
    ASSUME NEW t \in Int, NEW n \in Int, NEW k \in Int
    PROVE  /\ DaysUntil(t, n) \in Int
           /\ DaysUntil(t, n) <= k <=> t <= n + k * DayLength
<1>1. /\ (n - t) \div DayLength \in Int
      /\ (n - t) \div DayLength >= -k <=> n - t >= (-k) * DayLength
  BY DivReaches, ClockAssumption
<1>2. (-k) * DayLength = -(k * DayLength) /\ k * DayLength \in Int
  BY ClockAssumption
<1> QED
  BY <1>1, <1>2 DEF DaysUntil

LEMMA StatusThresholds ==
    ASSUME NEW t \in Nat, NEW n \in Nat
    PROVE  /\ calculateLicenseStatus(t, n) = "EXPIRED" <=> t + DayLength <= n
           /\ calculateLicenseStatus(t, n) = "REGULAR"
                <=> t > n + AttentionWindow * DayLength
           /\ calculateLicenseStatus(t, n) \in {"EXPIRED", "ATTENTION", "REGULAR"}
<1> DEFINE days == DaysUntil(t, n)
<1>1. days \in Int /\ (days <= -1 <=> t <= n + (-1) * DayLength)
  BY DaysAtMost
<1>2. days <= AttentionWindow <=> t <= n + AttentionWindow * DayLength
  BY DaysAtMost, WindowsAssumption
<1>3. /\ (-1) * DayLength = -DayLength
      /\ DayLength \in Nat /\ AttentionWindow \in Nat
      /\ AttentionWindow * DayLength \in Nat
  BY ClockAssumption, WindowsAssumption
<1>4. /\ days < 0 <=> t + DayLength <= n
      /\ days > AttentionWindow <=> t > n + AttentionWindow * DayLength
  BY <1>1, <1>2, <1>3
<1> HIDE DEF days
<1>5. calculateLicenseStatus(t, n) =
         CASE days < 0 -> "EXPIRED"
           [] days \in 0..AttentionWindow -> "ATTENTION"
           [] days > AttentionWindow -> "REGULAR"
  BY DEF calculateLicenseStatus, days
<1> QED
  BY <1>1, <1>3, <1>4, <1>5

LEMMA RiskThresholds ==
    ASSUME NEW t \in Nat, NEW n \in Nat
    PROVE  /\ calculateRiskLevel(t, n) = "RISK"
                <=> t <= n + RiskDays * DayLength
           /\ calculateRiskLevel(t, n) = "REGULAR"
                <=> t > n + RegularDays * DayLength
           /\ calculateRiskLevel(t, n) \in {"RISK", "ATTENTION", "REGULAR"}
<1> DEFINE days == DaysUntil(t, n)
<1>1. /\ days \in Int
      /\ days <= RiskDays <=> t <= n + RiskDays * DayLength
  BY DaysAtMost, WindowsAssumption
<1>2. days <= RegularDays <=> t <= n + RegularDays * DayLength
  BY DaysAtMost, WindowsAssumption
<1>3. /\ RiskDays * DayLength \in Nat /\ RegularDays * DayLength \in Nat
      /\ RiskDays \in Nat /\ RegularDays \in Nat /\ RiskDays <= RegularDays
  BY ClockAssumption, WindowsAssumption
<1> HIDE DEF days
<1>4. calculateRiskLevel(t, n) =
         CASE days <= RiskDays -> "RISK"
           [] days > RiskDays /\ days <= RegularDays -> "ATTENTION"
           [] days > RegularDays -> "REGULAR"
  BY DEF calculateRiskLevel, days
<1> QED
  BY <1>1, <1>2, <1>3, <1>4

(* A percentage is at most 100, and of fewer than 200 conditions it is 100  *)
(* only if all of them are in compliance.                                   *)
LEMMA PercentageBounds ==
    ASSUME NEW total \in Nat, NEW part \in 0..total
    PROVE  /\ Percentage(part, total) \in 0..100
           /\ total < 200 => (Percentage(part, total) = 100 <=> part = total)
<1>1. CASE total = 0
  BY <1>1 DEF Percentage
<1>2. CASE total # 0
  <2> DEFINE q == (200 * part + total) \div (2 * total)
  <2>1. /\ q \in Int
        /\ q >= 0 <=> 200 * part + total >= 0 * (2 * total)
        /\ q >= 100 <=> 200 * part + total >= 100 * (2 * total)
        /\ q >= 101 <=> 200 * part + total >= 101 * (2 * total)
    BY <1>2, DivReaches
  <2> HIDE DEF q
  <2> QED
    BY <1>2, <2>1 DEF Percentage, q
<1> QED
  BY <1>1, <1>2

-----------------------------------------------------------------------------
(* Type correctness *)

LEMMA ComplianceTyped ==
    ASSUME NEW C \in SUBSET Conditions, NEW n
    PROVE  /\ ComplianceOf(C, n) \in Compliance
           /\ ComplianceOf(C, n).inCompliance \in 0..Cardinality(C)
<1>1. IsFiniteSet(C)
  BY RowsAssumption, FS_Subset
<1>2. /\ RegularAmong(C, n) \in SUBSET C
      /\ IsFiniteSet(RegularAmong(C, n))
      /\ Cardinality(RegularAmong(C, n)) <= Cardinality(C)
  BY <1>1, FS_Subset DEF RegularAmong
<1>3. Cardinality(C) \in Nat /\ Cardinality(RegularAmong(C, n)) \in Nat
  BY <1>1, <1>2, FS_CardinalityType
<1> QED
  BY <1>2, <1>3, PercentageBounds DEF ComplianceOf, Compliance

LEMMA InitTypeOK == Init => TypeOK
  BY ClockAssumption DEF Init, TypeOK, Block, NoBlock, Stored, Rows

LEMMA DisturbedTyped == TypeOK => Disturbed \in [Requests -> Block]
  BY DEF TypeOK, Disturbed, Block

LEMMA StatusTyped ==
    ASSUME TypeOK, NEW expiration \in Dates
    PROVE  calculateLicenseStatus(expiration, now)
             \in {"EXPIRED", "ATTENTION", "REGULAR"}
<1>1. now \in Nat /\ expiration \in Nat
  BY ClockAssumption DEF TypeOK
<1> QED
  BY <1>1, StatusThresholds

LEMMA StepTypeOK == TypeOK /\ [Next]_vars => TypeOK'
<1> SUFFICES ASSUME TypeOK, [Next]_vars PROVE TypeOK'
  OBVIOUS
<1> USE DEF licenseRows, conditionRows
<1>1. CASE Tick
  BY <1>1, ClockAssumption DEF Tick, TypeOK, Stored, Rows
<1>2. ASSUME NEW l \in Licenses, NEW expiration \in Dates,
             Register(l, expiration)
      PROVE TypeOK'
  BY <1>2, StatusTyped, DisturbedTyped
     DEF Register, TypeOK, Stored, Rows
<1>3. ASSUME NEW l \in Licenses, NEW expiration \in Dates,
             NEW previous \in Licenses, NEW copies \in SUBSET Conditions,
             NEW due \in [copies -> Dates],
             Renew(previous, l, expiration, copies, due)
      PROVE TypeOK'
  <2>1. /\ status' \in [Licenses ->
              {"ABSENT", "EXPIRED", "ATTENTION", "REGULAR", "ARCHIVED"}]
        /\ expirationDate' \in [Licenses -> Dates \cup {None}]
        /\ licenseOf' \in [Conditions -> Licenses \cup {None}]
        /\ dueDate' \in [Conditions -> Dates \cup {None}]
        /\ block' \in [Requests -> Block]
        /\ now' \in 0..MaxTime
    BY <1>3, StatusTyped, DisturbedTyped DEF Renew, TypeOK
  <2>2. Stored' = Stored \cup {l}
    BY <1>3, StatusTyped DEF Renew, TypeOK, Stored
  <2>3. \A k \in Stored' : expirationDate'[k] \in Dates
    BY <1>3, <2>2 DEF Renew, TypeOK, Stored
  <2>4. \A c \in Rows' : dueDate'[c] \in Dates /\ licenseOf'[c] \in Stored'
    BY <1>3, <2>2 DEF Renew, TypeOK, Rows
  <2> QED
    BY <2>1, <2>3, <2>4 DEF TypeOK
<1>4. ASSUME NEW c \in Conditions, NEW l \in Licenses, NEW due \in Dates,
             Append(c, l, due)
      PROVE TypeOK'
  BY <1>4, DisturbedTyped DEF Append, TypeOK, Stored, Rows
<1>5. ASSUME NEW c \in Conditions, NEW due \in Dates, Edit(c, due)
      PROVE TypeOK'
  BY <1>5, DisturbedTyped DEF Edit, TypeOK, Stored, Rows
<1>6. ASSUME NEW c \in Conditions, Delete(c) PROVE TypeOK'
  BY <1>6, DisturbedTyped DEF Delete, TypeOK, Stored, Rows
<1>7. ASSUME NEW r \in Requests, BeginBlock(r) PROVE TypeOK'
  BY <1>7 DEF BeginBlock, TypeOK, Block, Stored, Rows
<1>8. ASSUME NEW r \in Requests, ReadList(r) PROVE TypeOK'
  <2>1. PICK critical \in CriticalConditions(ClockOf(r)) :
          block' = [block EXCEPT ![r].list = critical, ![r].listed = TRUE]
    BY <1>8 DEF ReadList
  <2>2. critical \in SUBSET Conditions
    BY DEF CriticalConditions, First, MonitorConditions, Rows
  <2> QED
    BY <1>8, <2>1, <2>2 DEF ReadList, TypeOK, Block, Stored, Rows
<1>9. ASSUME NEW r \in Requests, ReadCompliance(r) PROVE TypeOK'
  <2>1. ComplianceOf(MonitorConditions, ClockOf(r)) \in Compliance
    BY ComplianceTyped DEF MonitorConditions, Rows
  <2> QED
    BY <1>9, <2>1 DEF ReadCompliance, TypeOK, Block, Stored, Rows
<1>10. ASSUME NEW r \in Requests, Answer(r) PROVE TypeOK'
  BY <1>10 DEF Answer, TypeOK, Block, Stored, Rows
<1>11. CASE UNCHANGED vars
  BY <1>11 DEF vars, TypeOK, Stored, Rows
<1> QED
  BY <1>1, <1>2, <1>3, <1>4, <1>5, <1>6, <1>7, <1>8, <1>9, <1>10, <1>11
     DEF Next, LicenseWrite, ConditionWrite, BlockStep

LEMMA TypeInvariance == Spec => []TypeOK
  BY InitTypeOK, StepTypeOK, PTL DEF Spec

-----------------------------------------------------------------------------
(* The theorems *)

(* For every length of a day and every window, rounding up to whole days    *)
(* classifies each stored date as plain comparisons do, except that a       *)
(* license may be EXPIRED up to a day late.                                 *)
THEOREM ThresholdsForAnyDay == Spec => []ThresholdsMet
<1>1. TypeOK => ThresholdsMet
  <2> SUFFICES ASSUME TypeOK PROVE ThresholdsMet
    OBVIOUS
  <2>1. now \in Nat
    BY ClockAssumption DEF TypeOK
  <2>2. ASSUME NEW l \in Stored
        PROVE LET date == expirationDate[l] IN
              /\ DashboardStatus(l) = "EXPIRED" => date < now
              /\ date + DayLength <= now => DashboardStatus(l) = "EXPIRED"
              /\ DashboardStatus(l) = "REGULAR"
                   <=> date > now + AttentionWindow * DayLength
    <3>1. expirationDate[l] \in Nat
      BY ClockAssumption DEF TypeOK
    <3>2. DashboardStatus(l) = "EXPIRED" <=> expirationDate[l] + DayLength <= now
      BY <2>1, <3>1, StatusThresholds DEF DashboardStatus
    <3>3. expirationDate[l] + DayLength <= now => expirationDate[l] < now
      BY <2>1, <3>1, ClockAssumption
    <3>4. DashboardStatus(l) = "REGULAR"
            <=> expirationDate[l] > now + AttentionWindow * DayLength
      BY <2>1, <3>1, StatusThresholds DEF DashboardStatus
    <3> QED
      BY <3>2, <3>3, <3>4
  <2>3. ASSUME NEW c \in Rows
        PROVE LET risk == calculateRiskLevel(dueDate[c], now) IN
              /\ risk = "RISK" <=> dueDate[c] <= now + RiskDays * DayLength
              /\ risk = "REGULAR" <=> dueDate[c] > now + RegularDays * DayLength
    <3>1. dueDate[c] \in Nat
      BY ClockAssumption DEF TypeOK
    <3> QED
      BY <2>1, <3>1, RiskThresholds
  <2> QED
    BY <2>2, <2>3 DEF ThresholdsMet
<1> QED
  BY <1>1, TypeInvariance, PTL

LEMMA StatusMonotone ==
    ASSUME NEW t \in Nat, NEW n \in Nat, NEW m \in Nat, n <= m
    PROVE  /\ CriticalityRank[calculateLicenseStatus(t, m)]
                <= CriticalityRank[calculateLicenseStatus(t, n)]
           /\ RiskOrder[calculateRiskLevel(t, m)]
                <= RiskOrder[calculateRiskLevel(t, n)]
<1>1. /\ AttentionWindow * DayLength \in Nat
      /\ RiskDays * DayLength \in Nat
      /\ RegularDays * DayLength \in Nat
      /\ DayLength \in Nat
  BY ClockAssumption, WindowsAssumption
<1>2. CriticalityRank[calculateLicenseStatus(t, m)]
        <= CriticalityRank[calculateLicenseStatus(t, n)]
  <2> DEFINE window == AttentionWindow * DayLength
             old == calculateLicenseStatus(t, n)
             new == calculateLicenseStatus(t, m)
  <2>1. /\ old \in {"EXPIRED", "ATTENTION", "REGULAR"}
        /\ new \in {"EXPIRED", "ATTENTION", "REGULAR"}
        /\ old = "EXPIRED" <=> t + DayLength <= n
        /\ new = "EXPIRED" <=> t + DayLength <= m
        /\ old = "REGULAR" <=> t > n + window
        /\ new = "REGULAR" <=> t > m + window
    BY StatusThresholds
  <2>2. window \in Nat
    BY <1>1
  <2>3. /\ CriticalityRank["EXPIRED"] = 0
        /\ CriticalityRank["ATTENTION"] = 1
        /\ CriticalityRank["REGULAR"] = 2
    BY DEF CriticalityRank
  <2> HIDE DEF window, old, new
  <2>4. (old = "EXPIRED" => new = "EXPIRED") /\ (new = "REGULAR" => old = "REGULAR")
    BY <1>1, <2>1, <2>2
  <2> QED
    BY <2>1, <2>3, <2>4 DEF old, new
<1>3. RiskOrder[calculateRiskLevel(t, m)] <= RiskOrder[calculateRiskLevel(t, n)]
  <2> DEFINE risk == RiskDays * DayLength
             regular == RegularDays * DayLength
             old == calculateRiskLevel(t, n)
             new == calculateRiskLevel(t, m)
  <2>1. /\ old \in {"RISK", "ATTENTION", "REGULAR"}
        /\ new \in {"RISK", "ATTENTION", "REGULAR"}
        /\ old = "RISK" <=> t <= n + risk
        /\ new = "RISK" <=> t <= m + risk
        /\ old = "REGULAR" <=> t > n + regular
        /\ new = "REGULAR" <=> t > m + regular
    BY RiskThresholds
  <2>2. risk \in Nat /\ regular \in Nat
    BY <1>1
  <2>3. RiskOrder["RISK"] = 0 /\ RiskOrder["ATTENTION"] = 1
          /\ RiskOrder["REGULAR"] = 2
    BY DEF RiskOrder
  <2> HIDE DEF risk, regular, old, new
  <2>4. (old = "RISK" => new = "RISK") /\ (new = "REGULAR" => old = "REGULAR")
    BY <2>1, <2>2
  <2> QED
    BY <2>1, <2>3, <2>4 DEF old, new
<1> QED
  BY <1>2, <1>3

(* As the clock moves, nothing shown of a license or a condition that is    *)
(* not written to gets better.                                              *)
THEOREM NeverImproves == Spec => OnlyWorsens
<1>1. TypeOK /\ TypeOK' /\ [Next]_vars =>
        [/\ \A l \in Stored :
               l \in Stored' /\ status'[l] = status[l]
                  /\ expirationDate'[l] = expirationDate[l]
               => CriticalityRank[currentLicenseStatus(l)]'
                    <= CriticalityRank[currentLicenseStatus(l)]
         /\ \A c \in Rows :
               c \in Rows' /\ dueDate'[c] = dueDate[c]
               => RiskOrder[calculateRiskLevel(dueDate[c], now)]'
                    <= RiskOrder[calculateRiskLevel(dueDate[c], now)]]_vars
  <2> SUFFICES ASSUME TypeOK, TypeOK', Next
               PROVE  /\ \A l \in Stored :
                            l \in Stored' /\ status'[l] = status[l]
                               /\ expirationDate'[l] = expirationDate[l]
                            => CriticalityRank[currentLicenseStatus(l)]'
                                 <= CriticalityRank[currentLicenseStatus(l)]
                      /\ \A c \in Rows :
                            c \in Rows' /\ dueDate'[c] = dueDate[c]
                            => RiskOrder[calculateRiskLevel(dueDate[c], now)]'
                                 <= RiskOrder[calculateRiskLevel(dueDate[c], now)]
    BY DEF vars
  <2>1. now \in Nat /\ now' \in Nat /\ now <= now'
    <3>1. now \in Nat
      BY ClockAssumption DEF TypeOK
    <3>2. CASE Tick
      BY <3>1, <3>2 DEF Tick
    <3>3. CASE LicenseWrite
      <4>1. now' = now
        BY <3>3, Zenon DEF LicenseWrite, Register, Renew
      <4> QED
        BY <3>1, <4>1
    <3>4. CASE ConditionWrite
      BY <3>1, <3>4 DEF ConditionWrite, Append, Edit, Delete
    <3>5. CASE BlockStep
      BY <3>1, <3>5
         DEF BlockStep, BeginBlock, ReadList, ReadCompliance, Answer
    <3> QED
      BY <3>2, <3>3, <3>4, <3>5 DEF Next
  <2>2. ASSUME NEW l \in Stored, l \in Stored', status'[l] = status[l],
               expirationDate'[l] = expirationDate[l]
        PROVE CriticalityRank[currentLicenseStatus(l)]'
                <= CriticalityRank[currentLicenseStatus(l)]
    <3>1. expirationDate[l] \in Nat
      BY ClockAssumption DEF TypeOK
    <3>2. CASE status[l] = "ARCHIVED"
      BY <2>2, <3>2 DEF currentLicenseStatus, CriticalityRank
    <3>3. CASE status[l] # "ARCHIVED"
      <4>1. /\ currentLicenseStatus(l)
                 = calculateLicenseStatus(expirationDate[l], now)
            /\ currentLicenseStatus(l)'
                 = calculateLicenseStatus(expirationDate[l], now')
        BY <2>2, <3>3
           DEF currentLicenseStatus, calculateLicenseStatus, DaysUntil
      <4>2. CriticalityRank' = CriticalityRank
        BY DEF CriticalityRank
      <4> QED
        BY <2>1, <3>1, <4>1, <4>2, StatusMonotone
    <3> QED
      BY <3>2, <3>3
  <2>3. ASSUME NEW c \in Rows, c \in Rows', dueDate'[c] = dueDate[c]
        PROVE RiskOrder[calculateRiskLevel(dueDate[c], now)]'
                <= RiskOrder[calculateRiskLevel(dueDate[c], now)]
    <3>1. dueDate[c] \in Nat
      BY ClockAssumption DEF TypeOK
    <3>2. /\ calculateRiskLevel(dueDate[c], now)'
               = calculateRiskLevel(dueDate[c], now')
          /\ RiskOrder' = RiskOrder
      BY <2>3 DEF calculateRiskLevel, DaysUntil, RiskOrder
    <3> QED
      BY <2>1, <3>1, <3>2, StatusMonotone
  <2> QED
    BY <2>2, <2>3
<1> QED
  BY <1>1, TypeInvariance, PTL DEF Spec, OnlyWorsens

-----------------------------------------------------------------------------
(* The two queries of a block *)

(* While no write has disturbed a block, what it has read is what its       *)
(* queries would read now, at the block's own time.                         *)
QuietInv ==
    \A r \in Requests :
        /\ block[r].pc = "answered"
             => block[r].listed /\ block[r].compliance # {}
        /\ block[r].quiet /\ block[r].listed
             => block[r].list \in CriticalConditions(ClockOf(r))
        /\ block[r].quiet =>
             \A figures \in block[r].compliance :
                 figures = ComplianceOf(MonitorConditions, ClockOf(r))
        /\ block[r].pc = "idle"
             => ~block[r].listed /\ block[r].compliance = {}

LEMMA SameRows ==
    ASSUME UNCHANGED <<licenseRows, conditionRows>>, NEW n
    PROVE  /\ CriticalConditions(n)' = CriticalConditions(n)
           /\ ComplianceOf(MonitorConditions, n)'
                = ComplianceOf(MonitorConditions, n)
<1> USE DEF licenseRows, conditionRows
<1>1. MonitorConditions' = MonitorConditions /\ Rows' = Rows
  BY DEF MonitorConditions, Rows
<1>2. RegularAmong(MonitorConditions, n)' = RegularAmong(MonitorConditions, n)
  BY <1>1 DEF RegularAmong, calculateRiskLevel, DaysUntil
<1>3. RiskKey(n)' = RiskKey(n)
  BY <1>1 DEF RiskKey, RiskOrder, calculateRiskLevel, DaysUntil
<1> QED
  BY <1>1, <1>2, <1>3
     DEF CriticalConditions, First, Sooner, ComplianceOf, Percentage

LEMMA InitQuiet == Init => QuietInv
  BY DEF Init, NoBlock, QuietInv

LEMMA WriteQuiet == TypeOK /\ QuietInv /\ block' = Disturbed => QuietInv'
<1> SUFFICES ASSUME TypeOK, QuietInv, block' = Disturbed, NEW r \in Requests
             PROVE /\ block'[r].pc = "answered"
                        => block'[r].listed /\ block'[r].compliance # {}
                   /\ block'[r].quiet /\ block'[r].listed
                        => block'[r].list \in CriticalConditions(ClockOf(r))'
                   /\ block'[r].quiet =>
                        \A figures \in block'[r].compliance :
                          figures = ComplianceOf(MonitorConditions, ClockOf(r))'
                   /\ block'[r].pc = "idle"
                        => ~block'[r].listed /\ block'[r].compliance = {}
  BY DEF QuietInv
<1>1. /\ block'[r].pc = block[r].pc
      /\ block'[r].listed = block[r].listed
      /\ block'[r].compliance = block[r].compliance
      /\ block'[r].quiet <=> block[r].pc = "idle"
  BY DEF TypeOK, Disturbed, Block
<1> QED
  BY <1>1 DEF QuietInv

LEMMA ReadQuiet ==
    ASSUME TypeOK, QuietInv, UNCHANGED <<licenseRows, conditionRows>>,
           BlockStep \/ UNCHANGED block
    PROVE  QuietInv'
<1> DEFINE Holds(r) ==
      /\ block[r].pc = "answered"
           => block[r].listed /\ block[r].compliance # {}
      /\ block[r].quiet /\ block[r].listed
           => block[r].list \in CriticalConditions(ClockOf(r))
      /\ block[r].quiet =>
           \A figures \in block[r].compliance :
               figures = ComplianceOf(MonitorConditions, ClockOf(r))
      /\ block[r].pc = "idle"
           => ~block[r].listed /\ block[r].compliance = {}
<1>1. ASSUME NEW r \in Requests, block'[r] = block[r] PROVE Holds(r)'
  <2>1. ClockOf(r)' = ClockOf(r) /\ Holds(r)
    BY <1>1 DEF ClockOf, QuietInv
  <2> QED
    BY <1>1, <2>1, SameRows
<1>2. ASSUME NEW r \in Requests, BeginBlock(r) PROVE Holds(r)'
  BY <1>2 DEF BeginBlock, TypeOK, Block, QuietInv
<1>3. ASSUME NEW r \in Requests, ReadList(r) PROVE Holds(r)'
  <2>1. PICK critical \in CriticalConditions(ClockOf(r)) :
          block' = [block EXCEPT ![r].list = critical, ![r].listed = TRUE]
    BY <1>3 DEF ReadList
  <2>2. /\ block'[r] = [block[r] EXCEPT !.list = critical, !.listed = TRUE]
        /\ ClockOf(r)' = ClockOf(r)
    BY <2>1 DEF TypeOK, Block, ClockOf
  <2> QED
    BY <1>3, <2>1, <2>2, SameRows DEF ReadList, TypeOK, Block, QuietInv
<1>4. ASSUME NEW r \in Requests, ReadCompliance(r) PROVE Holds(r)'
  <2> DEFINE figures == ComplianceOf(MonitorConditions, ClockOf(r))
  <2>1. /\ block'[r] = [block[r] EXCEPT !.compliance = {figures}]
        /\ ClockOf(r)' = ClockOf(r)
    BY <1>4 DEF ReadCompliance, TypeOK, Block, ClockOf
  <2> QED
    BY <1>4, <2>1, SameRows DEF ReadCompliance, TypeOK, Block, QuietInv
<1>5. ASSUME NEW r \in Requests, Answer(r) PROVE Holds(r)'
  <2>1. /\ block'[r] = [block[r] EXCEPT !.pc = "answered"]
        /\ ClockOf(r)' = ClockOf(r)
    BY <1>5 DEF Answer, TypeOK, Block, ClockOf
  <2> QED
    BY <1>5, <2>1, SameRows DEF Answer, TypeOK, Block, QuietInv
<1>6. ASSUME NEW q \in Requests,
             BeginBlock(q) \/ ReadList(q) \/ ReadCompliance(q) \/ Answer(q),
             NEW r \in Requests \ {q}
      PROVE block'[r] = block[r]
  BY <1>6 DEF BeginBlock, ReadList, ReadCompliance, Answer, TypeOK, Block
<1>7. \A r \in Requests : Holds(r)'
  BY <1>1, <1>2, <1>3, <1>4, <1>5, <1>6 DEF BlockStep
<1> QED
  BY <1>7 DEF QuietInv

LEMMA StepQuiet == TypeOK /\ QuietInv /\ [Next]_vars => QuietInv'
<1>1. Tick => UNCHANGED <<licenseRows, conditionRows>> /\ UNCHANGED block
  BY DEF Tick
<1>2. LicenseWrite \/ ConditionWrite => block' = Disturbed
  BY DEF LicenseWrite, ConditionWrite, Register, Renew, Append, Edit, Delete
<1>3. BlockStep => UNCHANGED <<licenseRows, conditionRows>>
  BY DEF BlockStep, BeginBlock, ReadList, ReadCompliance, Answer
<1> QED
  BY <1>1, <1>2, <1>3, WriteQuiet, ReadQuiet DEF Next, vars

(* Of fewer than 200 conditions: a block no write disturbed shows full      *)
(* compliance exactly when it lists nothing critical, and lists as many     *)
(* critical conditions as are pending, up to Shown.                         *)
THEOREM BlockAgreesForAnySize ==
    ASSUME Cardinality(Conditions) < 200 PROVE Spec => []BlockAgrees
<1>1. TypeOK /\ QuietInv => BlockAgrees
  <2> SUFFICES ASSUME QuietInv, NEW r \in Requests,
                      block[r].pc = "answered", block[r].quiet,
                      NEW figures \in block[r].compliance
               PROVE LET pending == figures.totalActive - figures.inCompliance IN
                     /\ figures.compliancePercentage = 100 <=> block[r].list = {}
                     /\ Cardinality(block[r].list)
                          = IF pending < Shown THEN pending ELSE Shown
    BY DEF BlockAgrees
  <2> DEFINE M == MonitorConditions
             G == RegularAmong(M, ClockOf(r))
             P == M \ G
             T == block[r].list
  <2>1. figures = ComplianceOf(M, ClockOf(r))
    BY DEF QuietInv
  <2>2. T \in First(P, RiskKey(ClockOf(r)))
    BY DEF QuietInv, CriticalConditions
  <2>3. IsFiniteSet(M) /\ Cardinality(M) <= Cardinality(Conditions)
    BY RowsAssumption, FS_Subset DEF MonitorConditions, Rows
  <2>4. G \in SUBSET M /\ P \in SUBSET M
    BY DEF RegularAmong
  <2>5. IsFiniteSet(G) /\ IsFiniteSet(P) /\ Cardinality(G) <= Cardinality(M)
    BY <2>3, <2>4, FS_Subset
  <2>6. /\ Cardinality(M) \in Nat /\ Cardinality(G) \in Nat
        /\ Cardinality(P) \in Nat /\ Cardinality(Conditions) \in Nat
    BY <2>3, <2>5, RowsAssumption, FS_CardinalityType
  <2>7. Cardinality(P) = Cardinality(M) - Cardinality(G)
    <3>1. M \cap G = G
      BY <2>4
    <3> QED
      BY <2>3, <3>1, FS_Difference
  <2>8. /\ T \in SUBSET P
        /\ Cardinality(T) = IF Cardinality(P) < Shown THEN Cardinality(P)
                            ELSE Shown
    BY <2>2 DEF First
  <2>9. IsFiniteSet(T) /\ (Cardinality(T) = 0 <=> T = {})
    BY <2>5, <2>8, FS_Subset, FS_EmptySet
  <2>10. /\ figures.totalActive = Cardinality(M)
         /\ figures.inCompliance = Cardinality(G)
         /\ figures.compliancePercentage = Percentage(Cardinality(G), Cardinality(M))
    BY <2>1 DEF ComplianceOf
  <2>11. figures.compliancePercentage = 100 <=> Cardinality(G) = Cardinality(M)
    BY <2>3, <2>5, <2>6, <2>10, PercentageBounds
  <2> HIDE DEF M, G, P, T
  <2>12. Cardinality(G) = Cardinality(M) <=> T = {}
    BY <2>6, <2>7, <2>8, <2>9, RowsAssumption
  <2>13. figures.totalActive - figures.inCompliance = Cardinality(P)
    BY <2>7, <2>10
  <2> QED
    BY <2>8, <2>11, <2>12, <2>13 DEF T
<1>2. Spec => []QuietInv
  BY TypeInvariance, InitQuiet, StepQuiet, PTL DEF Spec
<1> QED
  BY <1>1, <1>2, TypeInvariance, PTL

(* An earlier date is at least as critical: the levels of a license follow  *)
(* its date.                                                                *)
LEMMA RankFollowsDate ==
    ASSUME NEW s \in Nat, NEW t \in Nat, NEW n \in Nat, s <= t
    PROVE  /\ CriticalityRank[calculateLicenseStatus(s, n)] \in 0..2
           /\ CriticalityRank[calculateLicenseStatus(s, n)]
                <= CriticalityRank[calculateLicenseStatus(t, n)]
<1>1. AttentionWindow * DayLength \in Nat /\ DayLength \in Nat
  BY ClockAssumption, WindowsAssumption
<1> QED
  BY <1>1, StatusThresholds DEF CriticalityRank

LEMMA DatesOfLicenses ==
    ASSUME TypeOK
    PROVE  now \in Nat /\ \A l \in Stored : expirationDate[l] \in Nat
<1>1. now \in Nat
  BY ClockAssumption DEF TypeOK
<1>2. \A l \in Stored : expirationDate[l] \in Dates
  BY DEF TypeOK
<1> QED
  BY <1>1, <1>2, ClockAssumption

LEMMA PanelByDate ==
    ASSUME TypeOK, NEW k \in Stored, NEW l \in Stored,
           status[k] # "ARCHIVED", status[l] # "ARCHIVED",
           Sooner(PanelKey(k), PanelKey(l))
    PROVE  expirationDate[k] < expirationDate[l]
<1> DEFINE Rank(x) == CriticalityRank[calculateLicenseStatus(expirationDate[x], now)]
<1>1. /\ expirationDate[k] \in Nat /\ expirationDate[l] \in Nat /\ now \in Nat
      /\ PanelKey(k) = <<Rank(k), expirationDate[k]>>
      /\ PanelKey(l) = <<Rank(l), expirationDate[l]>>
  BY DatesOfLicenses DEF PanelKey, currentLicenseStatus
<1>2. \/ Rank(k) < Rank(l)
      \/ Rank(k) = Rank(l) /\ expirationDate[k] < expirationDate[l]
  BY <1>1 DEF Sooner
<1>3. Rank(k) \in Int /\ Rank(l) \in Int
  BY <1>1, RankFollowsDate
<1>4. expirationDate[l] <= expirationDate[k] => Rank(l) <= Rank(k)
  BY <1>1, RankFollowsDate
<1> HIDE DEF Rank
<1> QED
  BY <1>1, <1>2, <1>3, <1>4

LEMMA CriticalByDate ==
    ASSUME TypeOK, NEW T \in CriticalLicenses, NEW l \in T,
           NEW k \in Stored \ T
    PROVE  expirationDate[l] <= expirationDate[k]
<1> DEFINE Critical ==
             {x \in Stored : DashboardStatus(x) \in {"EXPIRED", "ATTENTION"}}
           Rank(x) == CriticalityRank[DashboardStatus(x)]
           key == [x \in Stored |-> <<Rank(x), expirationDate[x]>>]
<1>1. /\ T \subseteq Critical
      /\ \A x \in T, y \in Critical \ T : ~Sooner(key[y], key[x])
  BY DEF CriticalLicenses, First
<1>2. /\ l \in Stored /\ now \in Nat
      /\ expirationDate[l] \in Nat /\ expirationDate[k] \in Nat
  BY <1>1, DatesOfLicenses
<1>3. CASE k \in Critical
  <2>1. ~Sooner(<<Rank(k), expirationDate[k]>>, <<Rank(l), expirationDate[l]>>)
    BY <1>1, <1>2, <1>3
  <2>2. ~(Rank(k) < Rank(l))
        /\ ~(Rank(k) = Rank(l) /\ expirationDate[k] < expirationDate[l])
    BY <2>1 DEF Sooner
  <2>3. Rank(k) \in Int /\ Rank(l) \in Int
    BY <1>2, RankFollowsDate DEF DashboardStatus
  <2>4. expirationDate[k] <= expirationDate[l] => Rank(k) <= Rank(l)
    BY <1>2, RankFollowsDate DEF DashboardStatus
  <2> HIDE DEF Rank
  <2> QED
    BY <1>2, <2>2, <2>3, <2>4
<1>4. CASE k \notin Critical
  <2>1. AttentionWindow * DayLength \in Nat
    BY ClockAssumption, WindowsAssumption
  <2>2. DashboardStatus(k) = "REGULAR" /\ DashboardStatus(l) # "REGULAR"
    BY <1>1, <1>2, <1>4, StatusThresholds DEF DashboardStatus
  <2> QED
    BY <1>2, <2>1, <2>2, StatusThresholds DEF DashboardStatus
<1> QED
  BY <1>3, <1>4

(* For every window and number of items shown, sorting by criticality first *)
(* keeps the order of the dates, in the panel and in what the dashboard     *)
(* shows of its critical licenses, whichever way the database breaks ties.  *)
THEOREM MostUrgentForAnyWindow == Spec => []MostUrgentFirst
<1>1. TypeOK => MostUrgentFirst
  BY PanelByDate, CriticalByDate DEF MostUrgentFirst
<1> QED
  BY <1>1, TypeInvariance, PTL

(* The figures of all four views agree while no license is archived: every  *)
(* condition hangs off a stored license, so the monitor's filter by status  *)
(* leaves none out, and the panel derives the status the dashboard derives. *)
THEOREM ViewsAgreeWithoutRenewal == Spec => []ViewsAgreeUntilRenewal
<1>1. ASSUME TypeOK, \A l \in Licenses : status[l] # "ARCHIVED"
      PROVE /\ Dashboard = Panel
            /\ Card.attention = Panel["ATTENTION"]
            /\ Card.expired = Panel["EXPIRED"]
            /\ Card.conformity = Monitor.compliancePercentage
  <2>1. \A l \in Stored : currentLicenseStatus(l) = DashboardStatus(l)
    BY <1>1 DEF Stored, currentLicenseStatus, DashboardStatus
  <2>2. \A s : {l \in Stored : currentLicenseStatus(l) = s}
                 = {l \in Stored : DashboardStatus(l) = s}
    BY <2>1
  <2>3. Dashboard = Panel
    BY <2>2 DEF Dashboard, Panel
  <2>4. MonitorConditions = CardConditions
    BY <1>1 DEF TypeOK, MonitorConditions, CardConditions, Rows, Stored
  <2>5. \A s : CardLicenses(s) = {l \in Stored : DashboardStatus(l) = s}
    BY DEF CardLicenses, DashboardStatus
  <2>6. /\ Card.attention = Panel["ATTENTION"]
        /\ Card.expired = Panel["EXPIRED"]
    BY <2>2, <2>5 DEF Card, Panel
  <2>7. Card.conformity = Monitor.compliancePercentage
    BY <2>4 DEF Card, Monitor
  <2> QED
    BY <2>3, <2>6, <2>7
<1>2. TypeOK => ViewsAgreeUntilRenewal
  BY <1>1 DEF ViewsAgreeUntilRenewal
<1> QED
  BY <1>2, TypeInvariance, PTL
=============================================================================
