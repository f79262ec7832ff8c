SPECIFICATION Spec
CONSTANTS
    Licenses = {l1, l2}
    Conditions = {c1, c2, c3}
    Requests = {r1}
    Dates = {1, 4}
    MaxTime = 5
    DayLength = 2
    AttentionWindow = 1
    RiskDays = 0
    RegularDays = 1
    Shown = 1
    None = None
SYMMETRY Symmetry
CHECK_DEADLOCK FALSE
INVARIANTS
    ThresholdsMet
    MostUrgentFirst
    BlockAgrees
    ViewsAgreeUntilRenewal
PROPERTIES
    OnlyWorsens
