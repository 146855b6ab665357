SPECIFICATION FairSpec
CONSTANTS
    d1 = d1
    d2 = d2
    Device = {d1, d2}
    Template = {"t1"}
    Selector = {"all", "equals"}
    LabelValue = {"tor"}
    MaxUid = 1
    MaxChanges = 1
    MaxReports = 1
    MaxFaults = 0
    MaxEvents = 3
    MaxLag = 1
INVARIANT TypeOK
PROPERTY CountsSettle
INVARIANT RestsCounted
CHECK_DEADLOCK FALSE
