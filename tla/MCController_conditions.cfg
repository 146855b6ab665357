SPECIFICATION FairSpec
CONSTANTS
    d1 = d1
    d2 = d2
    Device = {d1}
    Template = {"t1"}
    Selector = {"all"}
    LabelValue = {"tor"}
    MaxUid = 1
    MaxChanges = 0
    MaxReports = 1
    MaxFaults = 0
    MaxEvents = 2
    MaxLag = 2
PROPERTY ConditionsSettle
CHECK_DEADLOCK FALSE
