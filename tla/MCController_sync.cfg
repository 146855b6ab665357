SPECIFICATION FairSpec
CONSTANTS
    d1 = d1
    d2 = d2
    Device = {d1}
    Template = {"t1"}
    Selector = {"exists", "unsupported", "site"}
    LabelValue = {"tor", "leaf"}
    MaxUid = 2
    MaxChanges = 2
    MaxReports = 0
    MaxFaults = 1
    MaxEvents = 4
    MaxLag = 1
PROPERTY TouchesOnlyOwn
PROPERTY AffectedIsQueued
PROPERTY EventuallyInSync
INVARIANT RestsInSync
CHECK_DEADLOCK FALSE
