SPECIFICATION FairSpec
CONSTANTS
    a1 = a1
    a2 = a2
    Caller = {a1, a2}
    Artifact <- Artifacts
    MaxEntries = 2
    MaxBytes = 1
    MaxCrashes = 1
    MaxFailures = 3
    MaxStuck = 1
INVARIANT TypeOK
INVARIANT ReadyIsComplete
INVARIANT SizeWithinLimit
INVARIANT LitterAccounted
PROPERTY NoNewDownload
PROPERTY Refines
PROPERTY EveryoneAnswered
