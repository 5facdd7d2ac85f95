CONSTANTS
    s = s  g1 = g1  g2 = g2  g3 = g3  d = d
    NoFile = NoFile
    Queue <- MCQueue
    Pooled = 2
    Fetched = 3
    Options <- MCOptions
    MaxRuns = 2
    MaxFaults = 1
SPECIFICATION FairSpec
CHECK_DEADLOCK FALSE
INVARIANTS
    ManifestAccounts
PROPERTIES
    ExistingKept
    BuilderReturns
