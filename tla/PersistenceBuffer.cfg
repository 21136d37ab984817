SPECIFICATION FairSpec
CONSTANTS
    s1 = s1
    s2 = s2
    Signals = {s1, s2}
    MaxRev = 2
    BatchLimit = 1
    MaxFailures = 1
    MaxCrashes = 1
INVARIANTS
    NoSnapshotLost
    NoOrphanedActiveRow
    FinalFlushComplete
PROPERTIES
    RowNeverRegresses
    ImplementsStore
    EventuallyFlushed
    ShutdownTerminates
