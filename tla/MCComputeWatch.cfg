SPECIFICATION Spec
CONSTANTS
    MaxJobs = 3
    MaxInits = 2
    JobRows = {1, 2}
    Blocks = 2
    Wrap = 5
INVARIANTS
    MeasuredJobIsFinal
    WatcherGoneBeforeUnmap
    NoFalseAlarm
PROPERTIES
    SnapshotStable
    MainWaitsEnd
