\* Two picks, one chosen source and one failure, over every rail entry kind.
SPECIFICATION Spec
CONSTANTS
    Services = {"s3", "glue", "settings"}
    MaxPicks = 2
    MaxSources = 1
    MaxFaults = 1
    None = None
    Blank = Blank
    Broken = Broken
INVARIANTS TypeOK NothingOrphaned DrainedBeforeDisposal NewestSettles CleanAtEnd
PROPERTIES Settles
CHECK_DEADLOCK FALSE
