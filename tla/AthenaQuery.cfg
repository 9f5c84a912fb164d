CONSTANTS
    MaxRuns = 2
    MaxPending = 1
    MaxChanges = 2
    MaxFaults = 1
SPECIFICATION Spec
INVARIANTS TypeOK NoOrphan ShutdownStopsAll LostStartsAreRetried CancelledIsStopped SettledIsExportable
PROPERTIES RefusalStays TransitionsEnd
CHECK_DEADLOCK FALSE
