\* Two quick picks, nothing failing: the second is lost.
SPECIFICATION Spec
CONSTANTS
    Services = {"s3", "glue", "settings"}
    MaxPicks = 2
    MaxSources = 0
    MaxFaults = 0
    None = None
    Blank = Blank
    Broken = Broken
INVARIANTS LatestPickWins
CHECK_DEADLOCK FALSE
