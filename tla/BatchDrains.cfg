\* A row is cancelled while settle() writes its entry's terminal record.
SPECIFICATION Spec
CONSTANTS
    Kinds = {"copy", "delete"}
    N = 3
    MaxStops = 1
    MaxRenames = 1
    Nil = Nil
INVARIANTS DrainedBeforeRelease
