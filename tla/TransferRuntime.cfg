\* A copy or delete batch of two, a retry or an upload, two worker cancellations
\* or shutdowns.
SPECIFICATION Spec
CONSTANTS
    Kinds = {"copy", "delete", "retry", "upload"}
    N = 2
    MaxStops = 2
    MaxRenames = 1
    Nil = Nil
INVARIANTS TypeOK HistoryIsTrue CancelledEarlyNeverRuns RowMatchesHistory NeverReplayed
PROPERTIES CopyStops AllSettle
