\* Two drafts, two pages; three edits, requests and failing operations in any mix.
CONSTANTS
    None = None
    c1 = c1
    c2 = c2
    Contexts = {c1, c2}
    Pages = {1, 2}
    MaxEdits = 3
    MaxEvents = 3
SPECIFICATION Spec
INVARIANTS TypeOK SavedIsStored DeletedStaysDeleted NewerDraftIsKept ReportIsComplete
SYMMETRY Symmetry
