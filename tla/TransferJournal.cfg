\* One instance, two transfers, one crash, one backward clock step, a retention limit of one.
SPECIFICATION Spec
CONSTANTS
    Transfers = {t1, t2}
    Instances = {a}
    Names = {n0, n1}
    Requested = n0
    Retention = 1
    MaxCrashes = 1
    MaxSteps = 1
    Nil = Nil
SYMMETRY Symmetry
INVARIANTS TypeOK NeverAttemptedIsTrue RecordedWherePublished SummaryIsTrue
    InterruptedIsFound ActiveIsProtected SettledStaysKnown
CHECK_DEADLOCK FALSE
