\* A second instance clears history while the first one is copying.
SPECIFICATION Spec
CONSTANTS
    Transfers = {t1, t2}
    Instances = {a, b}
    Names = {n0, n1}
    Requested = n0
    Retention = 1
    MaxCrashes = 1
    MaxSteps = 1
    Nil = Nil
INVARIANTS ActiveIsProtected
CHECK_DEADLOCK FALSE
