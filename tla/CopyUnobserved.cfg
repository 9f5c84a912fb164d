\* Another process replaces the destination between LocalFS's lstat and rename.
SPECIFICATION Spec
CONSTANTS
    Foreign = {f1, f2}
    Directories = {}
    Policies <- MCOverwrite
    Attempts = 1
    Edits = 0
    Nil = Nil
INVARIANTS OnlyObservedDestroyed
