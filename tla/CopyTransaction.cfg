\* Two outsiders, one of them a directory, race one copy under every policy.
SPECIFICATION Spec
CONSTANTS
    Foreign = {f1, d1}
    Directories = {d1}
    Policies <- MCPolicies
    Attempts = 2
    Edits = 1
    Nil = Nil
INVARIANTS TypeOK NoLoss NoSilentResidue  MoveKeepsData
PROPERTIES ImplementsContract Terminates
