\* One process that is asked to end.
SPECIFICATION Spec
CONSTANT
    MaxRequests = 1
INVARIANTS
    ExitsCleanly
