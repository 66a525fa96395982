\* One pod that shuts down.
SPECIFICATION Spec
CONSTANTS
    Pods = {p1}
    TTL = 5
    Period = 1
    Delay = 1

INVARIANTS
    UnregisteredNotListed
