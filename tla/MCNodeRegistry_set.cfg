\* Two pods, one of which shuts down.
SPECIFICATION Spec
CONSTANTS
    Pods = {p1, p2}
    TTL = 5
    Period = 1
    Delay = 1
SYMMETRY Symmetry
INVARIANTS
    ActiveNodeInSet
