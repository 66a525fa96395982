\* Two pods under the fairness of FairSpec, with the shortest TTL that the
\* assumption allows: a tick is a minute, and the key lasts one less than in
\* the code.
SPECIFICATION FairSpec
CONSTANTS
    Pods = {p1, p2}
    TTL = 4
    Period = 1
    Delay = 1
INVARIANTS
    TypeOK
    ServingNodeListed
    GoneNodeForgotten
    JoinIsBounded
PROPERTIES
    HeartbeatJoined
