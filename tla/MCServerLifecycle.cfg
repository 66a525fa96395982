\* One process, two requests at a time, under the fairness of FairSpec.
SPECIFICATION FairSpec
CONSTANT
    MaxRequests = 2
INVARIANTS
    TypeOK
    ExitJoinsThreads
PROPERTIES
    SigtermEndsProcess
