CONSTANTS
    first = first
    second = second
    Agent = {first, second}
    MaxHistory = 5
    MaxFaults = 1
SPECIFICATION FairSpec
INVARIANTS
    TypeOK
    InfoUnlessUntracked
    InfoExplained
PROPERTIES
    InfoConverges
    EventuallyHandled
