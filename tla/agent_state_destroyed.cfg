CONSTANTS
    first = first
    second = second
    Agent = {first, second}
    MaxHistory = 3
    MaxFaults = 0
SPECIFICATION Spec
INVARIANT DestroyedNotListed
