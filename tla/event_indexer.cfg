CONSTANTS
    vault = vault
    request = request
    pool = pool
    execution = execution
    foreign = foreign
    orphan = orphan
    NoBlock = NoBlock
    Log <- MCLog
    BlockOf <- MCBlockOf
    IndexOf <- MCIndexOf
    Source <- MCSource
    Refs <- MCRefs
    Tracked <- TrackedEvents
    MinBlock = 1
    HeightOffset = 1
    BatchSize = 1
    MaxHeight = 4
    MaxFaults = 2
SPECIFICATION FairSpec
INVARIANTS
    TypeOK
    Complete
    OnlyFinal
PROPERTIES
    PointerMonotonic
    LedgerSpec
    EventuallyStored
