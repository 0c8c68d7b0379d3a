CONSTANTS
    a = a
    b = b
    payment = payment
    Branch = {a, b}
    Tx = {payment}
    Payments <- PaidOnce
    MinBlock = 1
    NoBlock = NoBlock
    MaxHeight = 3
    MaxReorgs = 2
    MaxFaults = 2
SPECIFICATION FairSpec
INVARIANTS
    TypeOK
    NoGap
    PaymentsRecorded
    OneChain
PROPERTIES
    FollowsChain
