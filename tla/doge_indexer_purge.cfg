CONSTANTS
    a = a
    b = b
    payment = payment
    Branch = {a, b}
    Tx = {payment}
    Payments <- PaidOnce
    MinBlock = 1
    NoBlock = NoBlock
    MaxHeight = 3
    MaxReorgs = 1
    MaxFaults = 0
SPECIFICATION FairSpec
PROPERTY ForksPurged
