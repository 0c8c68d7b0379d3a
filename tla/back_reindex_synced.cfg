CONSTANTS
    vault = vault
    ticket = ticket
    request = request
    performed = performed
    laterTicket = laterTicket
    laterPerformed = laterPerformed
    NoBlock = NoBlock
    Log <- MCLog
    BlockOf <- MCBlockOf
    IndexOf <- MCIndexOf
    Source <- MCSource
    Refs <- MCRefs
    Old <- MCOld
    Diff <- MCDiff
    StartBlock = NoBlock
    StepBlocks = 1
    NewBlocks = 1
    MinBlock = 1
    HeightOffset = 1
    BatchSize = 0
    StartHeight = 4
    MaxHeight = 6
    MaxFaults = 1
SPECIFICATION Spec
INVARIANT FinishedIsSynced
