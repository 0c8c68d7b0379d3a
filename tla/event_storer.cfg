CONSTANTS
    redemption = redemption
    ticketId = ticketId
    alice = alice
    bob = bob
    Request = {redemption}
    Outcomes <- ResolutionOrder
    Ticket = {ticketId}
    Holder = {alice, bob}
    Amount = {1, 2}
    FirstSize = 1
    Transfers <- SomeTransfers
    Scenarios <- Plays
    MaxEvents = 4
    MaxFaults = 1
SPECIFICATION FairSpec
INVARIANTS
    TypeOK
    ResolutionsFollowChain
    TicketsFollowChain
    BalancesExact
    SettingsFollowChain
PROPERTIES
    EventuallyMirrored
