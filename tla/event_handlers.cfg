SPECIFICATION FairSpec
CONSTANTS
    Targets <- AllTargets
    Updates <- ShippedUpdates
INVARIANTS RowsAwaited LinksFollowChain
PROPERTIES AllStored
