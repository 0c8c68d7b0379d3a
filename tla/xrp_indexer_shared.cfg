CONSTANTS
    agent = agent
    lateAgent = lateAgent
    minter = minter
    other = other
    topup = topup
    payment = payment
    withdrawal = withdrawal
    foreign = foreign
    Tx <- MCTx
    LedgerOf <- MCLedgerOf
    Parties <- MCParties
    Referenced = {payment}
    Vault = {agent, lateAgent}
    CreatedAt <- MCCreatedAt
    Monitored = {}
    MinBlock = 1
    Offset = 1
    NoBlock = NoBlock
    MaxLedger = 4
    MaxFaults = 0
SPECIFICATION Spec
INVARIANT VaultsComplete
