------------------------------ MODULE EventLists ------------------------------
(***************************************************************************)
(* The events the indexer can be told to index, the lists of them shipped  *)
(* in configs/, and for each event the rows its handler looks up and       *)
(* cannot do without.  An event is <<contract, name>>; a row is known by   *)
(* the event whose handler creates it.                                     *)
(***************************************************************************)
EXTENDS FiniteSets

Of(contract, names) == { <<contract, n>> : n \in names }
AM(names)  == Of("ASSET_MANAGER", names)
MAC(names) == Of("MASTER_ACCOUNT_CONTROLLER", names)

-----------------------------------------------------------------------------
(* The handlers, section by section of event-storer.ts, by what they need. *)

AgentVaultCreated   == <<"ASSET_MANAGER", "AgentVaultCreated">>
CollateralTypeAdded == <<"ASSET_MANAGER", "CollateralTypeAdded">>
CollateralReserved  == <<"ASSET_MANAGER", "CollateralReserved">>
PersonalAccount     == <<"MASTER_ACCOUNT_CONTROLLER", "PersonalAccountCreated">>
FXrpRedeemed        == <<"MASTER_ACCOUNT_CONTROLLER", "FXrpRedeemed">>
FXrpTransferred     == <<"MASTER_ACCOUNT_CONTROLLER", "FXrpTransferred">>
SmartReservation    == <<"MASTER_ACCOUNT_CONTROLLER", "CollateralReserved">>
TokenTransfer       == <<"ERC20", "Transfer">>
\* The same event of a pool's token, which the parser knows by its vault.
PoolTokenTransfer   == <<"COLLATERAL_POOL", "Transfer">>

SettingEvents      == AM({"SettingChanged", "ContractChanged"})
OfCollateralType   == AM({"CollateralRatiosChanged"}) \cup {AgentVaultCreated}
AgentEvents        == AM({"AgentDestroyed", "AgentDestroyAnnounced",
    "AgentSettingChanged", "AvailableAgentExited", "AgentAvailable", "SelfClose"})
VaultMintings      == AM({"CollateralReserved", "SelfMint"})
OfReservation      == AM({"MintingExecuted", "MintingPaymentDefault",
    "CollateralReservationDeleted"})
DirectMintings     == AM({"DirectMintingExecuted",
    "DirectMintingExecutedToSmartAccount", "DirectMintingPaymentTooSmallForFee",
    "DirectMintingDelayed", "LargeDirectMintingDelayed", "DirectMintingsUnblocked"})
RedemptionRequests == AM({"RedemptionRequested", "RedemptionWithTagRequested"})
OfRequest          == AM({"RedemptionPerformed", "RedemptionDefault",
    "RedemptionPaymentBlocked", "RedemptionPaymentFailed", "RedemptionRejected",
    "RedemptionPoolFeeMinted"})
VaultRedemptions   == AM({"RedeemedInCollateral", "RedemptionTicketCreated"})
OfTicket           == AM({"RedemptionTicketUpdated", "RedemptionTicketDeleted"})
IncompleteRedemptions == AM({"RedemptionRequestIncomplete", "RedemptionAmountIncomplete"})
Liquidations       == AM({"LiquidationStarted", "FullLiquidationStarted",
    "LiquidationPerformed", "LiquidationEnded", "IllegalPaymentConfirmed",
    "DuplicatePaymentConfirmed", "UnderlyingBalanceTooLow"})
VaultUnderlying    == AM({"VaultCollateralWithdrawalAnnounced",
    "PoolTokenRedemptionAnnounced", "UnderlyingWithdrawalAnnounced",
    "UnderlyingBalanceToppedUp", "UnderlyingBalanceChanged", "DustChanged",
    "ConfirmedClosedMintingPayment", "AgentPing", "AgentPingResponse"})
OfWithdrawal       == AM({"UnderlyingWithdrawalConfirmed", "UnderlyingWithdrawalCancelled"})
SystemEvents       == AM({"CurrentUnderlyingBlockUpdated"})
EmergencyPauses    == AM({"EmergencyPauseTriggered", "EmergencyPauseCanceled"})
CoreVaultFunds     == AM({"CoreVaultRedemptionRequested", "CoreVaultFundsAdded"})
VaultCoreVault     == AM({"TransferToCoreVaultStarted", "ReturnFromCoreVaultRequested"})
OfTransfer         == AM({"TransferToCoreVaultSuccessful", "TransferToCoreVaultDefaulted"})
OfReturn           == AM({"ReturnFromCoreVaultConfirmed", "ReturnFromCoreVaultCancelled"})
OldPoolEvents      == Of("COLLATERAL_POOL", {"Entered", "Exited", "ClaimedReward", "PaidOut"})
PoolEvents         == Of("COLLATERAL_POOL", {"CPClaimedReward", "CPEntered", "CPExited",
    "CPFeeDebtChanged", "CPFeeDebtPaid", "CPFeesWithdrawn", "CPPaidOut", "CPSelfCloseExited"})
CoreVaultManagerEvents == Of("CORE_VAULT_MANAGER", {"TransferRequested",
    "PaymentConfirmed", "PaymentInstructions", "EscrowInstructions",
    "TransferRequestCanceled", "NotAllEscrowsProcessed", "EscrowExpired",
    "EscrowFinished", "SettingsUpdated", "CustodianAddressUpdated"})
Prices             == Of("PRICE_READER", {"PricesPublished"})

SmartAccountVaults == MAC({"AgentVaultAdded", "AgentVaultRemoved"})
OfPersonalAccount  == MAC({"Approved", "Claimed", "CollateralReserved", "Deposited",
    "FXrpRedeemed", "FXrpTransferred", "InstructionExecuted", "SwapExecuted",
    "WithdrawalClaimed"})
ExecutorSettings   == MAC({"DefaultInstructionFeeSet", "ExecutorFeeSet", "ExecutorSet"})
InstructionSettings == MAC({"InstructionFeeRemoved", "InstructionFeeSet",
    "OwnershipTransferred", "PaymentProofValidityDurationSecondsSet"})
WalletSettings     == MAC({"VaultAdded", "XrplProviderWalletAdded",
    "XrplProviderWalletRemoved"})
OftEvents          == Of("OFT_ADAPTER", {"OFTReceived", "OFTSent"})
TagEvents          == Of("MINTING_TAG_MANAGER", {"MintingTagReserved",
    "RecipientChanged", "AllowedExecutorChangePending", "ReservationFeeChanged"})

SmartAccountEvents == {PersonalAccount} \cup SmartAccountVaults
    \cup OfPersonalAccount \cup ExecutorSettings \cup InstructionSettings
    \cup WalletSettings

OfAgentVault == AgentEvents \cup VaultMintings \cup RedemptionRequests
    \cup VaultRedemptions \cup Liquidations \cup VaultUnderlying
    \cup VaultCoreVault \cup SmartAccountVaults

\* Each entry: the events, and the events one of which must have been stored.
Requirements ==
    { <<OfCollateralType, {CollateralTypeAdded}>>,
      <<OfAgentVault, {AgentVaultCreated}>>,
      <<OldPoolEvents \cup PoolEvents, {AgentVaultCreated}>>,
      <<OfReservation, {CollateralReserved}>>,
      <<OfRequest, RedemptionRequests>>,
      <<OfTicket, AM({"RedemptionTicketCreated"})>>,
      <<OfWithdrawal, AM({"UnderlyingWithdrawalAnnounced"})>>,
      <<OfTransfer, AM({"TransferToCoreVaultStarted"})>>,
      <<OfReturn, AM({"ReturnFromCoreVaultRequested"})>>,
      <<OfPersonalAccount, {PersonalAccount}>>,
      <<{SmartReservation}, {CollateralReserved}>>,
      <<{FXrpRedeemed}, RedemptionRequests>>,
      <<{FXrpTransferred}, {TokenTransfer}>> }

\* The parser recognises these by the row of the agent's vault; without it
\* they are somebody else's events, and are dropped.
KnownByVault == OldPoolEvents \cup PoolEvents \cup {PoolTokenTransfer}

Handled ==
    SettingEvents \cup OfCollateralType \cup {CollateralTypeAdded} \cup OfAgentVault
    \cup OfReservation \cup DirectMintings \cup OfRequest \cup OfTicket
    \cup IncompleteRedemptions \cup OfWithdrawal \cup SystemEvents \cup EmergencyPauses
    \cup CoreVaultFunds \cup OfTransfer \cup OfReturn
    \cup KnownByVault \cup {TokenTransfer} \cup CoreVaultManagerEvents \cup Prices
    \cup SmartAccountEvents \cup OftEvents \cup TagEvents

Requires ==
    [e \in Handled |-> { r[2] : r \in { x \in Requirements : e \in x[1] } }]

-----------------------------------------------------------------------------
(* The lists.  Both transfers are selected by the one entry ERC20:Transfer. *)

Everything == Handled

NotInExplorer ==
    AM({"AgentDestroyAnnounced", "CollateralRatiosChanged",
        "ConfirmedClosedMintingPayment", "ContractChanged",
        "CurrentUnderlyingBlockUpdated", "DustChanged", "EmergencyPauseCanceled",
        "EmergencyPauseTriggered", "PoolTokenRedemptionAnnounced",
        "VaultCollateralWithdrawalAnnounced"})
    \cup CoreVaultManagerEvents \cup Prices \cup SmartAccountEvents
    \cup OftEvents \cup TagEvents

NotInDashboard ==
    NotInExplorer \cup AM({"RedemptionRequestIncomplete", "UnderlyingBalanceToppedUp",
        "UnderlyingWithdrawalAnnounced", "UnderlyingWithdrawalCancelled",
        "UnderlyingWithdrawalConfirmed"})

Explorer  == Handled \ NotInExplorer
Dashboard == Handled \ NotInDashboard
=============================================================================
