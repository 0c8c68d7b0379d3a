----------------------------- MODULE XrpIndexer -----------------------------
(***************************************************************************)
(* The XRP indexer.  It stores the ledgers' transactions that involve a    *)
(* tracked address or carry a payment reference.  The tracked addresses    *)
(* are those of the agent vaults the EVM indexer has stored, so the        *)
(* settled pass goes only as far as the last underlying block the EVM      *)
(* indexer has heard of.  The greedy pass goes on to the head and does not *)
(* move the pointer, so that its ledgers are visited again.                *)
(*                                                                         *)
(* Validated ledgers are final: there are no forks to undo.                *)
(***************************************************************************)
EXTENDS Integers, FiniteSets

CONSTANTS
    Tx,          \* transactions
    LedgerOf,    \* the ledger of each transaction
    Parties,     \* account and destination of each transaction
    Referenced,  \* transactions with a payment reference and a source
    Vault,       \* underlying addresses of agent vaults and the core vault
    CreatedAt,   \* last ledger closed when the vault is created on the EVM chain
    Monitored,   \* xrpMonitoredAddresses
    MinBlock,    \* xrpMinBlockNumber
    Offset,      \* XRP_BLOCK_HEIGHT_OFFSET
    NoBlock,
    MaxLedger,   \* bound: ledgers closed
    MaxFaults    \* bound: failed or killed turns

ASSUME XrpAssumption ==
    /\ LedgerOf \in [Tx -> Nat]
    /\ Referenced \subseteq Tx
    /\ CreatedAt \in [Vault -> Nat]
    /\ {MinBlock, Offset, MaxLedger, MaxFaults} \subseteq Nat
    /\ NoBlock \notin Int

VARIABLES
    ledger,         \* the last ledger closed
    vaults,         \* AgentVault rows (and core vault settings)
    current,        \* highest CurrentUnderlyingBlockUpdated row, 0 if none
    blocks,         \* UnderlyingBlock rows
    txs,            \* UnderlyingTransaction rows, with their references
    firstUnhandled, \* firstUnhandledXrpBlock
    early,          \* history: ledgers the greedy pass stored, each with the
                    \* vaults it was not tracking then
    tracked,        \* in memory: tracked addresses
    lastGreedy,     \* in memory: lastGreedyBlockToHandle
    pc,             \* where runHistoric is
    start,          \* startBlock of this turn
    at,             \* i, the ledger at hand
    endBlock,
    faults

coreVars == <<ledger, vaults, current>>
dbVars   == <<blocks, txs, firstUnhandled, early>>
memVars  == <<tracked, lastGreedy>>
turnVars == <<pc, start, at, endBlock>>
vars     == <<coreVars, dbVars, memVars, turnVars, faults>>

Init ==
    /\ ledger = 0 /\ vaults = {} /\ current = 0
    /\ blocks = {} /\ txs = {} /\ firstUnhandled = NoBlock /\ early = {}
    /\ tracked = Monitored /\ lastGreedy = 0
    /\ pc = "idle" /\ start = 0 /\ at = 0 /\ endBlock = 0
    /\ faults = 0

-----------------------------------------------------------------------------
(* The ledger, and the rows the EVM indexer commits in the order of the    *)
(* EVM chain: a vault created before ledger n precedes the update to n.    *)

CloseLedger ==
    /\ ledger < MaxLedger
    /\ ledger' = ledger + 1
    /\ UNCHANGED <<vaults, current, dbVars, memVars, turnVars, faults>>

IndexVault(v) ==
    /\ v \notin vaults /\ CreatedAt[v] <= ledger
    /\ vaults' = vaults \cup {v}
    /\ UNCHANGED <<ledger, current, dbVars, memVars, turnVars, faults>>

IndexCurrentBlock(n) ==
    /\ current < n /\ n <= ledger
    /\ \A v \in Vault : CreatedAt[v] < n => v \in vaults
    /\ current' = n
    /\ UNCHANGED <<ledger, vaults, dbVars, memVars, turnVars, faults>>

-----------------------------------------------------------------------------
FirstUnhandledBlockSkips == \* mutant: the pointer taken for the last block handled
    IF firstUnhandled # NoBlock THEN firstUnhandled + 1 ELSE MinBlock

FirstUnhandledBlock == IF firstUnhandled # NoBlock THEN firstUnhandled ELSE MinBlock

LastBlockToHandle == current
LatestBlockToHandle == ledger - Offset

RunHistoric ==
    /\ pc = "idle"
    /\ start' = IF FirstUnhandledBlock > MinBlock THEN FirstUnhandledBlock ELSE MinBlock
    /\ endBlock' = LastBlockToHandle
    /\ pc' = "track"
    /\ UNCHANGED <<coreVars, dbVars, memVars, at, faults>>

\* Read after the last block to handle: the vaults before it are all there.
UpdateTrackedAddresses ==
    /\ pc = "track"
    /\ tracked' = tracked \cup vaults
    /\ at' = start /\ pc' = "settled"
    /\ UNCHANGED <<coreVars, dbVars, lastGreedy, start, endBlock, faults>>

Relevant(tx) == Parties[tx] \cap tracked # {} \/ tx \in Referenced

ProcessBlockAlways(n) == \* mutant: an empty ledger is persisted too
    IF n \in blocks THEN UNCHANGED <<blocks, txs>>
    ELSE /\ txs' = txs \cup {tx \in Tx : LedgerOf[tx] = n /\ Relevant(tx)}
         /\ blocks' = blocks \cup {n}

\* processBlock, in one transaction.  A ledger whose row exists is skipped,
\* and the row exists as soon as one of its transactions was stored.
ProcessBlock(n) ==
    LET new == {tx \in Tx : LedgerOf[tx] = n /\ Relevant(tx)} IN
    IF n \in blocks THEN UNCHANGED <<blocks, txs>>
    ELSE /\ txs' = txs \cup new
         /\ blocks' = IF new = {} THEN blocks ELSE blocks \cup {n}

ProcessSettledAnew == \* mutant: the bound is read again for each ledger
    /\ pc = "settled" /\ at <= LastBlockToHandle
    /\ ProcessBlock(at)
    /\ pc' = "pointer"
    /\ UNCHANGED <<coreVars, firstUnhandled, early, memVars, start, at, endBlock, faults>>

ProcessSettled ==
    /\ pc = "settled" /\ at <= endBlock
    /\ ProcessBlock(at)
    /\ pc' = "pointer"
    /\ UNCHANGED <<coreVars, firstUnhandled, early, memVars, start, at, endBlock, faults>>

SetFirstUnhandledBlock ==
    /\ pc = "pointer"
    /\ firstUnhandled' = at + 1
    /\ lastGreedy' = at
    /\ at' = at + 1 /\ pc' = "settled"
    /\ UNCHANGED <<coreVars, blocks, txs, early, tracked, start, endBlock, faults>>

BeginGreedy ==
    /\ pc = "settled" /\ at > endBlock
    /\ start' = IF lastGreedy > start THEN lastGreedy ELSE start
    /\ at' = start' + 1
    /\ endBlock' = LatestBlockToHandle
    /\ pc' = "greedy"
    /\ UNCHANGED <<coreVars, dbVars, memVars, faults>>

ProcessGreedySticks == \* mutant: the greedy pass never goes on
    /\ pc = "greedy" /\ at <= endBlock
    /\ UNCHANGED <<blocks, txs, early>>
    /\ lastGreedy' = at /\ at' = at + 1
    /\ UNCHANGED <<coreVars, firstUnhandled, tracked, pc, start, endBlock, faults>>

ProcessGreedy ==
    /\ pc = "greedy" /\ at <= endBlock
    /\ ProcessBlock(at)
    /\ early' = early \cup (blocks' \ blocks) \X (Vault \ tracked)
    /\ lastGreedy' = at /\ at' = at + 1
    /\ UNCHANGED <<coreVars, firstUnhandled, tracked, pc, start, endBlock, faults>>

EndTurn ==
    /\ pc = "greedy" /\ at > endBlock
    /\ pc' = "idle"
    /\ UNCHANGED <<coreVars, dbVars, memVars, start, at, endBlock, faults>>

\* An RPC call or a transaction throws; the object and its memory live on.
Fail ==
    /\ pc # "idle" /\ faults < MaxFaults
    /\ pc' = "idle"
    /\ faults' = faults + 1
    /\ UNCHANGED <<coreVars, dbVars, memVars, start, at, endBlock>>

\* The process is killed and started again.
Restart ==
    /\ faults < MaxFaults
    /\ tracked' = Monitored /\ lastGreedy' = 0
    /\ pc' = "idle"
    /\ faults' = faults + 1
    /\ UNCHANGED <<coreVars, dbVars, start, at, endBlock>>

-----------------------------------------------------------------------------
Core ==
    \/ CloseLedger
    \/ \E v \in Vault : IndexVault(v)
    \/ \E n \in 1 .. MaxLedger : IndexCurrentBlock(n)

Run ==
    \/ RunHistoric \/ UpdateTrackedAddresses
    \/ ProcessSettled \/ SetFirstUnhandledBlock
    \/ BeginGreedy \/ ProcessGreedy \/ EndTurn

Next == Core \/ Run \/ Fail \/ Restart

Spec == Init /\ [][Next]_vars

\* The runner never stops.
FairSpec == Spec /\ WF_vars(Run)

-----------------------------------------------------------------------------
TypeOK ==
    /\ vaults \subseteq Vault /\ current <= ledger
    /\ blocks = {LedgerOf[tx] : tx \in txs}
    /\ firstUnhandled \in Nat \cup {NoBlock}
    /\ tracked \subseteq Monitored \cup vaults
    /\ pc \in {"idle", "track", "settled", "pointer", "greedy"}
    /\ lastGreedy <= ledger

Below(tx) == firstUnhandled # NoBlock /\ LedgerOf[tx] \in MinBlock .. firstUnhandled - 1

\* No referenced payment below the pointer is missing, whichever pass came
\* first and whatever failed on the way.
ReferencesComplete == \A tx \in Referenced : Below(tx) => tx \in txs

\* The note at lastBlockToHandle: vault creations "are indexed before the xrp
\* indexer skips the associated agent vault underlying addresses".  Below the
\* pointer, every transaction of a vault created before it is stored.
VaultsComplete ==
    \A tx \in Tx :
        Below(tx) /\ (\E v \in Parties[tx] \cap Vault : CreatedAt[v] < LedgerOf[tx])
            => tx \in txs

\* What the code does hold: the settled pass itself skips no transaction of a
\* vault, whatever commits of the EVM indexer, failures and restarts come
\* between its awaits.  What is missing below the pointer is in a ledger of
\* which the greedy pass stored another transaction, before it tracked this
\* very vault.
VaultsUnlessGreedy ==
    \A tx \in Tx : \A v \in Parties[tx] \cap Vault :
        Below(tx) /\ CreatedAt[v] < LedgerOf[tx]
            => \/ tx \in txs
               \/ /\ <<LedgerOf[tx], v>> \in early
                  /\ \E k \in txs : LedgerOf[k] = LedgerOf[tx]

\* A referenced payment is stored in the end once its ledger is known to the
\* EVM side; and before that too, if it is above the pointer.  The ledger the
\* pointer stands at must wait: after a restart the greedy pass starts above.
EventuallySettled == \A tx \in Referenced : LedgerOf[tx] \in MinBlock .. current ~> tx \in txs
EventuallyGreedy ==
    \A tx \in Referenced :
        (FirstUnhandledBlock < LedgerOf[tx] /\ LedgerOf[tx] <= LatestBlockToHandle)
            ~> (tx \in txs \/ FirstUnhandledBlock = LedgerOf[tx])
=============================================================================
