---------------------------- MODULE DogeIndexer ----------------------------
(***************************************************************************)
(* The DOGE indexer and its deforker.  The indexer follows the head of the *)
(* chain without waiting for confirmations, so a turn begins by comparing  *)
(* the stored blocks with the node's, from the top down, and purging those *)
(* of an abandoned fork.  Then it stores the new blocks, each with the     *)
(* transactions that carry a payment reference, and commits the pointer.   *)
(*                                                                         *)
(* A block is named by the branches taken up to it: its hash determines    *)
(* its height and everything beneath it.  The BTC indexer is this class.   *)
(***************************************************************************)
EXTENDS Integers, Sequences, SequencesExt

CONSTANTS
    Branch,        \* the ways in which a chain may go on
    Tx,            \* transactions with a payment reference
    Payments(_),   \* the transactions of a block
    MinBlock,      \* dogeMinBlockNumber
    NoBlock,       \* null
    MaxHeight,     \* bound: the chain stops growing here
    MaxReorgs,     \* bound: reorganisations
    MaxFaults      \* bound: failed or killed turns

ASSUME DogeAssumption ==
    /\ MinBlock \in Nat \ {0}
    /\ NoBlock \notin Int
    /\ {MaxHeight, MaxReorgs, MaxFaults} \subseteq Nat

VARIABLES
    chain,          \* the branch taken at each height
    reorgs,         \* reorganisations so far
    struck,         \* history: a reorganisation has struck in mid-turn
    blockRow,       \* UnderlyingBlock rows: the hash at each stored height
    txRow,          \* UnderlyingTransaction rows with their references: the
                    \* height of the block row they point to
    firstUnhandled, \* firstUnhandledDogeBlock
    pc,             \* where runHistoric is
    at,             \* i, the height at hand
    endBlock,       \* last block of this turn
    block,          \* hash of the block fetched
    faults

chainVars == <<chain, reorgs, struck>>
dbVars    == <<blockRow, txRow, firstUnhandled>>
turnVars  == <<pc, at, endBlock, block>>
vars      == <<chainVars, dbVars, turnVars, faults>>

Init ==
    /\ chain = <<>> /\ reorgs = 0 /\ struck = FALSE
    /\ blockRow = <<>> /\ txRow = <<>>
    /\ firstUnhandled = NoBlock
    /\ pc = "idle" /\ at = 0 /\ endBlock = 0 /\ block = <<>>
    /\ faults = 0

Height == Len(chain)
BlockHash(height) == SubSeq(chain, 1, height)

-----------------------------------------------------------------------------
ExtendChain ==
    /\ Height < MaxHeight
    /\ \E b \in Branch : chain' = Append(chain, b)
    /\ UNCHANGED <<reorgs, struck, dbVars, turnVars, faults>>

\* The blocks above keep are abandoned; they may become canonical again.
Reorganise ==
    /\ reorgs < MaxReorgs
    /\ \E keep \in 0 .. Height - 1 : chain' = BlockHash(keep)
    /\ reorgs' = reorgs + 1
    /\ struck' = (struck \/ pc # "idle")
    /\ UNCHANGED <<dbVars, turnVars, faults>>

-----------------------------------------------------------------------------
(* DogeDeforker.defork.                                                    *)

\* dbBlockHeight: the highest stored block, from which defork walks down.
BeginDefork ==
    /\ pc = "idle"
    /\ IF DOMAIN blockRow = {}
       THEN pc' = "range" /\ at' = 0
       ELSE /\ pc' = "defork"
            /\ at' = CHOOSE h \in DOMAIN blockRow : \A g \in DOMAIN blockRow : g <= h
    /\ UNCHANGED <<chainVars, dbVars, endBlock, block, faults>>

\* Both rows and hashes exist: the node's hash is compared with the row's.
CompareBlock ==
    /\ pc = "defork" /\ at \in DOMAIN blockRow /\ at <= Height
    /\ pc' = IF blockRow[at] # BlockHash(at) THEN "purge" ELSE "range"
    /\ UNCHANGED <<chainVars, dbVars, at, endBlock, block, faults>>

\* findOneOrFail finds no row, or the node has no block of that height.
CompareFails ==
    /\ pc = "defork" /\ ~(at \in DOMAIN blockRow /\ at <= Height)
    /\ pc' = "idle"
    /\ UNCHANGED <<chainVars, dbVars, at, endBlock, block, faults>>

Referenced(height) == \E t \in DOMAIN txRow : txRow[t] = height

PurgeKeepsPointer == \* mutant: the pointer is not moved back
    /\ pc = "purge" /\ ~Referenced(at)
    /\ blockRow' = [h \in DOMAIN blockRow \ {at} |-> blockRow[h]]
    /\ at' = at - 1 /\ pc' = "defork"
    /\ UNCHANGED <<chainVars, txRow, firstUnhandled, endBlock, block, faults>>

PurgeOneBlock == \* mutant: only the highest block is compared
    /\ pc = "purge" /\ ~Referenced(at)
    /\ blockRow' = [h \in DOMAIN blockRow \ {at} |-> blockRow[h]]
    /\ firstUnhandled' = at
    /\ at' = at - 1 /\ pc' = "range"
    /\ UNCHANGED <<chainVars, txRow, endBlock, block, faults>>

\* purgeDataAtHeight: the block row, its references and the pointer, in one
\* transaction.  No reference is left to delete when the block goes.
PurgeDataAtHeight ==
    /\ pc = "purge" /\ ~Referenced(at)
    /\ blockRow' = [h \in DOMAIN blockRow \ {at} |-> blockRow[h]]
    /\ firstUnhandled' = at
    /\ at' = at - 1 /\ pc' = IF at > 0 THEN "defork" ELSE "range"
    /\ UNCHANGED <<chainVars, txRow, endBlock, block, faults>>

\* The block goes before the rows that refer to it: the database refuses, and
\* nothing of the transaction is left.
PurgeRejected ==
    /\ pc = "purge" /\ Referenced(at)
    /\ pc' = "idle"
    /\ UNCHANGED <<chainVars, dbVars, at, endBlock, block, faults>>

-----------------------------------------------------------------------------
(* DogeIndexer.runHistoricWithoutDefork; run-indexer passes MinBlock as    *)
(* the start block.                                                        *)

FirstUnhandledBlock == IF firstUnhandled # NoBlock THEN firstUnhandled ELSE MinBlock

LastBlockToHandle == Height

BeginRange ==
    /\ pc = "range"
    /\ at' = IF FirstUnhandledBlock > MinBlock THEN FirstUnhandledBlock ELSE MinBlock
    /\ endBlock' = LastBlockToHandle
    /\ pc' = "loop"
    /\ UNCHANGED <<chainVars, dbVars, block, faults>>

FetchBlockBelow == \* mutant: off by one
    /\ pc = "loop" /\ at <= endBlock
    /\ IF at <= Height
       THEN block' = BlockHash(at - 1) /\ pc' = "store"
       ELSE pc' = "idle" /\ UNCHANGED block
    /\ UNCHANGED <<chainVars, dbVars, at, endBlock, faults>>

\* The hash of that height, then the block of that hash.
FetchBlock ==
    /\ pc = "loop" /\ at <= endBlock
    /\ IF at <= Height
       THEN block' = BlockHash(at) /\ pc' = "store"
       ELSE pc' = "idle" /\ UNCHANGED block
    /\ UNCHANGED <<chainVars, dbVars, at, endBlock, faults>>

\* What the database accepts: height and hash of a block are unique, and so
\* is the hash of a transaction.
Accepts == at \notin DOMAIN blockRow /\ Payments(block) \cap DOMAIN txRow = {}

StoreForgetsTransactions == \* mutant: only the block is stored
    /\ pc = "store" /\ Accepts
    /\ blockRow' = [h \in DOMAIN blockRow \cup {at} |-> IF h = at THEN block ELSE blockRow[h]]
    /\ pc' = "pointer"
    /\ UNCHANGED <<chainVars, txRow, firstUnhandled, at, endBlock, block, faults>>

\* processBlock: the block and its referencing transactions, all or nothing.
ProcessBlock ==
    /\ pc = "store" /\ Accepts
    /\ blockRow' = [h \in DOMAIN blockRow \cup {at} |-> IF h = at THEN block ELSE blockRow[h]]
    /\ txRow' = [t \in DOMAIN txRow \cup Payments(block) |->
                    IF t \in Payments(block) THEN at ELSE txRow[t]]
    /\ pc' = "pointer"
    /\ UNCHANGED <<chainVars, firstUnhandled, at, endBlock, block, faults>>

ProcessBlockRejected ==
    /\ pc = "store" /\ ~Accepts
    /\ pc' = "idle"
    /\ UNCHANGED <<chainVars, dbVars, at, endBlock, block, faults>>

SetFirstUnhandledBlock ==
    /\ pc = "pointer"
    /\ firstUnhandled' = at + 1
    /\ at' = at + 1 /\ pc' = "loop"
    /\ UNCHANGED <<chainVars, blockRow, txRow, endBlock, block, faults>>

EndTurn ==
    /\ pc = "loop" /\ at > endBlock
    /\ pc' = "idle"
    /\ UNCHANGED <<chainVars, dbVars, at, endBlock, block, faults>>

\* An RPC call throws, or the process is killed and started again.
Fail ==
    /\ pc # "idle" /\ faults < MaxFaults
    /\ pc' = "idle"
    /\ faults' = faults + 1
    /\ UNCHANGED <<chainVars, dbVars, at, endBlock, block>>

-----------------------------------------------------------------------------
RunHistoric ==
    \/ BeginDefork \/ CompareBlock \/ CompareFails
    \/ PurgeDataAtHeight \/ PurgeRejected
    \/ BeginRange \/ FetchBlock \/ ProcessBlock \/ ProcessBlockRejected
    \/ SetFirstUnhandledBlock \/ EndTurn

Next == ExtendChain \/ Reorganise \/ RunHistoric \/ Fail

Spec == Init /\ [][Next]_vars

\* The runner never stops and blocks are mined for ever.
FairSpec == Spec /\ WF_vars(RunHistoric) /\ WF_vars(ExtendChain)

-----------------------------------------------------------------------------
TypeOK ==
    /\ chain \in Seq(Branch) /\ Height <= MaxHeight
    /\ \A h \in DOMAIN blockRow : h >= MinBlock /\ Len(blockRow[h]) = h
    /\ DOMAIN txRow \subseteq Tx
    /\ firstUnhandled \in Nat \cup {NoBlock}
    /\ pc \in {"idle", "defork", "purge", "range", "loop", "store", "pointer"}

\* The rows and the pointer stay in step through forks and crashes: the
\* stored heights have no hole, they end at the pointer, or one above it when
\* the pointer's commit is due.
NoGap ==
    DOMAIN blockRow \in { MinBlock .. FirstUnhandledBlock - 1,
                          MinBlock .. FirstUnhandledBlock }

\* Each stored block has the rows of its references, and each row its block.
PaymentsRecorded ==
    \A t \in Tx, h \in DOMAIN blockRow :
        (t \in Payments(blockRow[h])) <=> (t \in DOMAIN txRow /\ txRow[t] = h)

\* The stored blocks are one chain: none of them lies on an abandoned one.
\* This needs every reorganisation so far to have come between two turns.
OneChain ==
    ~struck => \A h \in DOMAIN blockRow :
        h - 1 \in DOMAIN blockRow => blockRow[h - 1] = Front(blockRow[h])

\* The indexer follows the chain in the end, or it has met one of the three
\* situations it cannot leave: the block at the pointer is stored already; an
\* abandoned block holds a payment; an abandoned block lies beneath a
\* canonical one.
IsStored(t) == t \in DOMAIN txRow
Canonical(h) == h <= Height /\ blockRow[h] = BlockHash(h)
StoredAhead == FirstUnhandledBlock \in DOMAIN blockRow
PaymentAbandoned == \E t \in Tx : IsStored(t) /\ ~Canonical(txRow[t])
Buried ==
    \E h \in DOMAIN blockRow : h + 1 \in DOMAIN blockRow /\ ~Canonical(h) /\ Canonical(h + 1)

Following ==
    /\ DOMAIN blockRow = MinBlock .. Height
    /\ \A h \in DOMAIN blockRow : Canonical(h)

FollowsChain == <>[](Following \/ StoredAhead \/ PaymentAbandoned \/ Buried)

\* deforker.ts: "purging ... blocks at height ... due to found fork": a stored
\* block that the chain has abandoned goes in the end.
TopAbandoned == \E h \in DOMAIN blockRow :
    h + 1 \notin DOMAIN blockRow /\ ~Canonical(h)

ForksPurged == TopAbandoned ~> ~TopAbandoned
=============================================================================
