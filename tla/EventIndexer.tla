---------------------------- MODULE EventIndexer ----------------------------
(***************************************************************************)
(* The EVM event indexer: EventIndexer.runHistoric driven for ever by      *)
(* IndexerRunner.run, over a chain whose recent blocks may be reorganised. *)
(*                                                                         *)
(* One turn reads the database pointer and the chain height, then walks    *)
(* the confirmed blocks in batches: fetch the logs of a batch, commit each *)
(* log in a database transaction of its own, commit the pointer.  Every    *)
(* await is a place where the process may die or the RPC node may fail;    *)
(* the runner then starts a new turn, and all that survives is the         *)
(* database: stored and firstUnhandled.                                    *)
(***************************************************************************)
EXTENDS EventLogs

CONSTANTS
    Tracked,       \* logs with an indexed topic, from a contract that is
                   \* known or becomes known with the rows of Source
    MinBlock,      \* minEvmBlockNumber database variable
    HeightOffset,  \* evmLogFetchBlockHeightOffset
    BatchSize,     \* evmLogFetchBlockBatchSize
    NoBlock,       \* null or undefined
    MaxHeight,     \* bound: the chain stops growing here
    MaxFaults      \* bound: failed or killed turns

ASSUME IndexerAssumption ==
    /\ Tracked \subseteq Log
    /\ MinBlock \in Nat
    /\ HeightOffset \in Nat
    /\ BatchSize \in Nat
    /\ NoBlock \notin Int
    /\ MaxHeight \in Nat
    /\ MaxFaults \in Nat

VARIABLES
    canon,          \* logs of the canonical chain, up to the head
    height,         \* block number of the head
    final,          \* last block that no reorganisation reaches
    stored,         \* EvmLog rows, each with the entities of its handler
    firstUnhandled, \* firstUnhandledEventBlock database variable
    pc,             \* where runHistoric is
    loopBlock,      \* i, the first block of the current batch
    endBlock,       \* last block of this turn
    logs,           \* logs of the current batch still to be handled
    faults          \* failures so far

chainVars == <<canon, height, final>>
dbVars    == <<stored, firstUnhandled>>
turnVars  == <<pc, loopBlock, endBlock, logs>>
vars      == <<chainVars, dbVars, turnVars, faults>>

Init ==
    /\ canon = {} /\ height = 0 /\ final = 0
    /\ stored = {}
    /\ firstUnhandled = NoBlock
    /\ pc = "idle" /\ loopBlock = 0 /\ endBlock = 0 /\ logs = {}
    /\ faults = 0

-----------------------------------------------------------------------------
(* The chain.  Blocks HeightOffset below the head are final: that is what  *)
(* the offset is configured for.                                           *)

ExtendChain ==
    /\ height < MaxHeight
    /\ height + 1 - HeightOffset <= final
    /\ \E new \in SUBSET {l \in Log : BlockOf[l] = height + 1} :
           /\ Causal(canon \cup new)
           /\ canon' = canon \cup new
    /\ height' = height + 1
    /\ UNCHANGED <<final, dbVars, turnVars, faults>>

Finalise ==
    /\ final < height
    /\ final' = final + 1
    /\ UNCHANGED <<canon, height, dbVars, turnVars, faults>>

\* The blocks above keep are abandoned; ExtendChain grows the new fork.
Reorganise ==
    /\ \E keep \in final .. height - 1 :
           /\ height' = keep
           /\ canon' = {l \in canon : BlockOf[l] <= keep}
    /\ UNCHANGED <<final, dbVars, turnVars, faults>>

-----------------------------------------------------------------------------
(* One turn of runHistoric.                                                *)

FirstUnhandledBlockNoDefault(startBlock) == \* mutant: no fallback to MinBlock
    IF firstUnhandled # NoBlock THEN firstUnhandled ELSE startBlock

FirstUnhandledBlock(startBlock) ==
    IF firstUnhandled # NoBlock THEN firstUnhandled
    ELSE IF startBlock # NoBlock THEN startBlock
    ELSE MinBlock

LastBlockToHandleHead == height \* mutant: ignores the offset
LastBlockToHandle == height - HeightOffset

EndLoopBlockUncapped == loopBlock + BatchSize \* mutant: the last batch is whole

EndLoopBlock ==
    IF loopBlock + BatchSize < endBlock THEN loopBlock + BatchSize ELSE endBlock

\* The head of runHistoric, given what firstUnhandledBlock and
\* lastBlockToHandle return: subclasses override both.
BeginTurn(first, last, startBlock, lastBlock) ==
    /\ pc = "idle"
    /\ loopBlock' = IF startBlock = NoBlock THEN first
                    ELSE IF first > startBlock THEN first ELSE startBlock
    /\ endBlock' = IF lastBlock = NoBlock THEN last
                   ELSE IF lastBlock > last THEN last ELSE lastBlock
    /\ pc' = "batch"
    /\ UNCHANGED <<chainVars, dbVars, logs, faults>>

RunHistoric(startBlock, lastBlock) ==
    BeginTurn(FirstUnhandledBlock(startBlock), LastBlockToHandle, startBlock, lastBlock)

\* EventScraper.getLogs: every log of the batch, whoever emitted it.
GetLogs ==
    /\ pc = "batch" /\ loopBlock <= endBlock
    /\ logs' = LogsIn(canon, loopBlock, EndLoopBlock)
    /\ pc' = "store"
    /\ UNCHANGED <<chainVars, dbVars, loopBlock, endBlock, faults>>

\* EventParser.logToEvent finds an interface for the topic and the emitter.
Parses(l) == l \in Tracked /\ Source[l] \subseteq stored

LogExistsNever(l) == FALSE \* mutant: no check before the insertion

\* EventStorer.logExists: the log was committed by an earlier turn.
LogExists(l) == l \in stored

\* What the database accepts: EvmLog is unique by block and index, and each
\* findOneOrFail of the handler finds its row.
Accepts(l) == l \notin stored /\ Refs[l] \subseteq stored

\* The parser returns null, or the log is in the database already.
SkipLog(l) ==
    /\ pc = "store" /\ IsFirst(l, logs)
    /\ ~Parses(l) \/ LogExists(l)
    /\ logs' = logs \ {l}
    /\ UNCHANGED <<chainVars, dbVars, pc, loopBlock, endBlock, faults>>

\* The transaction of EventStorer.processEvent commits.
CommitLog(l) ==
    /\ pc = "store" /\ IsFirst(l, logs)
    /\ Parses(l) /\ ~LogExists(l) /\ Accepts(l)
    /\ stored' = stored \cup {l}
    /\ logs' = logs \ {l}
    /\ UNCHANGED <<chainVars, firstUnhandled, pc, loopBlock, endBlock, faults>>

\* The handler throws: the transaction rolls back and the turn is over.
RejectLog(l) ==
    /\ pc = "store" /\ IsFirst(l, logs)
    /\ Parses(l) /\ ~LogExists(l) /\ ~Accepts(l)
    /\ pc' = "idle" /\ logs' = {}
    /\ UNCHANGED <<chainVars, dbVars, loopBlock, endBlock, faults>>

SetFirstUnhandledBlockEarly == \* mutant: the pointer moves before the logs are in
    /\ pc = "store"
    /\ firstUnhandled' = EndLoopBlock + 1
    /\ loopBlock' = loopBlock + BatchSize + 1
    /\ pc' = "batch" /\ logs' = {}
    /\ UNCHANGED <<chainVars, stored, endBlock, faults>>

SetFirstUnhandledBlock ==
    /\ pc = "store" /\ logs = {}
    /\ firstUnhandled' = EndLoopBlock + 1
    /\ loopBlock' = loopBlock + BatchSize + 1
    /\ pc' = "batch"
    /\ UNCHANGED <<chainVars, stored, endBlock, logs, faults>>

EndTurn ==
    /\ pc = "batch" /\ loopBlock > endBlock
    /\ pc' = "idle"
    /\ UNCHANGED <<chainVars, dbVars, loopBlock, endBlock, logs, faults>>

\* An RPC call or a transaction throws and the runner catches it, or the
\* process is killed and restarted.
Fail ==
    /\ pc # "idle" /\ faults < MaxFaults
    /\ pc' = "idle" /\ logs' = {}
    /\ faults' = faults + 1
    /\ UNCHANGED <<chainVars, dbVars, loopBlock, endBlock>>

-----------------------------------------------------------------------------
HandleLog == \E l \in Log : SkipLog(l) \/ CommitLog(l) \/ RejectLog(l)

\* run-indexer starts the runner without a start block.
Turn ==
    \/ RunHistoric(NoBlock, NoBlock)
    \/ GetLogs
    \/ HandleLog
    \/ SetFirstUnhandledBlock
    \/ EndTurn

Chain == ExtendChain \/ Finalise \/ Reorganise

Next == Chain \/ Turn \/ Fail

Spec == Init /\ [][Next]_vars

\* The runner never stops: some step of the turn is always taken in the end.
FairSpec == Spec /\ WF_vars(Turn)

-----------------------------------------------------------------------------
(* Properties.                                                             *)

\* The event list of the configuration contains every event that creates a
\* row the parser recognises emitters by, and indexing starts before them.
SourcesTracked ==
    \A l \in Tracked : \A k \in Source[l] :
        k \in Tracked /\ (BlockOf[l] >= MinBlock => BlockOf[k] >= MinBlock)

\* The tracked logs of the canonical chain in a range of blocks.
Due(from, to) == LogsIn(canon \cap Tracked, from, to)

TypeOK ==
    /\ canon \subseteq Log
    /\ height \in Nat
    /\ final \in 0 .. height
    /\ stored \subseteq Log
    /\ firstUnhandled \in Nat \cup {NoBlock}
    /\ pc \in {"idle", "batch", "store"}
    /\ loopBlock \in Nat
    /\ endBlock \in Int
    /\ logs \subseteq Log
    /\ faults \in 0 .. MaxFaults

\* No gap: once the pointer has moved past a block, every tracked log of that
\* block is in the database, whatever failed or was reorganised on the way.
Complete ==
    firstUnhandled # NoBlock => Due(MinBlock, firstUnhandled - 1) \subseteq stored

\* Nothing from an abandoned fork: a row is written only for a log that stays
\* on the canonical chain for ever.
OnlyFinal == \A l \in stored : l \in canon /\ BlockOf[l] <= final

\* The pointer only moves forward, and never past what is final.
PointerMonotonic ==
    [][ firstUnhandled' # firstUnhandled =>
          /\ firstUnhandled # NoBlock => firstUnhandled' > firstUnhandled
          /\ firstUnhandled' <= final + 1 ]_vars

\* A log whose handler asks for a row that the event list lets nobody write.
Orphans ==
    {l \in Tracked : ~(Refs[l] \subseteq {k \in Tracked : BlockOf[k] >= MinBlock})}

\* A tracked log with enough confirmations is stored in the end, unless the
\* head falls back below it, provided failures cease; an orphan stops the
\* indexer, but nothing that comes before it.
EventuallyStored ==
    \A l \in Tracked :
        (/\ l \in canon /\ BlockOf[l] \in MinBlock .. height - HeightOffset
         /\ \A k \in canon \cap Orphans : Before(l, k))
            ~> (l \in stored \/ BlockOf[l] > height - HeightOffset)

\* The ledger the indexer keeps: its settled logs are the tracked ones of the
\* final blocks.  LedgerSpec says each of them is committed once, in the
\* order of the chain, never before it is final and never undone.
Ledger == INSTANCE EventLedger WITH settled <- Due(MinBlock, final)

LedgerSpec == Ledger!LedgerSpec
=============================================================================
