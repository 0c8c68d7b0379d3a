----------------------------- MODULE BackReindex -----------------------------
(***************************************************************************)
(* EventIndexerParallelBackPopulation: the front indexer indexes all       *)
(* events, the new ones included, from where the database stands; the back *)
(* indexer inserts the new events (Diff) below that block, which it reads  *)
(* once and keeps in lastEventBlock_<name>.  When it has passed that block *)
(* the front indexer stays alone.                                          *)
(*                                                                         *)
(* As in RaceReindex, one process runs both, one turn after the other.     *)
(***************************************************************************)
EXTENDS EventLogs

CONSTANTS
    Old, Diff,         \* logs of the events indexed so far, of the new ones
    StartBlock,        \* REINDEX_START_BLOCK
    StepBlocks,        \* BLOCK_INDEX_NUMBER
    NewBlocks,         \* NEW_BLOCKS_BEFORE_INDEX
    MinBlock, HeightOffset, BatchSize, NoBlock,
    StartHeight,       \* height of the chain when the update is deployed
    MaxHeight, MaxFaults

ASSUME BackAssumption ==
    /\ Old \subseteq Log /\ Diff \subseteq Log
    /\ NoBlock \notin Int /\ StartBlock \in Nat \cup {NoBlock}
    /\ StepBlocks \in Nat /\ NewBlocks \in Nat
    /\ MinBlock \in Nat /\ HeightOffset \in Nat /\ BatchSize \in Nat
    /\ StartHeight \in Nat /\ MaxHeight \in Nat /\ MaxFaults \in Nat

VARIABLES
    canon, height, final,          \* the chain
    stored,                        \* EvmLog rows
    mainFirst,                     \* firstUnhandledEventBlock
    backFirst,                     \* firstUnhandledEventBlock_<name>
    backLast,                      \* lastEventBlock_<name>
    stage,                         \* whose turn it is
    pc, loopBlock, endBlock, logs, \* the turn of that indexer
    faults,
    handover                       \* history: mainFirst at deployment

All == Old \cup Diff

Main == INSTANCE EventIndexer WITH Tracked <- All, firstUnhandled <- mainFirst
Back == INSTANCE EventIndexer WITH Tracked <- Diff, firstUnhandled <- backFirst

chainVars == <<canon, height, final>>
turnVars  == <<pc, loopBlock, endBlock, logs>>
dbVars    == <<stored, mainFirst, backFirst, backLast>>
vars      == <<chainVars, dbVars, stage, turnVars, faults, handover>>

Init ==
    /\ canon = LogsIn(Log, 0, StartHeight)
    /\ height = StartHeight /\ final = StartHeight
    /\ mainFirst \in MinBlock .. StartHeight - HeightOffset + 1
    /\ handover = mainFirst
    /\ stored = LogsIn(canon \cap Old, MinBlock, mainFirst - 1)
    /\ backFirst = NoBlock /\ backLast = NoBlock
    /\ stage = "start"
    /\ pc = "idle" /\ loopBlock = 0 /\ endBlock = 0 /\ logs = {}
    /\ faults = 0

-----------------------------------------------------------------------------
\* EventIndexerBackPopulation overrides both ends of the range.
BackFirstUnhandledForgets == \* mutant: no progress kept
    IF StartBlock # NoBlock THEN StartBlock ELSE MinBlock

BackFirstUnhandled == Back!FirstUnhandledBlock(StartBlock)

\* The block is the main pointer, committed the first time it is asked for.
BackLastBlockShort == \* mutant: stops one block below what was indexed
    IF backLast # NoBlock THEN backLast ELSE Main!FirstUnhandledBlock(NoBlock) - 2

BackLastBlock ==
    IF backLast # NoBlock THEN backLast ELSE Main!FirstUnhandledBlock(NoBlock)

BeginBack ==
    /\ stage = "start"
    /\ backLast' = BackLastBlock
    /\ IF BackFirstUnhandled <= BackLastBlock
       THEN /\ Back!BeginTurn(BackFirstUnhandled, BackLastBlock,
                              BackFirstUnhandled, BackFirstUnhandled + StepBlocks)
            /\ stage' = "back"
       ELSE /\ stage' = "whole"
            /\ UNCHANGED <<chainVars, stored, backFirst, turnVars, faults>>
    /\ UNCHANGED <<mainFirst, handover>>

BackTurn ==
    /\ stage = "back"
    /\ \/ /\ Back!GetLogs \/ Back!SetFirstUnhandledBlock
             \/ \E l \in Log : Back!SkipLog(l) \/ Back!CommitLog(l)
          /\ UNCHANGED stage
       \/ Back!EndTurn /\ stage' = "between"
       \/ (\E l \in Log : Back!RejectLog(l)) /\ stage' = "start"
    /\ UNCHANGED <<mainFirst, backLast, handover>>

BeginMain ==
    /\ stage = "between"
    /\ LET first == Main!FirstUnhandledBlock(NoBlock) IN
       IF Main!LastBlockToHandle - first > NewBlocks
       THEN Main!RunHistoric(first, first + StepBlocks) /\ stage' = "main"
       ELSE stage' = "start" /\ UNCHANGED <<chainVars, stored, mainFirst, turnVars, faults>>
    /\ UNCHANGED <<backFirst, backLast, handover>>

MainTurn ==
    /\ stage = "main"
    /\ \/ /\ Main!GetLogs \/ Main!SetFirstUnhandledBlock
             \/ \E l \in Log : Main!SkipLog(l) \/ Main!CommitLog(l)
          /\ UNCHANGED stage
       \/ Main!EndTurn /\ stage' = "start"
       \/ (\E l \in Log : Main!RejectLog(l)) /\ stage' = "start"
    /\ UNCHANGED <<backFirst, backLast, handover>>

\* The runner has switched to the front indexer.
WholeTurn ==
    /\ stage = "whole"
    /\ Main!Turn
    /\ UNCHANGED <<backFirst, backLast, stage, handover>>

\* An exception the runner catches: it calls run of the same indexer again.
Fail ==
    /\ faults < MaxFaults
    /\ stage' = IF stage = "whole" THEN "whole" ELSE "start"
    /\ pc' = "idle" /\ logs' = {}
    /\ faults' = faults + 1
    /\ UNCHANGED <<chainVars, dbVars, loopBlock, endBlock, handover>>

\* The process is killed and started again with the same configuration.
Restart ==
    /\ faults < MaxFaults
    /\ stage' = "start"
    /\ pc' = "idle" /\ logs' = {}
    /\ faults' = faults + 1
    /\ UNCHANGED <<chainVars, dbVars, loopBlock, endBlock, handover>>

ExtendChain == Main!ExtendChain /\ UNCHANGED <<backFirst, backLast, stage, handover>>
Finalise    == Main!Finalise /\ UNCHANGED <<backFirst, backLast, stage, handover>>
Reorganise  == Main!Reorganise /\ UNCHANGED <<backFirst, backLast, stage, handover>>

Chain == ExtendChain \/ Finalise \/ Reorganise

Run == BeginBack \/ BackTurn \/ BeginMain \/ MainTurn \/ WholeTurn

Next == Chain \/ Run \/ Fail \/ Restart

Spec == Init /\ [][Next]_vars

\* The runner never stops, and the chain grows and settles.
FairSpec ==
    /\ Spec /\ WF_vars(Run)
    /\ WF_vars(ExtendChain)
    /\ SF_vars(Finalise)

-----------------------------------------------------------------------------
(* utils/updates.ts: what the next start of the indexer reads to tell      *)
(* whether this update is finished (ensureUpdateIndexerIntegrity).         *)

\* backIndexerStats returns the two variables in the order [last, first].
BackIndexerStats == <<backLast, backFirst>>

BackIndexerSynced ==
    /\ backLast # NoBlock /\ backFirst # NoBlock
    /\ BackIndexerStats[1] >= BackIndexerStats[2]

-----------------------------------------------------------------------------
DiffStart == IF StartBlock = NoBlock THEN MinBlock ELSE StartBlock

\* The two passes leave no gap between them: what the back indexer does not
\* insert the front one does, and when it stays alone nothing is missing.  In
\* the block of the hand-over itself the back indexer may drop a log whose
\* source the front indexer has yet to store; the front one takes it then.
BackComplete ==
    /\ LogsIn(canon \cap Old, MinBlock, mainFirst - 1) \subseteq stored
    /\ LogsIn(canon \cap Diff, handover, mainFirst - 1) \subseteq stored
    /\ backFirst # NoBlock =>
           \A l \in LogsIn(canon \cap Diff, DiffStart, backFirst - 1) :
               BlockOf[l] < handover => l \in stored
    /\ stage = "whole" =>
           LogsIn(canon \cap Diff, DiffStart, mainFirst - 1) \subseteq stored

\* The back pass is over in the end and every confirmed log is stored.
EventuallyWhole == <>(stage = "whole")
AllStored ==
    <>[](\A l \in LogsIn(canon \cap All, DiffStart, height - HeightOffset) : l \in stored)

\* integrity.ts warns of an update that is "unfinished" or "still open", that
\* is, unless the back indexer has handled its whole range.
FinishedIsSynced ==
    backFirst # NoBlock /\ backLast # NoBlock =>
        (BackIndexerSynced <=> backFirst > backLast)

\* The logs the update is there for.  The parser recognises all of them by
\* what was indexed before it: the new events by old ones only, or the main
\* indexer would drop one whose source the back indexer has yet to insert.
KeptOld  == {l \in Old : BlockOf[l] >= MinBlock}
KeptDiff == {l \in Diff : BlockOf[l] >= DiffStart}
SourcesKept == \A l \in KeptOld \cup Diff : Source[l] \subseteq KeptOld

\* One table, three ledgers, each recorded in chain order, each log once and
\* never before it is final: the old events, which the main indexer records;
\* the new ones below the hand-over's block, which the back one inserts; and
\* the new ones above it, which the main one finds.  In that block both record
\* new events, and their order is nobody's.
OldOnly  == KeptOld \ Diff
NewBelow == {l \in KeptDiff \ Old : BlockOf[l] < handover}
NewAbove == {l \in KeptDiff \ Old : BlockOf[l] > handover}

OldLedger   == INSTANCE EventLedger WITH settled <- LogsIn(canon \cap OldOnly, 0, final),
                                         stored <- stored \cap OldOnly
BelowLedger == INSTANCE EventLedger WITH settled <- LogsIn(canon \cap NewBelow, 0, final),
                                         stored <- stored \cap NewBelow
AboveLedger == INSTANCE EventLedger WITH settled <- LogsIn(canon \cap NewAbove, 0, final),
                                         stored <- stored \cap NewAbove

LedgersKept ==
    OldLedger!ResumedSpec /\ BelowLedger!ResumedSpec /\ AboveLedger!ResumedSpec

OldClosed ==
    \A l \in Old : \A k \in Source[l] \cup Refs[l] : k \in Old /\ BlockOf[k] >= MinBlock
AllClosed ==
    \A l \in All : \A k \in Source[l] \cup Refs[l] : k \in All /\ BlockOf[k] >= MinBlock
=============================================================================
