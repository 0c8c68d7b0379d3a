----------------------------- MODULE RaceReindex -----------------------------
(***************************************************************************)
(* EventIndexerParallelRacePopulation: events that an existing database    *)
(* lacks (Diff) are back-populated by one indexer while another keeps      *)
(* indexing the events it always had (Old).  When the back indexer's       *)
(* pointer meets the front indexer's, a flag is committed and an indexer   *)
(* of all events takes over for good.                                      *)
(*                                                                         *)
(* The three are instances of EventIndexer over one database.  They run in *)
(* one process, one at a time, so they share the local variables of a turn;*)
(* stage says whose turn it is.                                            *)
(***************************************************************************)
EXTENDS EventLogs

CONSTANTS
    Old, Diff,         \* logs of the events indexed so far, of the new ones
    StartBlock,        \* REINDEX_START_BLOCK
    StepBlocks,        \* BLOCK_INDEX_BATCH_NUMBER
    NewBlocks,         \* NEW_BLOCKS_BEFORE_INDEX
    MinBlock, HeightOffset, BatchSize, NoBlock,
    StartHeight,       \* height of the chain when the update is deployed
    MaxHeight, MaxFaults

ASSUME RaceAssumption ==
    /\ Old \subseteq Log /\ Diff \subseteq Log /\ Old \cap Diff = {}
    /\ NoBlock \notin Int /\ StartBlock \in Nat \cup {NoBlock}
    /\ StepBlocks \in Nat /\ NewBlocks \in Nat
    /\ MinBlock \in Nat /\ HeightOffset \in Nat /\ BatchSize \in Nat
    /\ StartHeight \in Nat /\ MaxHeight \in Nat /\ MaxFaults \in Nat

VARIABLES
    canon, height, final,          \* the chain
    stored,                        \* EvmLog rows
    frontFirst,                    \* firstUnhandledEventBlock
    raceFirst,                     \* firstUnhandledRaceEventBlock_<name>
    synced,                        \* front_indexing_synced_<name>
    stage,                         \* whose turn it is
    frontSeen,                     \* firstUnhandledBlockFront, a local of run
    pc, loopBlock, endBlock, logs, \* the turn of that indexer
    faults

All == Old \cup Diff

Front == INSTANCE EventIndexer WITH Tracked <- Old, firstUnhandled <- frontFirst
Back  == INSTANCE EventIndexer WITH Tracked <- Diff, firstUnhandled <- raceFirst
Whole == INSTANCE EventIndexer WITH Tracked <- All, firstUnhandled <- frontFirst

chainVars == <<canon, height, final>>
turnVars  == <<pc, loopBlock, endBlock, logs>>
dbVars    == <<stored, frontFirst, raceFirst, synced>>
vars      == <<chainVars, dbVars, stage, frontSeen, turnVars, faults>>

\* The database an indexer of the old events leaves behind when it is stopped
\* between two batches.
Init ==
    /\ canon = LogsIn(Log, 0, StartHeight)
    /\ height = StartHeight /\ final = StartHeight
    /\ frontFirst \in MinBlock .. StartHeight - HeightOffset + 1
    /\ stored = LogsIn(canon \cap Old, MinBlock, frontFirst - 1)
    /\ raceFirst = NoBlock
    /\ synced = FALSE
    /\ stage = "start" /\ frontSeen = 0
    /\ pc = "idle" /\ loopBlock = 0 /\ endBlock = 0 /\ logs = {}
    /\ faults = 0

-----------------------------------------------------------------------------
\* run returns the indexer of all events when the flag is set.
AlreadySynced ==
    /\ stage = "start" /\ synced
    /\ stage' = "whole"
    /\ UNCHANGED <<chainVars, dbVars, frontSeen, turnVars, faults>>

BeginBackUnlimited == \* mutant: the back indexer may pass the front one
    /\ stage = "start" /\ ~synced
    /\ frontSeen' = Front!FirstUnhandledBlock(NoBlock)
    /\ LET back == Back!FirstUnhandledBlock(StartBlock)
       IN  Back!RunHistoric(back, back + StepBlocks)
    /\ stage' = "back"
    /\ UNCHANGED <<frontFirst, synced>>

\* One limited turn of the back indexer, never past the front one.
BeginBack ==
    LET back == Back!FirstUnhandledBlock(StartBlock)
        front == Front!FirstUnhandledBlock(NoBlock)
        limit == IF back + StepBlocks < front THEN back + StepBlocks ELSE front
    IN
    /\ stage = "start" /\ ~synced
    /\ frontSeen' = front
    /\ IF back < front
       THEN Back!RunHistoric(back, limit - 1) /\ stage' = "back"
       ELSE stage' = "compare" /\ UNCHANGED <<chainVars, stored, raceFirst, turnVars, faults>>
    /\ UNCHANGED <<frontFirst, synced>>

SwitchAt(gap) ==
    /\ stage = "compare"
    /\ Back!FirstUnhandledBlock(StartBlock) >= frontSeen + gap
    /\ synced' = TRUE
    /\ stage' = "whole"
    /\ UNCHANGED <<chainVars, stored, frontFirst, raceFirst, frontSeen, turnVars, faults>>

SwitchEarly == SwitchAt(-1) \* mutant: one block too soon
SwitchLate == SwitchAt(1)   \* mutant: a strict comparison

\* The pointers met: the flag is committed and the third indexer returned.
Switch == SwitchAt(0)

\* Otherwise the front indexer advances, if there is enough to do.
BeginFront ==
    /\ stage = "compare"
    /\ Back!FirstUnhandledBlock(StartBlock) < frontSeen
    /\ IF Front!LastBlockToHandle - frontSeen > NewBlocks
       THEN Front!RunHistoric(frontSeen, frontSeen + StepBlocks) /\ stage' = "front"
       ELSE stage' = "start" /\ UNCHANGED <<chainVars, stored, frontFirst, turnVars, faults>>
    /\ UNCHANGED <<raceFirst, synced, frontSeen>>

BackTurn ==
    /\ stage = "back"
    /\ \/ /\ Back!GetLogs \/ Back!SetFirstUnhandledBlock
             \/ \E l \in Log : Back!SkipLog(l) \/ Back!CommitLog(l)
          /\ UNCHANGED stage
       \/ Back!EndTurn /\ stage' = "compare"
       \/ (\E l \in Log : Back!RejectLog(l)) /\ stage' = "start"
    /\ UNCHANGED <<frontFirst, synced, frontSeen>>

FrontTurn ==
    /\ stage = "front"
    /\ \/ /\ Front!GetLogs \/ Front!SetFirstUnhandledBlock
             \/ \E l \in Log : Front!SkipLog(l) \/ Front!CommitLog(l)
          /\ UNCHANGED stage
       \/ Front!EndTurn /\ stage' = "start"
       \/ (\E l \in Log : Front!RejectLog(l)) /\ stage' = "start"
    /\ UNCHANGED <<raceFirst, synced, frontSeen>>

WholeTurn ==
    /\ stage = "whole"
    /\ Whole!Turn
    /\ UNCHANGED <<raceFirst, synced, stage, frontSeen>>

\* An exception the runner catches: it calls run of the same indexer again.
Fail ==
    /\ faults < MaxFaults
    /\ stage' = IF stage = "whole" THEN "whole" ELSE "start"
    /\ pc' = "idle" /\ logs' = {}
    /\ faults' = faults + 1
    /\ UNCHANGED <<chainVars, dbVars, frontSeen, loopBlock, endBlock>>

\* The process is killed and started again with the same configuration.
Restart ==
    /\ faults < MaxFaults
    /\ stage' = "start"
    /\ pc' = "idle" /\ logs' = {}
    /\ faults' = faults + 1
    /\ UNCHANGED <<chainVars, dbVars, frontSeen, loopBlock, endBlock>>

ExtendChain == Front!ExtendChain /\ UNCHANGED <<raceFirst, synced, stage, frontSeen>>
Finalise    == Front!Finalise /\ UNCHANGED <<raceFirst, synced, stage, frontSeen>>
Reorganise  == Front!Reorganise /\ UNCHANGED <<raceFirst, synced, stage, frontSeen>>

Chain == ExtendChain \/ Finalise \/ Reorganise

Run ==
    \/ AlreadySynced \/ BeginBack \/ Switch \/ BeginFront
    \/ BackTurn \/ FrontTurn \/ WholeTurn

Next == Chain \/ Run \/ Fail \/ Restart

Spec == Init /\ [][Next]_vars

\* The runner never stops, and the chain grows and settles.
FairSpec ==
    /\ Spec /\ WF_vars(Run)
    /\ WF_vars(ExtendChain)
    /\ SF_vars(Finalise)

-----------------------------------------------------------------------------
\* First block of the update's own events.
DiffStart == IF StartBlock = NoBlock THEN MinBlock ELSE StartBlock

\* The old events never have a gap below the pointer, and the new ones have
\* none below the pointer of the indexer that is in charge of them: the race
\* pointer, and from the moment the flag is set the main one.
RaceComplete ==
    /\ LogsIn(canon \cap Old, MinBlock, frontFirst - 1) \subseteq stored
    /\ raceFirst # NoBlock =>
           LogsIn(canon \cap Diff, DiffStart, raceFirst - 1) \subseteq stored
    /\ synced => LogsIn(canon \cap Diff, DiffStart, frontFirst - 1) \subseteq stored

\* Why the race exists: no handler ever misses the row of another event,
\* because a log is only handled when every event before it is in place.
NoMissingRow ==
    \A l \in logs : IsFirst(l, logs) =>
        \/ stage = "back" /\ (Back!Parses(l) => Refs[l] \subseteq stored)
        \/ stage = "front" /\ (Front!Parses(l) => Refs[l] \subseteq stored)
        \/ stage = "whole" /\ (Whole!Parses(l) => Refs[l] \subseteq stored)

\* The hand-over happens, whatever the chain does meanwhile.
EventuallySynced == <>(synced /\ stage = "whole")

\* The logs the update is there for, and that the parser recognises each of
\* them by what is indexed before it.
KeptOld  == {l \in Old : BlockOf[l] >= MinBlock}
KeptDiff == {l \in Diff : BlockOf[l] >= DiffStart}
SourcesKept ==
    /\ \A l \in KeptOld : Source[l] \subseteq KeptOld
    /\ \A l \in KeptDiff : Source[l] \subseteq KeptOld \cup KeptDiff

\* One table, two ledgers: the old events on one side and the new ones on the
\* other are recorded in chain order, each log once and never before it is
\* final, whichever of the three indexers records it; the hand-over breaks
\* the order of neither.
OldLedger == INSTANCE EventLedger
             WITH settled <- LogsIn(canon \cap KeptOld, 0, final), stored <- stored \cap KeptOld
NewLedger == INSTANCE EventLedger
             WITH settled <- LogsIn(canon \cap KeptDiff, 0, final), stored <- stored \cap KeptDiff

LedgersKept == OldLedger!ResumedSpec /\ NewLedger!ResumedSpec

\* The old events are a closed list: an indexer of them alone never stopped.
OldClosed ==
    \A l \in Old : \A k \in Source[l] \cup Refs[l] : k \in Old /\ BlockOf[k] >= MinBlock
AllClosed ==
    \A l \in All : \A k \in Source[l] \cup Refs[l] : k \in All /\ BlockOf[k] >= MinBlock
=============================================================================
